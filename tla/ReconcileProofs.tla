--------------------------- MODULE ReconcileProofs ---------------------------
(***************************************************************************)
(* What the operators of MachineStatus and Reconcile return, for every     *)
(* setting: each maps a status to a status, and how each moves the phase,  *)
(* the cordon and the powered-off marker (HandleType sums it up for a      *)
(* whole reconcile); then what each keeps of the records of boots and of   *)
(* changes by hand, and the commands it sends (HandleBoots); last, for a   *)
(* machine that is only ever shut down, what becomes of the decision and   *)
(* the marker (HandleDecided) and when a boot failure can be recorded      *)
(* (HandleFailure).                                                        *)
(***************************************************************************)
EXTENDS Reconcile, TLAPS

\* The fields of a status, one by one.
LEMMA StatusFields ==
  ASSUME NEW s \in Status
  PROVE  /\ s.phase \in Phases /\ s.phase_since \in OptTime
         /\ s.power_state \in PowerStates
         /\ s.node_ready \in BOOLEAN /\ s.consistent \in BOOLEAN
         /\ s.pools \in SUBSET Pools
         /\ s.scaling_decision \in Decisions \cup {None}
         /\ s.last_power_action \in ActionRecords \cup {None}
         /\ s.standby_since \in OptTime /\ s.standby_failed_at \in OptTime
         /\ s.forced_off_at \in OptTime /\ s.drain_failed_at \in OptTime
         /\ s.boot_failure \in BootFailures \cup {None}
         /\ s.powered_on_not_ready_since \in OptTime
         /\ s.manual_power_on \in OptTime /\ s.manual_power_off \in OptTime
BY Zenon DEF Status

\* An optional time is a time or None.
LEMMA TimeIsOptTime == Nat \subseteq OptTime /\ None \in OptTime
BY DEF OptTime

\* set_phase leaves a status in the phase asked for.
LEMMA SetPhaseType ==
  ASSUME NEW s \in Status, NEW p \in Phases, NEW n \in Nat
  PROVE  /\ set_phase(s, p, n) \in Status
         /\ set_phase(s, p, n).phase = p
<1>1. n \in OptTime
  BY TimeIsOptTime
<1> QED
  BY <1>1, ZenonT(20) DEF set_phase, Status

\* act records the command and leaves the phase alone.
LEMMA ActType ==
  ASSUME NEW s \in Status, NEW a \in Actions, NEW ok \in BOOLEAN, NEW n \in Nat
  PROVE  /\ act(s, a, ok, n) \in Status
         /\ act(s, a, ok, n).phase = s.phase
<1> DEFINE done  == [action |-> a, time |-> n, succeeded |-> ok]
           since == CASE a = "Standby" -> n [] a = "PowerOff" -> None
                      [] OTHER -> s.standby_since
<1>1. done \in ActionRecords
  BY DEF ActionRecords
<1>2. since \in OptTime
  BY StatusFields, TimeIsOptTime
<1>3. act(s, a, ok, n) = [s EXCEPT !.last_power_action = done, !.standby_since = since]
  BY DEF act, Status
<1> HIDE DEF done, since
<1> QED
  BY <1>1, <1>2, <1>3, ZenonT(20) DEF Status

\* track_boot leaves the phase alone.
LEMMA TrackBootType ==
  ASSUME NEW s \in Status, NEW n \in Nat
  PROVE  /\ track_boot(s, n).st \in Status
         /\ track_boot(s, n).st.phase = s.phase
<1> DEFINE since   == boot_start(s, n)
           tracked == [s EXCEPT !.powered_on_not_ready_since = since]
           failure == [time |-> n, left_on |-> FALSE]
           ready   == [s EXCEPT !.powered_on_not_ready_since = None, !.boot_failure = None]
           dark    == [s EXCEPT !.powered_on_not_ready_since = None]
           failed  == [tracked EXCEPT !.boot_failure = failure]
<1>1. since \in OptTime /\ None \in OptTime /\ failure \in BootFailures
  BY StatusFields DEF boot_start, MinOf, OptTime, BootFailures
<1>2. track_boot(s, n) \in
        { [st |-> ready, event |-> "Recovered"], [st |-> ready, event |-> "None"],
          [st |-> dark, event |-> "None"], [st |-> s, event |-> "None"],
          [st |-> failed, event |-> "Failed"], [st |-> tracked, event |-> "None"] }
  <2> HIDE DEF tracked, failure, ready, dark
  <2> QED BY Zenon DEF track_boot, tracked, failure, ready, dark
<1>3. /\ ready \in Status /\ ready.phase = s.phase
      /\ dark \in Status /\ dark.phase = s.phase
  BY <1>1, ZenonT(20) DEF Status
<1>4. tracked \in Status /\ tracked.phase = s.phase
  <2> HIDE DEF since
  <2> QED BY <1>1, ZenonT(20) DEF Status
<1>5. failed \in Status /\ failed.phase = s.phase
  <2> HIDE DEF tracked, failure
  <2> QED BY <1>1, <1>4, ZenonT(20) DEF Status
<1> HIDE DEF tracked, ready, dark, failed
<1> QED
  BY <1>2, <1>3, <1>4, <1>5

\* manual_change leaves the phase alone.
LEMMA ManualChangeType ==
  ASSUME NEW s \in Status, NEW c, NEW n \in Nat
  PROVE  /\ manual_change(s, c, n) \in Status
         /\ manual_change(s, c, n).phase = s.phase
<1> DEFINE kept == IF s.boot_failure # None /\ s.boot_failure.left_on THEN None ELSE s.boot_failure
           on   == [s EXCEPT !.manual_power_on = n, !.scaling_decision = None,
                             !.standby_since = None, !.boot_failure = None]
           off  == [s EXCEPT !.manual_power_on = None, !.manual_power_off = n,
                             !.scaling_decision = None, !.boot_failure = kept]
<1>1. n \in OptTime /\ None \in OptTime
  BY TimeIsOptTime
<1>2. kept \in BootFailures \cup {None}
  BY StatusFields
<1>3. on \in Status /\ on.phase = s.phase
  BY <1>1, ZenonT(20) DEF Status
<1>4. off \in Status /\ off.phase = s.phase
  <2> HIDE DEF kept
  <2> QED BY <1>1, <1>2, ZenonT(20) DEF Status
<1>5. manual_change(s, c, n) \in {on, off, s}
  BY DEF manual_change, Status
<1> HIDE DEF on, off
<1> QED
  BY <1>3, <1>4, <1>5

-----------------------------------------------------------------------------
(* Outcomes.                                                               *)

\* What a reconcile has read.
Read(r) == /\ r.old \in Status /\ r.now \in Nat /\ r.policy \in Policies
           /\ r.node \in Nodes /\ r.member \in SUBSET Pools

\* PoweringOff is entered from Draining only, over an empty Node, with the
\* marker set, and nothing is undone while it lasts; Draining is entered with a
\* cordon.  s is the status the handler started from.
PhaseSafe(out, s, ps, r) ==
  /\ out.st.phase = "PoweringOff" =>
       \/ s.phase = "PoweringOff" /\ out.cordon = "keep" /\ out.mark # "clear"
       \/ /\ s.phase = "Draining" /\ (ps = {} \/ ForceAfterDrainTimeout)
          /\ out.cordon = "keep" /\ out.mark = "mark"
  /\ out.st.phase = "Draining" =>
       \/ s.phase = "Draining" /\ out.cordon = "keep"
       \/ out.cordon = "cordon"
       \/ out.cordon = "keep" /\ r.node.cordoned

\* A reconcile that only stores a status touches nothing else.
LEMMA OnlyType ==
  ASSUME NEW s \in Status
  PROVE  /\ Only(s) \in Outcomes /\ Only(s).st = s
         /\ Only(s).cordon = "keep" /\ Only(s).mark = "keep"
BY DEF Only, Outcomes, Cordons, Marks

\* The parts of an outcome.
LEMMA OutcomeFields ==
  ASSUME NEW out \in Outcomes
  PROVE  /\ out.st \in Status /\ out.cmd \in Actions \cup {None}
         /\ out.cordon \in Cordons /\ out.mark \in Marks
BY Zenon DEF Outcomes

\* Sending a command changes neither the phase nor the Node.
LEMMA SendType ==
  ASSUME NEW s \in Status, NEW a \in Actions, NEW ok \in BOOLEAN, NEW n \in Nat
  PROVE  /\ Send(s, a, ok, n) \in Outcomes
         /\ Send(s, a, ok, n).st.phase = s.phase
         /\ Send(s, a, ok, n).cordon = "keep" /\ Send(s, a, ok, n).mark = "keep"
<1> DEFINE t == act(s, a, ok, n)
<1>1. t \in Status /\ t.phase = s.phase
  BY ActType
<1> HIDE DEF t
<1>2. /\ [Only(t) EXCEPT !.cmd = a] \in Outcomes
      /\ [Only(t) EXCEPT !.cmd = a].st = t
      /\ [Only(t) EXCEPT !.cmd = a].cordon = "keep"
      /\ [Only(t) EXCEPT !.cmd = a].mark = "keep"
  BY <1>1 DEF Only, Outcomes, Cordons, Marks
<1> QED
  BY <1>1, <1>2 DEF Send, t

\* cordon, uncordon_if_ours and clear_powered_off change only their own part.
LEMMA NodeCallTypes ==
  ASSUME NEW out \in Outcomes, NEW r
  PROVE  /\ cordon(out, r) \in Outcomes /\ cordon(out, r).st = out.st
         /\ cordon(out, r).cordon = IF r.node.cordoned THEN out.cordon ELSE "cordon"
         /\ uncordon_if_ours(out, r) \in Outcomes /\ uncordon_if_ours(out, r).st = out.st
         /\ clear_powered_off(out, r) \in Outcomes /\ clear_powered_off(out, r).st = out.st
BY DEF cordon, uncordon_if_ours, clear_powered_off, Outcomes, Cordons, Marks

-----------------------------------------------------------------------------
(* ensure_on.                                                              *)

\* A power-on ends in PoweringOn, or in Error when it was refused.
LEMMA PowerOnType ==
  ASSUME NEW s \in Status, NEW r, Read(r), NEW ok \in BOOLEAN
  PROVE  /\ power_on(s, r, ok) \in Outcomes
         /\ power_on(s, r, ok).st.phase \in {"PoweringOn", "Error"}
<1> DEFINE out == Send(s, "PowerOn", ok, r.now)
           p   == IF ok THEN "PoweringOn" ELSE "Error"
           t   == set_phase(out.st, p, r.now)
<1>1. out \in Outcomes /\ out.st \in Status
  BY SendType, OutcomeFields DEF Actions, Read
<1>2. t \in Status /\ t.phase \in {"PoweringOn", "Error"}
  <2>1. p \in Phases /\ p \in {"PoweringOn", "Error"} /\ r.now \in Nat
    BY DEF Phases, Read
  <2> HIDE DEF p, out
  <2> QED BY <1>1, <2>1, SetPhaseType, Zenon
<1>3. power_on(s, r, ok) = [out EXCEPT !.st = t]
  BY <1>1 DEF power_on, Outcomes
<1> HIDE DEF t, out
<1> QED
  BY <1>1, <1>2, <1>3 DEF Outcomes

\* A Ready machine is On.
LEMMA OnlineType ==
  ASSUME NEW s \in Status, NEW r, Read(r)
  PROVE  /\ online(s, r) \in Outcomes
         /\ online(s, r).st.phase = "On"
<1> DEFINE t == set_phase(s, "On", r.now)
           u == [t EXCEPT !.forced_off_at = None, !.standby_since = None]
<1>1. t \in Status /\ t.phase = "On"
  BY SetPhaseType DEF Phases, Read
<1> HIDE DEF t
<1>2. u \in Status /\ u.phase = "On"
  BY <1>1, TimeIsOptTime, ZenonT(20) DEF Status
<1> HIDE DEF u
<1>3. Only(u) \in Outcomes /\ Only(u).st = u
  BY <1>2, OnlyType
<1>4. online(s, r) = clear_powered_off(uncordon_if_ours(Only(u), r), r)
  BY DEF online, u, t
<1>5. uncordon_if_ours(Only(u), r) \in Outcomes /\ uncordon_if_ours(Only(u), r).st = u
  BY <1>3, NodeCallTypes, Zenon
<1> QED
  BY <1>2, <1>4, <1>5, NodeCallTypes, Zenon

\* Waiting for a power-on stays in PoweringOn or gives up in Error.
LEMMA StillPoweringOnType ==
  ASSUME NEW s \in Status, s.phase = "PoweringOn", NEW r, Read(r), NEW ok \in BOOLEAN
  PROVE  /\ still_powering_on(s, r, ok) \in Outcomes
         /\ still_powering_on(s, r, ok).st.phase \in {"PoweringOn", "Error"}
<1> DEFINE u   == [s EXCEPT !.standby_failed_at = r.now]
           out == Send(u, "ForceOff", ok, r.now)
           t   == set_phase(out.st, "Error", r.now)
           cut == [out EXCEPT !.st = t]
<1>0. r.now \in OptTime /\ r.now \in Nat
  BY TimeIsOptTime DEF Read
<1>1. u \in Status
  BY <1>0, Zenon DEF Status
<1> HIDE DEF u
<1>2. out \in Outcomes /\ out.st \in Status
  BY <1>0, <1>1, SendType, OutcomeFields DEF Actions, OffActions
<1> HIDE DEF out
<1>3. t \in Status /\ t.phase = "Error"
  <2>1. "Error" \in Phases
    BY DEF Phases
  <2> QED BY <1>0, <1>2, <2>1, SetPhaseType, Zenon
<1> HIDE DEF t
<1>4. cut \in Outcomes /\ cut.st.phase = "Error"
  BY <1>2, <1>3 DEF Outcomes
<1>5. still_powering_on(s, r, ok) \in {cut, Send(s, "PowerOn", ok, r.now), Only(s)}
  BY <1>2 DEF still_powering_on, cut, t, out, u, Outcomes
<1> HIDE DEF cut
<1> QED
  BY <1>0, <1>4, <1>5, SendType, OnlyType DEF Actions

\* A released power-on ends in Off, or in BootFailed while the power is cut.
LEMMA ReleaseType ==
  ASSUME NEW s \in Status, NEW r, Read(r), NEW ok \in BOOLEAN
  PROVE  /\ release_failed_power_on(s, r, ok) \in Outcomes
         /\ release_failed_power_on(s, r, ok).st.phase \in {"BootFailed", "Off"}
<1> DEFINE failedAt == IF s.standby_since # None THEN r.now ELSE s.standby_failed_at
           failure  == [time |-> r.now, left_on |-> FALSE]
           released == [s EXCEPT !.standby_failed_at = failedAt, !.boot_failure = failure,
                                 !.scaling_decision = None, !.standby_since = None]
           again    == [released EXCEPT !.powered_on_not_ready_since = r.now]
           acted    == act(again, "ForceOff", ok, r.now)
           forced   == [acted EXCEPT !.forced_off_at = r.now]
           cut      == set_phase(forced, "BootFailed", r.now)
           off      == set_phase(released, "Off", r.now)
           cutOut   == [Only(cut) EXCEPT !.cmd = "ForceOff", !.mark = "mark"]
<1>1. r.now \in Nat /\ r.now \in OptTime /\ None \in OptTime
  BY TimeIsOptTime DEF Read
<1>2. "BootFailed" \in Phases /\ "Off" \in Phases /\ "ForceOff" \in Actions
  BY DEF Phases, Actions, OffActions
<1>3. failedAt \in OptTime /\ failure \in BootFailures
  BY <1>1, StatusFields DEF BootFailures
<1>4. released \in Status
  <2> HIDE DEF failedAt, failure
  <2> QED BY <1>1, <1>3, ZenonT(20) DEF Status
<1> HIDE DEF released
<1>5. again \in Status
  BY <1>1, <1>4, Zenon DEF Status
<1> HIDE DEF again
<1>6. acted \in Status
  BY <1>1, <1>2, <1>5, ActType, Zenon
<1> HIDE DEF acted
<1>7. forced \in Status
  BY <1>1, <1>6, Zenon DEF Status
<1> HIDE DEF forced
<1>8. cut \in Status /\ cut.phase = "BootFailed" /\ off \in Status /\ off.phase = "Off"
  BY <1>1, <1>2, <1>4, <1>7, SetPhaseType, Zenon
<1> HIDE DEF cut, off
<1>9. cutOut \in Outcomes /\ cutOut.st = cut
  BY <1>2, <1>8 DEF Only, Outcomes, Cordons, Marks
<1>10. release_failed_power_on(s, r, ok) \in {cutOut, Only(off)}
  <2>1. released = [s EXCEPT
               !.standby_failed_at = IF s.standby_since # None THEN r.now ELSE @,
               !.boot_failure = [time |-> r.now, left_on |-> FALSE],
               !.scaling_decision = None, !.standby_since = None]
    BY DEF released, Status
  <2> QED BY <2>1, Zenon DEF release_failed_power_on, cut, off, forced, acted, again
<1> HIDE DEF cutOut
<1> QED
  BY <1>8, <1>9, <1>10, OnlyType

\* ensure_on never enters PoweringOff or Draining, and leaves the Node alone
\* while it waits for a shutdown.
LEMMA EnsureOnType ==
  ASSUME NEW s \in Status, NEW r, Read(r), NEW ok \in BOOLEAN, NEW ps
  PROVE  /\ ensure_on(s, r, ok) \in Outcomes
         /\ PhaseSafe(ensure_on(s, r, ok), s, ps, r)
<1> DEFINE t     == set_phase(s, "PoweringOn", r.now)
           up    == uncordon_if_ours(Only(t), r)
           on    == power_on(s, r, ok)
           back  == [on EXCEPT !.cancel = TRUE]
           live  == online(s, r)
           freed == release_failed_power_on(s, r, ok)
           still == still_powering_on(s, r, ok)
           res   == ensure_on(s, r, ok)
<1>1. t \in Status /\ t.phase = "PoweringOn"
  <2>1. "PoweringOn" \in Phases /\ r.now \in Nat
    BY DEF Phases, Read
  <2> QED BY <2>1, SetPhaseType, Zenon
<1> HIDE DEF t
<1>2. up \in Outcomes /\ up.st.phase = "PoweringOn"
  <2>1. Only(t) \in Outcomes /\ Only(t).st = t
    BY <1>1, OnlyType
  <2>2. up \in Outcomes /\ up.st = t
    BY <2>1, NodeCallTypes, Zenon
  <2> QED BY <1>1, <2>2
<1> HIDE DEF up
<1>3. on \in Outcomes /\ on.st.phase \in {"PoweringOn", "Error"}
  BY PowerOnType, Zenon
<1> HIDE DEF on
<1>4. back \in Outcomes /\ back.st.phase \in {"PoweringOn", "Error"}
  BY <1>3 DEF Outcomes
<1>5. /\ live \in Outcomes /\ live.st.phase = "On"
      /\ freed \in Outcomes /\ freed.st.phase \in {"BootFailed", "Off"}
      /\ s.phase = "PoweringOn" =>
           still \in Outcomes /\ still.st.phase \in {"PoweringOn", "Error"}
  BY OnlineType, ReleaseType, StillPoweringOnType, Zenon
<1>6. Only(s) \in Outcomes /\ Only(s).st = s /\ Only(s).cordon = "keep" /\ Only(s).mark = "keep"
  BY OnlyType, Zenon
<1>7. \/ res = live \/ res = freed
      \/ s.phase = "PoweringOn" /\ res = still
      \/ res = back
      \/ s.phase = "PoweringOff" /\ res = Only(s)
      \/ res = up
      \/ s.phase = "Error" /\ res = Only(s)
      \/ res = on
  BY Zenon DEF ensure_on, up, t, on
<1> HIDE DEF res, live, freed, still, back
<1>8. res \in Outcomes
  BY <1>2, <1>3, <1>4, <1>5, <1>6, <1>7
<1>9. PhaseSafe(res, s, ps, r)
  BY <1>2, <1>3, <1>4, <1>5, <1>6, <1>7 DEF PhaseSafe
<1> QED
  BY <1>8, <1>9 DEF res

-----------------------------------------------------------------------------
(* ensure_off.                                                             *)

\* off_action is a power command.
LEMMA OffActionType ==
  ASSUME NEW s, NEW s3, NEW n
  PROVE  off_action(s, s3, n) \in Actions
BY DEF off_action, Actions, OffActions

\* power_off marks the Node and enters PoweringOff.
LEMMA PowerOffType ==
  ASSUME NEW s \in Status, NEW s3, NEW r, Read(r), NEW ok \in BOOLEAN
  PROVE  /\ power_off(s, s3, r, ok) \in Outcomes
         /\ power_off(s, s3, r, ok).st.phase = "PoweringOff"
         /\ power_off(s, s3, r, ok).cordon = "keep"
         /\ power_off(s, s3, r, ok).mark = "mark"
<1> DEFINE a   == off_action(s, s3, r.now)
           out == Send(s, a, ok, r.now)
           t   == set_phase(out.st, "PoweringOff", r.now)
<1>1. r.now \in Nat /\ "PoweringOff" \in Phases /\ a \in Actions
  BY OffActionType DEF Read, Phases
<1> HIDE DEF a
<1>2. out \in Outcomes /\ out.cordon = "keep"
  BY <1>1, SendType, Zenon
<1> HIDE DEF out
<1>3. t \in Status /\ t.phase = "PoweringOff"
  BY <1>1, <1>2, OutcomeFields, SetPhaseType, Zenon
<1>4. power_off(s, s3, r, ok) = [out EXCEPT !.st = t, !.mark = "mark"]
  BY <1>2 DEF power_off, out, a, t, Outcomes
<1> HIDE DEF t
<1>5. "mark" \in Marks
  BY DEF Marks
<1>6. /\ [out EXCEPT !.st = t, !.mark = "mark"] \in Outcomes
      /\ [out EXCEPT !.st = t, !.mark = "mark"].st = t
      /\ [out EXCEPT !.st = t, !.mark = "mark"].cordon = out.cordon
      /\ [out EXCEPT !.st = t, !.mark = "mark"].mark = "mark"
  BY <1>2, <1>3, <1>5, ZenonT(20) DEF Outcomes
<1> QED
  BY <1>2, <1>3, <1>4, <1>6

\* A failed drain goes back to On, or keeps draining with its cordon.
LEMMA DrainFailedType ==
  ASSUME NEW s \in Status, NEW r, Read(r),
         r.policy = "Auto" => s.scaling_decision # None
  PROVE  /\ drain_failed(s, r) \in Outcomes
         /\ drain_failed(s, r).st.phase \in {"On", s.phase}
         /\ drain_failed(s, r).st.phase = "On" \/ drain_failed(s, r).cordon = "keep"
<1> DEFINE failed == [s EXCEPT !.drain_failed_at = r.now]
           stay   == [pool |-> s.scaling_decision.pool, target |-> "On", time |-> r.now]
           u      == [failed EXCEPT !.scaling_decision = stay]
           t      == set_phase(u, "On", r.now)
           again  == [failed EXCEPT !.phase_since = r.now]
<1>1. r.now \in Nat /\ r.now \in OptTime /\ "On" \in Phases
  BY TimeIsOptTime DEF Read, Phases
<1>2. /\ failed \in Status /\ failed.phase = s.phase
      /\ failed.scaling_decision = s.scaling_decision
  BY <1>1, Zenon DEF Status
<1> HIDE DEF failed
<1>3. CASE r.policy = "Auto"
  <2>1. stay \in Decisions
    BY <1>1, <1>3, StatusFields DEF Decisions, Targets
  <2>2. u \in Status
    <3> HIDE DEF stay
    <3> QED BY <1>2, <2>1, Zenon DEF Status
  <2>3. drain_failed(s, r) = uncordon_if_ours(Only(t), r)
    BY <1>2, <1>3 DEF drain_failed, failed, Status
  <2> HIDE DEF u
  <2>4. t \in Status /\ t.phase = "On"
    BY <1>1, <2>2, SetPhaseType, Zenon
  <2> HIDE DEF t
  <2>5. Only(t) \in Outcomes /\ Only(t).st = t
    BY <2>4, OnlyType
  <2>6. uncordon_if_ours(Only(t), r) \in Outcomes /\ uncordon_if_ours(Only(t), r).st = t
    BY <2>5, NodeCallTypes, Zenon
  <2> QED BY <2>3, <2>4, <2>6
<1>4. CASE r.policy # "Auto"
  <2>1. again \in Status /\ again.phase = s.phase
    BY <1>1, <1>2, Zenon DEF Status
  <2>2. drain_failed(s, r) = Only(again)
    BY <1>4 DEF drain_failed, failed
  <2> HIDE DEF again
  <2> QED BY <2>1, <2>2, OnlyType
<1> QED
  BY <1>3, <1>4

\* A drain powers off only over an empty Node, unless it is forced.
LEMMA DrainType ==
  ASSUME NEW s \in Status, s.phase = "Draining", NEW s3, NEW ps, NEW r, Read(r),
         NEW ok \in BOOLEAN, r.policy = "Auto" => s.scaling_decision # None
  PROVE  /\ drain(s, s3, ps, r, ok) \in Outcomes
         /\ PhaseSafe(drain(s, s3, ps, r, ok), s, ps, r)
<1> DEFINE off == power_off(s, s3, r, ok)
           df  == drain_failed(s, r)
           Ev(out) == [out EXCEPT !.evict = TRUE]
           res == drain(s, s3, ps, r, ok)
<1>1. /\ off \in Outcomes /\ off.st.phase = "PoweringOff"
      /\ off.cordon = "keep" /\ off.mark = "mark"
  BY PowerOffType, Zenon
<1>2. /\ df \in Outcomes /\ df.st.phase \in {"On", "Draining"}
      /\ df.st.phase = "On" \/ df.cordon = "keep"
  BY DrainFailedType
<1>3. Only(s) \in Outcomes /\ Only(s).st = s /\ Only(s).cordon = "keep"
  BY OnlyType
<1>4. \/ res = Ev(off) /\ (ps = {} \/ ForceAfterDrainTimeout)
      \/ res = Ev(df)
      \/ res = Ev(Only(s))
  BY DEF drain
<1> HIDE DEF off, df, res
<1>5. \A out \in Outcomes : /\ Ev(out) \in Outcomes /\ Ev(out).st = out.st
                             /\ Ev(out).cordon = out.cordon /\ Ev(out).mark = out.mark
  BY DEF Outcomes
<1> HIDE DEF Ev
<1>6. res \in Outcomes /\ PhaseSafe(res, s, ps, r)
  BY <1>1, <1>2, <1>3, <1>4, <1>5 DEF PhaseSafe
<1> QED
  BY <1>6 DEF res

\* Waiting for a power-off changes neither the phase nor the Node.
LEMMA StillPoweringOffType ==
  ASSUME NEW s \in Status, NEW s3, NEW r, Read(r), NEW ok \in BOOLEAN
  PROVE  /\ still_powering_off(s, s3, r, ok) \in Outcomes
         /\ still_powering_off(s, s3, r, ok).st.phase = s.phase
         /\ still_powering_off(s, s3, r, ok).cordon = "keep"
         /\ still_powering_off(s, s3, r, ok).mark = "keep"
<1> DEFINE res    == still_powering_off(s, s3, r, ok)
           u      == [s EXCEPT !.standby_failed_at = r.now]
           down   == Send(u, "PowerOff", ok, r.now)
           downSt == [down.st EXCEPT !.phase_since = r.now]
           cut    == Send(s, "ForceOff", ok, r.now)
           cutSt  == [cut.st EXCEPT !.forced_off_at = r.now, !.standby_since = None]
           a      == off_action(s, s3, r.now)
           Kept(out) == /\ out \in Outcomes /\ out.st.phase = s.phase
                        /\ out.cordon = "keep" /\ out.mark = "keep"
<1>1. /\ r.now \in Nat /\ r.now \in OptTime /\ None \in OptTime
      /\ "PowerOff" \in Actions /\ "ForceOff" \in Actions /\ a \in Actions
  BY TimeIsOptTime, OffActionType DEF Read, Actions, OffActions
<1>2. u \in Status /\ u.phase = s.phase
  BY <1>1, Zenon DEF Status
<1>3. \/ res = [down EXCEPT !.st.phase_since = r.now]
      \/ res = [cut EXCEPT !.st.forced_off_at = r.now, !.st.standby_since = None]
      \/ res = Send(s, a, ok, r.now)
      \/ res = Only(s)
  BY Zenon DEF still_powering_off
<1> HIDE DEF u, a, res
<1>4. Kept(down) /\ Kept(cut) /\ Kept(Send(s, a, ok, r.now)) /\ Kept(Only(s))
  BY <1>1, <1>2, SendType, OnlyType
<1> HIDE DEF down, cut
<1>5. down.st \in Status /\ cut.st \in Status
  BY <1>4, OutcomeFields
<1>6. downSt \in Status /\ downSt.phase = s.phase
  BY <1>1, <1>4, <1>5, Zenon DEF Status
<1>7. cutSt \in Status /\ cutSt.phase = s.phase
  BY <1>1, <1>4, <1>5, ZenonT(20) DEF Status
<1>8. [down EXCEPT !.st.phase_since = r.now] = [down EXCEPT !.st = downSt]
  BY <1>4, <1>5 DEF Outcomes
<1>9. [cut EXCEPT !.st.forced_off_at = r.now, !.st.standby_since = None] = [cut EXCEPT !.st = cutSt]
  BY <1>4, <1>5 DEF Outcomes
<1> HIDE DEF downSt, cutSt
<1>10. Kept([down EXCEPT !.st = downSt]) /\ Kept([cut EXCEPT !.st = cutSt])
  BY <1>4, <1>6, <1>7 DEF Outcomes
<1> QED
  BY <1>3, <1>4, <1>8, <1>9, <1>10 DEF res

\* Noticing that a suspended machine woke changes neither phase nor decision.
LEMMA WokeType ==
  ASSUME NEW s \in Status, NEW n \in Nat
  PROVE  /\ woke_by_itself(s, n) \in Status
         /\ woke_by_itself(s, n).phase = s.phase
         /\ woke_by_itself(s, n).scaling_decision = s.scaling_decision
<1>1. n \in OptTime /\ None \in OptTime
  BY TimeIsOptTime
<1> QED
  BY <1>1, ZenonT(20) DEF woke_by_itself, Status

\* ensure_off enters Draining with a cordon and PoweringOff from a drain.
LEMMA EnsureOffType ==
  ASSUME NEW s0 \in Status, NEW s3, NEW ps, NEW r, Read(r), NEW ok \in BOOLEAN,
         r.policy = "Auto" => s0.scaling_decision # None
  PROVE  /\ ensure_off(s0, s3, ps, r, ok) \in Outcomes
         /\ PhaseSafe(ensure_off(s0, s3, ps, r, ok), s0, ps, r)
<1> DEFINE s     == woke_by_itself(s0, r.now)
           p     == IF s.standby_since # None THEN "Standby" ELSE "Off"
           t     == set_phase(s, p, r.now)
           quiet == [t EXCEPT !.forced_off_at = None]
           d     == set_phase(s, "Draining", r.now)
           start == cordon(Only(d), r)
           still == still_powering_off(s, s3, r, ok)
           drn   == drain(s, s3, ps, r, ok)
           res   == ensure_off(s0, s3, ps, r, ok)
<1>1. r.now \in Nat /\ None \in OptTime /\ p \in Phases /\ "Draining" \in Phases
  BY TimeIsOptTime DEF Read, Phases
<1>2. s \in Status /\ s.phase = s0.phase /\ s.scaling_decision = s0.scaling_decision
  BY <1>1, WokeType
<1>3. p \in {"Standby", "Off"}
  OBVIOUS
<1>4. \/ res = Only(quiet)
      \/ s.phase = "PoweringOff" /\ res = still
      \/ s.phase = "Draining" /\ res = drn
      \/ res = start
  BY Zenon DEF ensure_off
<1> HIDE DEF s, p, res
<1>5. t \in Status /\ t.phase = p /\ d \in Status /\ d.phase = "Draining"
  BY <1>1, <1>2, SetPhaseType, Zenon
<1> HIDE DEF t, d
<1>6. quiet \in Status /\ quiet.phase = p
  BY <1>1, <1>5, Zenon DEF Status
<1> HIDE DEF quiet
<1>7. /\ Only(quiet) \in Outcomes /\ Only(quiet).st = quiet
      /\ Only(d) \in Outcomes /\ Only(d).st = d /\ Only(d).cordon = "keep"
  BY <1>5, <1>6, OnlyType, Zenon
<1>8. /\ start \in Outcomes /\ start.st = d
      /\ start.cordon = IF r.node.cordoned THEN "keep" ELSE "cordon"
  BY <1>7, NodeCallTypes, Zenon
<1>9. still \in Outcomes /\ still.st.phase = s.phase /\ still.cordon = "keep" /\ still.mark = "keep"
  BY <1>2, StillPoweringOffType, Zenon
<1>10. s.phase = "Draining" => drn \in Outcomes /\ PhaseSafe(drn, s, ps, r)
  BY <1>2, DrainType, Zenon
<1> HIDE DEF start, still, drn
<1>11. res \in Outcomes
  BY <1>4, <1>7, <1>8, <1>9, <1>10
<1>12. PhaseSafe(res, s0, ps, r)
  <2>1. CASE res = Only(quiet)
    BY <2>1, <1>3, <1>6, <1>7 DEF PhaseSafe
  <2>2. CASE s.phase = "PoweringOff" /\ res = still
    BY <2>2, <1>2, <1>9 DEF PhaseSafe
  <2>3. CASE s.phase = "Draining" /\ res = drn
    BY <2>3, <1>2, <1>10 DEF PhaseSafe
  <2>4. CASE res = start
    BY <2>4, <1>5, <1>8 DEF PhaseSafe
  <2> QED BY <1>4, <2>1, <2>2, <2>3, <2>4
<1> QED
  BY <1>11, <1>12 DEF res

-----------------------------------------------------------------------------
(* Boot failures, and a machine without a desired state.                   *)

\* A boot failure ends in BootFailed.
LEMMA BootFailedType ==
  ASSUME NEW s \in Status, NEW r, Read(r), NEW ok \in BOOLEAN
  PROVE  /\ boot_failed(s, r, ok) \in Outcomes
         /\ boot_failed(s, r, ok).st.phase = "BootFailed"
<1> DEFINE leave  == boot_failure_leaves_on(s, r.policy)
           note   == IF s.boot_failure = None THEN None ELSE [s.boot_failure EXCEPT !.left_on = leave]
           u      == [s EXCEPT !.boot_failure = note, !.scaling_decision = None]
           failed == set_phase(u, "BootFailed", r.now)
           sent   == Send(failed, "PowerOff", ok, r.now)
           out    == [sent EXCEPT !.mark = "mark"]
<1>1. /\ r.now \in Nat /\ "BootFailed" \in Phases
      /\ "PowerOff" \in Actions /\ "mark" \in Marks
  BY DEF Read, Phases, Actions, OffActions, Marks
<1>2. leave \in BOOLEAN
  BY Zenon DEF boot_failure_leaves_on
<1>3. note \in BootFailures \cup {None}
  <2> HIDE DEF leave
  <2> QED BY <1>2, StatusFields DEF BootFailures
<1>4. boot_failed(s, r, ok) = IF leave THEN Only(failed) ELSE out
  BY DEF boot_failed, Status
<1> HIDE DEF note
<1>5. u \in Status
  BY <1>3, ZenonT(20) DEF Status
<1> HIDE DEF u, leave
<1>6. failed \in Status /\ failed.phase = "BootFailed"
  BY <1>1, <1>5, SetPhaseType, Zenon
<1> HIDE DEF failed
<1>7. sent \in Outcomes /\ sent.st.phase = "BootFailed"
  BY <1>1, <1>6, SendType, Zenon
<1> HIDE DEF sent
<1>8. out \in Outcomes /\ out.st.phase = "BootFailed"
  BY <1>1, <1>7 DEF Outcomes
<1> HIDE DEF out
<1>9. Only(failed) \in Outcomes /\ Only(failed).st.phase = "BootFailed"
  BY <1>6, OnlyType
<1> QED
  BY <1>4, <1>8, <1>9

\* A boot that stays failed stays in BootFailed.
LEMMA BootStillFailedType ==
  ASSUME NEW s \in Status, NEW r, Read(r), NEW ok \in BOOLEAN
  PROVE  /\ boot_still_failed(s, r, ok) \in Outcomes
         /\ boot_still_failed(s, r, ok).st.phase = "BootFailed"
<1> DEFINE failed == set_phase(s, "BootFailed", r.now)
           sent   == Send(failed, "ForceOff", ok, r.now)
           cutSt  == [sent.st EXCEPT !.forced_off_at = r.now]
           res    == boot_still_failed(s, r, ok)
<1>1. /\ r.now \in Nat /\ r.now \in OptTime /\ "BootFailed" \in Phases
      /\ "ForceOff" \in Actions
  BY TimeIsOptTime DEF Read, Phases, Actions, OffActions
<1>2. failed \in Status /\ failed.phase = "BootFailed"
  BY <1>1, SetPhaseType, Zenon
<1>3. \/ res = [sent EXCEPT !.st.forced_off_at = r.now]
      \/ res = Only(failed)
  BY Zenon DEF boot_still_failed
<1> HIDE DEF failed, res
<1>4. sent \in Outcomes /\ sent.st.phase = "BootFailed"
  BY <1>1, <1>2, SendType, Zenon
<1> HIDE DEF sent
<1>5. sent.st \in Status
  BY <1>4, OutcomeFields
<1>6. cutSt \in Status /\ cutSt.phase = "BootFailed"
  BY <1>1, <1>4, <1>5, Zenon DEF Status
<1>7. [sent EXCEPT !.st.forced_off_at = r.now] = [sent EXCEPT !.st = cutSt]
  BY <1>4 DEF Outcomes
<1> HIDE DEF cutSt
<1>8. [sent EXCEPT !.st = cutSt] \in Outcomes /\ [sent EXCEPT !.st = cutSt].st = cutSt
  BY <1>4, <1>6 DEF Outcomes
<1>9. Only(failed) \in Outcomes /\ Only(failed).st.phase = "BootFailed"
  BY <1>2, OnlyType
<1> QED
  BY <1>3, <1>6, <1>7, <1>8, <1>9 DEF res

\* observe keeps a machine that falls asleep in its phase.
LEMMA ObserveType ==
  ASSUME NEW s \in Status, NEW n \in Nat
  PROVE  /\ observe(s, n) \in Status
         /\ \/ observe(s, n).phase = s.phase /\ s.phase \in {"PoweringOff", "Standby"}
            \/ observe(s, n).phase \in {"On", "PoweringOn", "Off", "Unknown"}
<1> DEFINE p == CASE s.power_state = "On"  -> IF s.node_ready THEN "On" ELSE "PoweringOn"
                  [] s.power_state = "Off" -> "Off"
                  [] OTHER                 -> "Unknown"
<1>1. p \in {"On", "PoweringOn", "Off", "Unknown"} /\ p \in Phases
  BY DEF Phases
<1>2. observe(s, n) = IF in_standby(s) THEN s ELSE set_phase(s, p, n)
  BY DEF observe
<1> HIDE DEF p
<1>3. set_phase(s, p, n) \in Status /\ set_phase(s, p, n).phase = p
  BY <1>1, SetPhaseType, Zenon
<1> QED
  BY <1>1, <1>2, <1>3 DEF in_standby

-----------------------------------------------------------------------------
(* The reconcile as a whole.                                               *)

\* Gates 1 and 2 leave the phase alone.
LEMMA ResolvedType ==
  ASSUME NEW r, Read(r)
  PROVE  resolved(r) \in Status /\ resolved(r).phase = r.old.phase
<1> DEFINE ready == r.node.exists /\ r.node.ready
           d     == r.old.scaling_decision
           kept  == IF d # None /\ d.pool \notin r.member THEN None ELSE d
<1>1. r.old \in Status /\ ready \in BOOLEAN /\ r.member \in SUBSET Pools
  BY Zenon DEF Read
<1>2. kept \in Decisions \cup {None}
  BY <1>1, StatusFields
<1>3. resolved(r) = [r.old EXCEPT !.node_ready = ready, !.pools = r.member,
                                  !.scaling_decision = kept]
  BY <1>1 DEF resolved, Status
<1> HIDE DEF ready, kept
<1> QED
  BY <1>1, <1>2, <1>3, ZenonT(20) DEF Status

\* Gate 4 leaves the phase alone.
LEMMA SensedType ==
  ASSUME NEW r, Read(r), NEW p \in PowerStates, NEW fresh \in BOOLEAN
  PROVE  sensed(r, p, fresh) \in Status /\ sensed(r, p, fresh).phase = r.old.phase
<1> DEFINE s == [resolved(r) EXCEPT !.power_state = p]
           c == power_state_consistent(s, fresh, r.now)
<1>1. resolved(r) \in Status /\ resolved(r).phase = r.old.phase
  BY ResolvedType
<1>2. s \in Status /\ s.phase = r.old.phase
  BY <1>1, Zenon DEF Status
<1>3. c \in BOOLEAN
  BY Zenon DEF power_state_consistent
<1>4. sensed(r, p, fresh) = [s EXCEPT !.consistent = c]
  BY DEF sensed
<1> HIDE DEF s, c
<1> QED
  BY <1>2, <1>3, <1>4, Zenon DEF Status

\* A machine seen off keeps its phase.
LEMMA SeenOffType ==
  ASSUME NEW r, NEW s \in Status
  PROVE  seen_off(r, s) \in Status /\ seen_off(r, s).phase = s.phase
<1>1. None \in OptTime
  BY TimeIsOptTime
<1> QED
  BY <1>1, ZenonT(20) DEF seen_off, Status

\* Every reconcile is well typed, and safe in how it enters and keeps Draining
\* and PoweringOff.
LEMMA HandleType ==
  ASSUME NEW r, Read(r), NEW p \in PowerStates, NEW fresh \in BOOLEAN,
         NEW s3, NEW ps, NEW ok \in BOOLEAN
  PROVE  /\ handle(r, p, fresh, s3, ps, ok) \in Outcomes
         /\ PhaseSafe(handle(r, p, fresh, s3, ps, ok), r.old, ps, r)
<1> DEFINE s0      == sensed(r, p, fresh)
           s1      == seen_off(r, s0)
           tracked == track_boot(s1, r.now)
           s       == manual_change(tracked.st, change_in(r, s0), r.now)
           target  == managed_target(r.policy, s)
           obs     == Only(observe(s, r.now))
           failed  == boot_failed(s, r, ok)
           still   == boot_still_failed(s, r, ok)
           on      == ensure_on(s, r, ok)
           off     == ensure_off(s, s3, ps, r, ok)
           res     == handle(r, p, fresh, s3, ps, ok)
<1>1. r.now \in Nat
  BY DEF Read
<1>2. s0 \in Status /\ s0.phase = r.old.phase
  BY SensedType
<1>3. s1 \in Status /\ s1.phase = r.old.phase
  <2> HIDE DEF s0
  <2> QED BY <1>2, SeenOffType
<1>4. tracked.st \in Status /\ tracked.st.phase = r.old.phase
  <2> HIDE DEF s1
  <2> QED BY <1>1, <1>3, TrackBootType
<1>5. s \in Status /\ s.phase = r.old.phase
  <2> HIDE DEF tracked, s0
  <2> QED BY <1>1, <1>4, ManualChangeType
<1>6. \/ res = failed \/ res = still \/ res = obs \/ res = on
      \/ target # None /\ target # "On" /\ res = off
  BY Zenon DEF handle
<1>7. (target # None /\ r.policy = "Auto") => s.scaling_decision # None
  <2> HIDE DEF s
  <2> QED BY DEF managed_target, desired_target
<1> HIDE DEF s, target, res
<1>8. /\ failed \in Outcomes /\ failed.st.phase = "BootFailed"
      /\ still \in Outcomes /\ still.st.phase = "BootFailed"
  BY <1>5, BootFailedType, BootStillFailedType, Zenon
<1>9. obs \in Outcomes /\ PhaseSafe(obs, s, ps, r)
  <2>1. /\ observe(s, r.now) \in Status
        /\ \/ observe(s, r.now).phase = s.phase /\ s.phase \in {"PoweringOff", "Standby"}
           \/ observe(s, r.now).phase \in {"On", "PoweringOn", "Off", "Unknown"}
    BY <1>1, <1>5, ObserveType, Zenon
  <2>2. /\ obs \in Outcomes /\ obs.st = observe(s, r.now)
        /\ obs.cordon = "keep" /\ obs.mark = "keep"
    BY <2>1, OnlyType, Zenon
  <2> HIDE DEF obs
  <2> QED BY <2>1, <2>2 DEF PhaseSafe
<1>10. on \in Outcomes /\ PhaseSafe(on, s, ps, r)
  BY <1>5, EnsureOnType, Zenon
<1>11. (target # None) => (off \in Outcomes /\ PhaseSafe(off, s, ps, r))
  BY <1>5, <1>7, EnsureOffType, Zenon
<1> HIDE DEF failed, still, obs, on, off
<1>12. res \in Outcomes
  BY <1>6, <1>8, <1>9, <1>10, <1>11
<1>13. PhaseSafe(res, s, ps, r)
  <2>1. CASE res \in {failed, still}
    BY <2>1, <1>8 DEF PhaseSafe
  <2>2. CASE res \notin {failed, still}
    BY <2>2, <1>6, <1>9, <1>10, <1>11
  <2> QED BY <2>1, <2>2
<1>14. PhaseSafe(res, r.old, ps, r)
  BY <1>5, <1>13 DEF PhaseSafe
<1> QED
  BY <1>12, <1>14 DEF res

\* A status patch of changed fields keeps the status well typed.
LEMMA MergeType ==
  ASSUME NEW live \in Status, NEW old \in Status, NEW new \in Status
  PROVE  /\ merge_diff(live, old, new) \in Status
         /\ merge_diff(live, old, new).phase =
              IF new.phase # old.phase THEN new.phase ELSE live.phase
BY ZenonT(30) DEF merge_diff, Status

-----------------------------------------------------------------------------
(* What the handlers keep.                                                 *)

\* t says what s says of the power, the boots and the changes by hand, and its
\* phase is that of s or was entered at time n.
Keeps(s, t, n) ==
  /\ t.power_state = s.power_state
  /\ t.boot_failure = s.boot_failure
  /\ t.powered_on_not_ready_since = s.powered_on_not_ready_since
  /\ t.manual_power_on = s.manual_power_on
  /\ t.phase_since = n \/ (t.phase = s.phase /\ t.phase_since = s.phase_since)

\* A status handled twice at one time is kept over both.
LEMMA KeepsChain ==
  ASSUME NEW s, NEW t, NEW u, NEW n, Keeps(s, t, n), Keeps(t, u, n)
  PROVE  Keeps(s, u, n)
BY DEF Keeps

\* Changes of the other fields keep a status.
LEMMA FieldsKeep ==
  ASSUME NEW s \in Status, NEW x, NEW y, NEW n
  PROVE  /\ Keeps(s, s, n)
         /\ Keeps(s, [s EXCEPT !.standby_failed_at = x], n)
         /\ Keeps(s, [s EXCEPT !.forced_off_at = x], n)
         /\ Keeps(s, [s EXCEPT !.drain_failed_at = x], n)
         /\ Keeps(s, [s EXCEPT !.scaling_decision = x], n)
         /\ Keeps(s, [s EXCEPT !.phase_since = n], n)
         /\ Keeps(s, [s EXCEPT !.forced_off_at = x, !.standby_since = y], n)
         /\ Keeps(s, [s EXCEPT !.standby_failed_at = x, !.standby_since = y], n)
BY DEF Keeps, Status

\* Entering a phase keeps a status.
LEMMA SetPhaseKeeps ==
  ASSUME NEW s \in Status, NEW p, NEW n
  PROVE  Keeps(s, set_phase(s, p, n), n)
BY DEF set_phase, Keeps, Status

\* Recording a command keeps a status.
LEMMA ActKeeps ==
  ASSUME NEW s \in Status, NEW a, NEW ok, NEW n
  PROVE  Keeps(s, act(s, a, ok, n), n)
<1> DEFINE done  == [action |-> a, time |-> n, succeeded |-> ok]
           since == CASE a = "Standby" -> n [] a = "PowerOff" -> None
                      [] OTHER -> s.standby_since
<1>1. act(s, a, ok, n) = [s EXCEPT !.last_power_action = done, !.standby_since = since]
  BY DEF act, Status
<1> HIDE DEF done, since
<1> QED BY <1>1 DEF Keeps, Status

\* Sending a command keeps a status.
LEMMA SendKeeps ==
  ASSUME NEW s \in Status, NEW a \in Actions, NEW ok \in BOOLEAN, NEW n \in Nat
  PROVE  /\ Send(s, a, ok, n).st = act(s, a, ok, n)
         /\ Send(s, a, ok, n).cmd = a
         /\ Keeps(s, Send(s, a, ok, n).st, n)
         /\ Send(s, a, ok, n) \in Outcomes
         /\ Send(s, a, ok, n).st \in Status
<1>1. Send(s, a, ok, n).st = act(s, a, ok, n) /\ Send(s, a, ok, n).cmd = a
  BY DEF Send, Only
<1>2. Send(s, a, ok, n) \in Outcomes
  BY SendType
<1> QED BY <1>1, <1>2, ActKeeps, ActType

\* Storing a status sends no command.
LEMMA OnlyFields ==
  ASSUME NEW t
  PROVE  Only(t).st = t /\ Only(t).cmd = None
BY DEF Only

\* Nor do the calls on the Node.
LEMMA NodeCallsKeep ==
  ASSUME NEW out \in Outcomes, NEW r
  PROVE  /\ cordon(out, r).cmd = out.cmd
         /\ uncordon_if_ours(out, r).cmd = out.cmd
         /\ clear_powered_off(out, r).cmd = out.cmd
BY DEF cordon, uncordon_if_ours, clear_powered_off, Outcomes

-----------------------------------------------------------------------------
(* ensure_on.                                                              *)

\* A power-on keeps the status it starts from.
LEMMA PowerOnKeeps ==
  ASSUME NEW s \in Status, NEW r, Read(r), NEW ok \in BOOLEAN
  PROVE  Keeps(s, power_on(s, r, ok).st, r.now)
<1> DEFINE out == Send(s, "PowerOn", ok, r.now)
           t   == set_phase(out.st, IF ok THEN "PoweringOn" ELSE "Error", r.now)
<1>1. "PowerOn" \in Actions /\ r.now \in Nat
  BY DEF Actions, Read
<1>2. out \in Outcomes /\ out.st \in Status /\ Keeps(s, out.st, r.now)
  BY <1>1, SendKeeps, Zenon
<1>3. power_on(s, r, ok) = [out EXCEPT !.st = t]
  BY <1>2 DEF power_on, Outcomes
<1> HIDE DEF out
<1>4. Keeps(s, t, r.now)
  BY <1>2, SetPhaseKeeps, KeepsChain, Zenon
<1> HIDE DEF t
<1>5. [out EXCEPT !.st = t].st = t
  BY <1>2 DEF Outcomes
<1> QED BY <1>3, <1>4, <1>5

\* A Ready machine keeps its status but for the phase, and is sent nothing.
LEMMA OnlineKeeps ==
  ASSUME NEW s \in Status, NEW r, Read(r)
  PROVE  Keeps(s, online(s, r).st, r.now) /\ online(s, r).cmd = None
<1> DEFINE t == set_phase(s, "On", r.now)
           u == [t EXCEPT !.forced_off_at = None, !.standby_since = None]
<1>0. r.now \in Nat /\ "On" \in Phases
  BY DEF Read, Phases
<1>1. t \in Status /\ Keeps(s, t, r.now)
  BY <1>0, SetPhaseType, SetPhaseKeeps, Zenon
<1>2. online(s, r) = clear_powered_off(uncordon_if_ours(Only(u), r), r)
  BY DEF online
<1> HIDE DEF t
<1>3. u \in Status
  BY <1>1, TimeIsOptTime, ZenonT(20) DEF Status
<1>4. Keeps(s, u, r.now)
  BY <1>1, FieldsKeep, KeepsChain, Zenon
<1> HIDE DEF u
<1> DEFINE a == uncordon_if_ours(Only(u), r)
<1>5. Only(u) \in Outcomes /\ Only(u).st = u /\ Only(u).cmd = None
  BY <1>3, OnlyType, OnlyFields, Zenon
<1>6. a \in Outcomes /\ a.st = u /\ a.cmd = None
  BY <1>5, NodeCallTypes, NodeCallsKeep, Zenon
<1> HIDE DEF a
<1>7. clear_powered_off(a, r).st = u /\ clear_powered_off(a, r).cmd = None
  BY <1>6, NodeCallTypes, NodeCallsKeep, Zenon
<1> QED BY <1>2, <1>4, <1>7 DEF a

\* Waiting for a power-on keeps the status.
LEMMA StillPoweringOnKeeps ==
  ASSUME NEW s \in Status, NEW r, Read(r), NEW ok \in BOOLEAN
  PROVE  Keeps(s, still_powering_on(s, r, ok).st, r.now)
<1> DEFINE u   == [s EXCEPT !.standby_failed_at = r.now]
           out == Send(u, "ForceOff", ok, r.now)
           t   == set_phase(out.st, "Error", r.now)
           cut == [out EXCEPT !.st = set_phase(@, "Error", r.now)]
           on  == Send(s, "PowerOn", ok, r.now)
<1>9. still_powering_on(s, r, ok) \in {cut, on, Only(s)}
  BY Zenon DEF still_powering_on
<1>0. /\ r.now \in OptTime /\ r.now \in Nat
      /\ "ForceOff" \in Actions /\ "PowerOn" \in Actions
  BY TimeIsOptTime DEF Read, Actions, OffActions
<1>1. u \in Status /\ Keeps(s, u, r.now)
  <2>1. u \in Status
    BY <1>0, Zenon DEF Status
  <2> QED BY <2>1, FieldsKeep, Zenon
<1> HIDE DEF u
<1>2. out \in Outcomes /\ out.st \in Status /\ Keeps(s, out.st, r.now)
  <2>1. out \in Outcomes /\ out.st \in Status /\ Keeps(u, out.st, r.now)
    BY <1>0, <1>1, SendKeeps, Zenon
  <2> QED BY <1>1, <2>1, KeepsChain, Zenon
<1>3. Keeps(s, on.st, r.now)
  BY <1>0, SendKeeps, Zenon
<1> HIDE DEF out, on
<1>5. Keeps(s, t, r.now)
  BY <1>2, SetPhaseKeeps, KeepsChain, Zenon
<1> HIDE DEF t
<1>6. cut.st = t
  BY <1>2 DEF t, Outcomes
<1>7. Only(s).st = s /\ Keeps(s, s, r.now)
  BY OnlyFields, FieldsKeep
<1> HIDE DEF cut
<1> QED BY <1>9, <1>3, <1>5, <1>6, <1>7

\* How a handler leaves the status s it starts from: kept, in no boot failure,
\* and Off only when the power is off ...
Regular(t, s, n) ==
  /\ Keeps(s, t, n)
  /\ t.phase # "BootFailed"
  /\ t.phase = "Off" => s.power_state = "Off"

\* ... or, when a power-on is given up, with a boot failure recorded just now.
Released(t, s, n) ==
  /\ t.boot_failure = [time |-> n, left_on |-> FALSE]
  /\ t.manual_power_on = s.manual_power_on
  /\ t.phase \in {"BootFailed", "Off"}
  /\ t.phase = "Off" => /\ s.power_state # "On"
                        /\ t.powered_on_not_ready_since = s.powered_on_not_ready_since

\* Giving up a power-on records a failure of this moment.
LEMMA ReleaseKeeps ==
  ASSUME NEW s \in Status, NEW r, Read(r), NEW ok \in BOOLEAN
  PROVE  Released(release_failed_power_on(s, r, ok).st, s, r.now)
<1> DEFINE failedAt == IF s.standby_since # None THEN r.now ELSE s.standby_failed_at
           failure  == [time |-> r.now, left_on |-> FALSE]
           released == [s EXCEPT !.standby_failed_at = failedAt, !.boot_failure = failure,
                                 !.scaling_decision = None, !.standby_since = None]
           again    == [released EXCEPT !.powered_on_not_ready_since = r.now]
           acted    == act(again, "ForceOff", ok, r.now)
           forced   == [acted EXCEPT !.forced_off_at = r.now]
           cut      == set_phase(forced, "BootFailed", r.now)
           off      == set_phase(released, "Off", r.now)
           cutOut   == [Only(cut) EXCEPT !.cmd = "ForceOff", !.mark = "mark"]
           Rel(t)   == t.boot_failure = failure /\ t.manual_power_on = s.manual_power_on
<1>1. release_failed_power_on(s, r, ok) = IF s.power_state = "On" THEN cutOut ELSE Only(off)
  <2>1. released = [s EXCEPT
               !.standby_failed_at = IF s.standby_since # None THEN r.now ELSE @,
               !.boot_failure = [time |-> r.now, left_on |-> FALSE],
               !.scaling_decision = None, !.standby_since = None]
    BY DEF released, Status
  <2> HIDE DEF released
  <2> QED BY <2>1, Zenon DEF release_failed_power_on
<1>2. /\ r.now \in Nat /\ r.now \in OptTime /\ None \in OptTime
      /\ "BootFailed" \in Phases /\ "Off" \in Phases /\ "ForceOff" \in Actions
  BY TimeIsOptTime DEF Read, Phases, Actions, OffActions
<1>3. failedAt \in OptTime /\ failure \in BootFailures
  BY <1>2, StatusFields DEF BootFailures
<1> HIDE DEF failedAt, failure
<1>4. /\ released \in Status /\ Rel(released)
      /\ released.powered_on_not_ready_since = s.powered_on_not_ready_since
  <2>1. released \in Status
    BY <1>2, <1>3, ZenonT(20) DEF Status
  <2> QED BY <2>1 DEF Status
<1> HIDE DEF released
<1>5. again \in Status /\ Rel(again)
  <2>1. again \in Status
    BY <1>2, <1>4, Zenon DEF Status
  <2> QED BY <1>4, <2>1 DEF Status
<1> HIDE DEF again
<1>6. acted \in Status /\ Rel(acted)
  <2>1. acted \in Status /\ Keeps(again, acted, r.now)
    BY <1>2, <1>5, ActType, ActKeeps, Zenon
  <2> QED BY <1>5, <2>1 DEF Keeps
<1> HIDE DEF acted
<1>7. forced \in Status /\ Rel(forced)
  <2>1. forced \in Status
    BY <1>2, <1>6, Zenon DEF Status
  <2> QED BY <1>6, <2>1 DEF Status
<1> HIDE DEF forced
<1>8. Rel(cut) /\ cut.phase = "BootFailed"
  <2>1. Keeps(forced, cut, r.now) /\ cut.phase = "BootFailed"
    BY <1>2, <1>7, SetPhaseType, SetPhaseKeeps, Zenon
  <2> QED BY <1>7, <2>1 DEF Keeps
<1>9. /\ Rel(off) /\ off.phase = "Off"
      /\ off.powered_on_not_ready_since = s.powered_on_not_ready_since
  <2>1. Keeps(released, off, r.now) /\ off.phase = "Off"
    BY <1>2, <1>4, SetPhaseType, SetPhaseKeeps, Zenon
  <2> QED BY <1>4, <2>1 DEF Keeps
<1> HIDE DEF cut, off
<1>10. cutOut.st = cut /\ Only(off).st = off
  BY DEF Only
<1> HIDE DEF cutOut
<1> QED BY <1>1, <1>8, <1>9, <1>10 DEF Released, failure

\* ensure_on keeps the status or gives up a power-on that took too long.
LEMMA EnsureOnKeeps ==
  ASSUME NEW s \in Status, NEW r, Read(r), NEW ok \in BOOLEAN
  PROVE  \/ Regular(ensure_on(s, r, ok).st, s, r.now)
         \/ power_on_expired(s, r.now) /\ Released(ensure_on(s, r, ok).st, s, r.now)
<1> DEFINE t     == set_phase(s, "PoweringOn", r.now)
           up    == uncordon_if_ours(Only(t), r)
           on    == power_on(s, r, ok)
           back  == [on EXCEPT !.cancel = TRUE]
           live  == online(s, r)
           freed == release_failed_power_on(s, r, ok)
           still == still_powering_on(s, r, ok)
           res   == ensure_on(s, r, ok)
<1>1. \/ res = live
      \/ power_on_expired(s, r.now) /\ res = freed
      \/ s.phase = "PoweringOn" /\ res = still
      \/ res = back
      \/ s.phase = "PoweringOff" /\ res = Only(s)
      \/ res = up
      \/ s.phase = "Error" /\ res = Only(s)
      \/ res = on
  BY Zenon DEF ensure_on, up, t, on
<1>2. "PoweringOn" \in Phases /\ r.now \in Nat
  BY DEF Phases, Read
<1>3. t \in Status /\ t.phase = "PoweringOn" /\ Keeps(s, t, r.now)
  BY <1>2, SetPhaseType, SetPhaseKeeps, Zenon
<1> HIDE DEF t
<1>4. Regular(up.st, s, r.now)
  <2>1. Only(t) \in Outcomes /\ Only(t).st = t
    BY <1>3, OnlyType
  <2>2. up.st = t
    BY <2>1, NodeCallTypes, Zenon
  <2> QED BY <1>3, <2>2 DEF Regular
<1> HIDE DEF up
<1>5. Regular(on.st, s, r.now) /\ on \in Outcomes
  BY PowerOnType, PowerOnKeeps DEF Regular
<1> HIDE DEF on
<1>6. Regular(back.st, s, r.now)
  BY <1>5 DEF Outcomes
<1> HIDE DEF back
<1>7. Regular(live.st, s, r.now)
  BY OnlineType, OnlineKeeps DEF Regular
<1>8. Released(freed.st, s, r.now)
  BY ReleaseKeeps
<1>9. s.phase = "PoweringOn" => Regular(still.st, s, r.now)
  BY StillPoweringOnType, StillPoweringOnKeeps DEF Regular
<1>10. Only(s).st = s /\ Keeps(s, s, r.now)
  BY OnlyFields, FieldsKeep, Zenon
<1>11. s.phase \in {"PoweringOff", "Error"} => Regular(Only(s).st, s, r.now)
  BY <1>10 DEF Regular
<1> HIDE DEF live, freed, still, res
<1> QED BY <1>1, <1>4, <1>5, <1>6, <1>7, <1>8, <1>9, <1>11 DEF res

-----------------------------------------------------------------------------
(* ensure_off.                                                             *)

\* The commands that stop a machine: never PowerOn, and ForceOff only when a
\* shutdown has overrun its timeout.
Stops(cmd, s, n) ==
  /\ cmd # "PowerOn"
  /\ cmd = "ForceOff" => s.phase = "PoweringOff" /\ in_phase_longer(s, ShutdownTimeout, n)

\* A power-off keeps the status and asks for a shutdown or a suspend.
LEMMA PowerOffKeeps ==
  ASSUME NEW s \in Status, NEW s3, NEW r, Read(r), NEW ok \in BOOLEAN
  PROVE  /\ Regular(power_off(s, s3, r, ok).st, s, r.now)
         /\ Stops(power_off(s, s3, r, ok).cmd, s, r.now)
<1> DEFINE a   == off_action(s, s3, r.now)
           out == Send(s, a, ok, r.now)
           t   == set_phase(out.st, "PoweringOff", r.now)
           res == [out EXCEPT !.st = set_phase(@, "PoweringOff", r.now), !.mark = "mark"]
<1>1. power_off(s, s3, r, ok) = res
  BY DEF power_off
<1>2. r.now \in Nat /\ "PoweringOff" \in Phases /\ a \in Actions /\ a \in {"PowerOff", "Standby"}
  BY DEF Read, Phases, off_action, Actions, OffActions
<1> HIDE DEF a
<1>3. out \in Outcomes /\ out.st \in Status /\ Keeps(s, out.st, r.now) /\ out.cmd = a
  BY <1>2, SendKeeps
<1> HIDE DEF out
<1>4. t.phase = "PoweringOff" /\ Keeps(s, t, r.now)
  <2>1. t.phase = "PoweringOff" /\ Keeps(out.st, t, r.now)
    BY <1>2, <1>3, SetPhaseType, SetPhaseKeeps, Zenon
  <2> QED BY <1>3, <2>1, KeepsChain, Zenon
<1>5. res.st = t /\ res.cmd = a
  <2> HIDE DEF t
  <2>1. t = set_phase(out.st, "PoweringOff", r.now)
    BY DEF t
  <2> QED BY <1>3, <2>1 DEF Outcomes
<1> HIDE DEF t, res
<1>6. Regular(res.st, s, r.now)
  BY <1>4, <1>5 DEF Regular
<1>7. Stops(res.cmd, s, r.now)
  BY <1>2, <1>5 DEF Stops
<1> QED BY <1>1, <1>6, <1>7

\* A failed drain keeps the status and sends nothing.
LEMMA DrainFailedKeeps ==
  ASSUME NEW s \in Status, NEW r, Read(r), r.policy = "Auto" => s.scaling_decision # None
  PROVE  Keeps(s, drain_failed(s, r).st, r.now) /\ drain_failed(s, r).cmd = None
<1> DEFINE failed == [s EXCEPT !.drain_failed_at = r.now]
           stay   == [pool |-> s.scaling_decision.pool, target |-> "On", time |-> r.now]
           u      == [failed EXCEPT !.scaling_decision = stay]
           t      == set_phase(u, "On", r.now)
           again  == [failed EXCEPT !.phase_since = r.now]
<1>1. r.now \in Nat /\ r.now \in OptTime /\ "On" \in Phases
  BY TimeIsOptTime DEF Read, Phases
<1>2. /\ failed \in Status /\ Keeps(s, failed, r.now)
      /\ failed.scaling_decision = s.scaling_decision
  <2>1. failed \in Status
    BY <1>1, Zenon DEF Status
  <2> QED BY <2>1, FieldsKeep DEF Status
<1> HIDE DEF failed
<1>3. CASE r.policy = "Auto"
  <2>1. stay \in Decisions
    BY <1>1, <1>3, StatusFields DEF Decisions, Targets
  <2>2. drain_failed(s, r) = uncordon_if_ours(Only(t), r)
    BY <1>2, <1>3 DEF drain_failed, failed, Status
  <2> HIDE DEF stay
  <2>3. u \in Status /\ Keeps(s, u, r.now)
    <3>1. u \in Status
      BY <1>2, <2>1, Zenon DEF Status
    <3> QED BY <1>2, <3>1, FieldsKeep, KeepsChain, Zenon
  <2> HIDE DEF u
  <2>4. t \in Status /\ Keeps(s, t, r.now)
    BY <1>1, <2>3, SetPhaseType, SetPhaseKeeps, KeepsChain, Zenon
  <2> HIDE DEF t
  <2>5. Only(t) \in Outcomes /\ Only(t).st = t /\ Only(t).cmd = None
    BY <2>4, OnlyType, OnlyFields, Zenon
  <2>6. uncordon_if_ours(Only(t), r).st = t /\ uncordon_if_ours(Only(t), r).cmd = None
    BY <2>5, NodeCallTypes, NodeCallsKeep, Zenon
  <2> QED BY <2>2, <2>4, <2>6
<1>4. CASE r.policy # "Auto"
  <2>1. Keeps(s, again, r.now)
    BY <1>2, FieldsKeep, KeepsChain, Zenon
  <2>2. drain_failed(s, r) = Only(again)
    BY <1>4 DEF drain_failed, failed
  <2> HIDE DEF again
  <2> QED BY <2>1, <2>2, OnlyFields
<1> QED BY <1>3, <1>4

\* So does a drain, until it powers off.
LEMMA DrainKeeps ==
  ASSUME NEW s \in Status, s.phase = "Draining", NEW s3, NEW ps, NEW r, Read(r),
         NEW ok \in BOOLEAN, r.policy = "Auto" => s.scaling_decision # None
  PROVE  /\ Regular(drain(s, s3, ps, r, ok).st, s, r.now)
         /\ Stops(drain(s, s3, ps, r, ok).cmd, s, r.now)
<1> DEFINE off == power_off(s, s3, r, ok)
           df  == drain_failed(s, r)
           Ev(out) == [out EXCEPT !.evict = TRUE]
           res == drain(s, s3, ps, r, ok)
           Good(out) == Regular(out.st, s, r.now) /\ Stops(out.cmd, s, r.now)
<1>1. off \in Outcomes /\ Good(off)
  BY PowerOffType, PowerOffKeeps, Zenon
<1>2. df \in Outcomes /\ Good(df)
  <2>1. df \in Outcomes /\ df.st.phase \in {"On", "Draining"}
    BY DrainFailedType
  <2>2. Keeps(s, df.st, r.now) /\ df.cmd = None
    BY DrainFailedKeeps, Zenon
  <2> HIDE DEF df
  <2> QED BY <2>1, <2>2, NoneAssumption DEF Regular, Stops
<1>3. Only(s) \in Outcomes /\ Good(Only(s))
  <2>1. Only(s) \in Outcomes /\ Only(s).st = s /\ Only(s).cmd = None /\ Keeps(s, s, r.now)
    BY OnlyType, OnlyFields, FieldsKeep, Zenon
  <2> QED BY <2>1, NoneAssumption DEF Regular, Stops
<1>4. res = Ev(off) \/ res = Ev(df) \/ res = Ev(Only(s))
  BY DEF drain
<1> HIDE DEF off, df, res
<1>5. \A out \in Outcomes : Ev(out).st = out.st /\ Ev(out).cmd = out.cmd
  BY DEF Outcomes
<1> HIDE DEF Ev
<1> QED BY <1>1, <1>2, <1>3, <1>4, <1>5 DEF res

\* Waiting for a power-off keeps the status, and cuts only what has overrun.
LEMMA StillPoweringOffKeeps ==
  ASSUME NEW s \in Status, s.phase = "PoweringOff", NEW s3, NEW r, Read(r), NEW ok \in BOOLEAN
  PROVE  /\ Regular(still_powering_off(s, s3, r, ok).st, s, r.now)
         /\ Stops(still_powering_off(s, s3, r, ok).cmd, s, r.now)
<1> DEFINE res    == still_powering_off(s, s3, r, ok)
           u      == [s EXCEPT !.standby_failed_at = r.now]
           down   == Send(u, "PowerOff", ok, r.now)
           downSt == [down.st EXCEPT !.phase_since = r.now]
           cut    == Send(s, "ForceOff", ok, r.now)
           cutSt  == [cut.st EXCEPT !.forced_off_at = r.now, !.standby_since = None]
           a      == off_action(s, s3, r.now)
           again  == Send(s, a, ok, r.now)
<1>1. \/ res = [down EXCEPT !.st.phase_since = r.now]
      \/ /\ res = [cut EXCEPT !.st.forced_off_at = r.now, !.st.standby_since = None]
         /\ in_phase_longer(s, ShutdownTimeout, r.now)
      \/ res = again
      \/ res = Only(s)
  BY Zenon DEF still_powering_off
<1>2. /\ r.now \in Nat /\ r.now \in OptTime /\ None \in OptTime
      /\ "PowerOff" \in Actions /\ "ForceOff" \in Actions
      /\ a \in Actions /\ a \in {"PowerOff", "Standby"}
  BY TimeIsOptTime DEF Read, off_action, Actions, OffActions
<1> HIDE DEF res, a
<1>3. u \in Status /\ Keeps(s, u, r.now)
  <2>1. u \in Status
    BY <1>2, Zenon DEF Status
  <2> QED BY <2>1, FieldsKeep, Zenon
<1> HIDE DEF u
<1>4. down \in Outcomes /\ down.st \in Status /\ Keeps(s, down.st, r.now) /\ down.cmd = "PowerOff"
  <2>1. /\ down \in Outcomes /\ down.st \in Status /\ Keeps(u, down.st, r.now)
        /\ down.cmd = "PowerOff"
    BY <1>2, <1>3, SendKeeps
  <2> QED BY <1>3, <2>1, KeepsChain, Zenon
<1>5. cut \in Outcomes /\ cut.st \in Status /\ Keeps(s, cut.st, r.now) /\ cut.cmd = "ForceOff"
  BY <1>2, SendKeeps
<1>6. /\ Keeps(s, again.st, r.now) /\ again.cmd = a
  BY <1>2, SendKeeps
<1> HIDE DEF down, cut, again
<1>7. Keeps(s, downSt, r.now) /\ Keeps(s, cutSt, r.now)
  <2>1. Keeps(down.st, downSt, r.now)
    BY <1>4, FieldsKeep, Zenon
  <2>2. Keeps(cut.st, cutSt, r.now)
    BY <1>5, FieldsKeep, Zenon
  <2> HIDE DEF downSt, cutSt
  <2> QED BY <1>4, <1>5, <2>1, <2>2, KeepsChain, Zenon
<1>8. [down EXCEPT !.st.phase_since = r.now] = [down EXCEPT !.st = downSt]
  BY <1>4 DEF Outcomes
<1>9. [cut EXCEPT !.st.forced_off_at = r.now, !.st.standby_since = None] = [cut EXCEPT !.st = cutSt]
  BY <1>5 DEF Outcomes
<1> HIDE DEF downSt, cutSt
<1>10. /\ [down EXCEPT !.st = downSt].st = downSt /\ [down EXCEPT !.st = downSt].cmd = "PowerOff"
       /\ [cut EXCEPT !.st = cutSt].st = cutSt /\ [cut EXCEPT !.st = cutSt].cmd = "ForceOff"
  BY <1>4, <1>5 DEF Outcomes
<1>11. Only(s).st = s /\ Only(s).cmd = None /\ Keeps(s, s, r.now)
  BY OnlyFields, FieldsKeep, Zenon
<1>12. Keeps(s, res.st, r.now)
  BY <1>1, <1>6, <1>7, <1>8, <1>9, <1>10, <1>11
<1>13. Stops(res.cmd, s, r.now)
  BY <1>1, <1>2, <1>6, <1>8, <1>9, <1>10, <1>11, NoneAssumption DEF Stops
<1>14. res.st.phase = "PoweringOff"
  BY StillPoweringOffType DEF res
<1> QED BY <1>12, <1>13, <1>14 DEF Regular, res

\* ensure_off keeps the status, and stops the machine in order.
LEMMA EnsureOffKeeps ==
  ASSUME NEW s0 \in Status, NEW s3, NEW ps, NEW r, Read(r), NEW ok \in BOOLEAN,
         r.policy = "Auto" => s0.scaling_decision # None
  PROVE  /\ Regular(ensure_off(s0, s3, ps, r, ok).st, s0, r.now)
         /\ Stops(ensure_off(s0, s3, ps, r, ok).cmd, s0, r.now)
<1> DEFINE s     == woke_by_itself(s0, r.now)
           p     == IF s.standby_since # None THEN "Standby" ELSE "Off"
           t     == set_phase(s, p, r.now)
           quiet == [t EXCEPT !.forced_off_at = None]
           d     == set_phase(s, "Draining", r.now)
           start == cordon(Only(d), r)
           still == still_powering_off(s, s3, r, ok)
           drn   == drain(s, s3, ps, r, ok)
           res   == ensure_off(s0, s3, ps, r, ok)
           Good(out) == Regular(out.st, s, r.now) /\ Stops(out.cmd, s, r.now)
<1>1. \/ (s.power_state = "Off" \/ in_standby(s)) /\ res = Only(quiet)
      \/ s.phase = "PoweringOff" /\ res = still
      \/ s.phase = "Draining" /\ res = drn
      \/ res = start
  BY Zenon DEF ensure_off
<1>2. r.now \in Nat /\ None \in OptTime /\ p \in Phases /\ "Draining" \in Phases
  BY TimeIsOptTime DEF Read, Phases
<1>3. /\ s \in Status /\ s.phase = s0.phase /\ s.scaling_decision = s0.scaling_decision
      /\ Keeps(s0, s, r.now) /\ s.phase_since = s0.phase_since
  <2>1. s \in Status /\ s.phase = s0.phase /\ s.scaling_decision = s0.scaling_decision
    BY <1>2, WokeType
  <2>2. Keeps(s0, s, r.now) /\ s.phase_since = s0.phase_since
    BY DEF woke_by_itself, Keeps, Status
  <2> QED BY <2>1, <2>2
<1> HIDE DEF s, res
<1>4. Good(Only(quiet)) \/ ~(s.power_state = "Off" \/ in_standby(s))
  <2>1. /\ p = "Standby" \/ (p = "Off" /\ s.standby_since = None)
    OBVIOUS
  <2> HIDE DEF p
  <2>2. t \in Status /\ t.phase = p /\ Keeps(s, t, r.now)
    BY <1>2, <1>3, SetPhaseType, SetPhaseKeeps, Zenon
  <2> HIDE DEF t
  <2>3. quiet.phase = p /\ Keeps(s, quiet, r.now)
    <3>1. Keeps(t, quiet, r.now)
      BY <2>2, FieldsKeep, Zenon
    <3>2. quiet.phase = p
      BY <2>2 DEF Status
    <3> QED BY <2>2, <3>1, <3>2, KeepsChain, Zenon
  <2> HIDE DEF quiet
  <2> QED BY <2>1, <2>3, OnlyFields, NoneAssumption DEF Regular, Stops, in_standby
<1>5. Good(start)
  <2>1. d \in Status /\ d.phase = "Draining" /\ Keeps(s, d, r.now)
    BY <1>2, <1>3, SetPhaseType, SetPhaseKeeps, Zenon
  <2> HIDE DEF d
  <2>2. Only(d) \in Outcomes /\ Only(d).st = d /\ Only(d).cmd = None
    BY <2>1, OnlyType, OnlyFields, Zenon
  <2>3. start.st = d /\ start.cmd = None
    BY <2>2, NodeCallTypes, NodeCallsKeep, Zenon
  <2> HIDE DEF start
  <2> QED BY <2>1, <2>3, NoneAssumption DEF Regular, Stops
<1>6. s.phase = "PoweringOff" => Good(still)
  BY <1>3, StillPoweringOffKeeps, Zenon
<1>7. s.phase = "Draining" => Good(drn)
  BY <1>3, DrainKeeps, Zenon
<1> HIDE DEF quiet, start, still, drn
<1>8. Good(res)
  BY <1>1, <1>4, <1>5, <1>6, <1>7
<1>9. Regular(res.st, s0, r.now)
  BY <1>3, <1>8, KeepsChain DEF Regular, Keeps
<1>10. Stops(res.cmd, s0, r.now)
  BY <1>3, <1>8 DEF Stops, in_phase_longer
<1> QED BY <1>9, <1>10 DEF res

-----------------------------------------------------------------------------
(* Boot failures, and a machine without a desired state.                   *)

\* A failed boot is recorded as left on or not; a machine left on gets no command.
LEMMA BootFailedKeeps ==
  ASSUME NEW s \in Status, NEW r, Read(r), NEW ok \in BOOLEAN
  PROVE  LET out   == boot_failed(s, r, ok)
             leave == boot_failure_leaves_on(s, r.policy)
         IN /\ out.st.manual_power_on = s.manual_power_on
            /\ out.st.powered_on_not_ready_since = s.powered_on_not_ready_since
            /\ s.boot_failure = None => out.st.boot_failure = None
            /\ s.boot_failure # None => /\ out.st.boot_failure.time = s.boot_failure.time
                                        /\ out.st.boot_failure.left_on = leave
            /\ \/ out.st.phase_since = r.now
               \/ s.phase = "BootFailed" /\ out.st.phase_since = s.phase_since
            /\ leave => /\ out.cmd = None
                        /\ out.st.last_power_action = s.last_power_action
<1> DEFINE leave  == boot_failure_leaves_on(s, r.policy)
           note   == IF s.boot_failure = None THEN None ELSE [s.boot_failure EXCEPT !.left_on = leave]
           u      == [s EXCEPT !.boot_failure = note, !.scaling_decision = None]
           failed == set_phase(u, "BootFailed", r.now)
           sent   == Send(failed, "PowerOff", ok, r.now)
           out    == [sent EXCEPT !.mark = "mark"]
<1>1. /\ r.now \in Nat /\ "BootFailed" \in Phases /\ "PowerOff" \in Actions
  BY DEF Read, Phases, Actions, OffActions
<1>2. leave \in BOOLEAN
  BY Zenon DEF boot_failure_leaves_on
<1>3. boot_failed(s, r, ok) = IF leave THEN Only(failed) ELSE out
  BY DEF boot_failed, Status
<1> HIDE DEF leave
<1>4. /\ note \in BootFailures \cup {None}
      /\ s.boot_failure = None => note = None
      /\ s.boot_failure # None => /\ note.time = s.boot_failure.time
                                  /\ note.left_on = leave
  BY <1>2, StatusFields, NoneAssumption DEF BootFailures
<1> HIDE DEF note
<1>5. /\ u \in Status /\ u.boot_failure = note /\ u.manual_power_on = s.manual_power_on
      /\ u.powered_on_not_ready_since = s.powered_on_not_ready_since
      /\ u.phase = s.phase /\ u.phase_since = s.phase_since
      /\ u.last_power_action = s.last_power_action
  <2>1. u \in Status
    BY <1>4, ZenonT(20) DEF Status
  <2> QED BY <2>1 DEF Status
<1> HIDE DEF u
<1>6. /\ failed \in Status /\ failed.phase = "BootFailed" /\ Keeps(u, failed, r.now)
      /\ failed.last_power_action = u.last_power_action
  <2>1. failed \in Status /\ failed.phase = "BootFailed" /\ Keeps(u, failed, r.now)
    BY <1>1, <1>5, SetPhaseType, SetPhaseKeeps, Zenon
  <2>2. failed.last_power_action = u.last_power_action
    BY <1>5 DEF set_phase, Status
  <2> QED BY <2>1, <2>2
<1> HIDE DEF failed
<1>7. sent \in Outcomes /\ Keeps(failed, sent.st, r.now) /\ sent.st.phase = "BootFailed"
  BY <1>1, <1>6, SendKeeps, SendType
<1> HIDE DEF sent
<1>8. out.st = sent.st
  BY <1>7 DEF Outcomes
<1>9. Only(failed).st = failed /\ Only(failed).cmd = None
  BY OnlyFields, Zenon
<1> HIDE DEF out
<1> DEFINE t == boot_failed(s, r, ok).st
<1>10. t \in {failed, sent.st} /\ (leave => t = failed /\ boot_failed(s, r, ok).cmd = None)
  BY <1>3, <1>8, <1>9
<1> HIDE DEF t
<1>11. Keeps(failed, t, r.now) /\ (leave => t.last_power_action = s.last_power_action)
  BY <1>5, <1>6, <1>7, <1>10 DEF Keeps
<1>12. Keeps(u, t, r.now)
  BY <1>6, <1>11, KeepsChain, Zenon
<1>13. /\ t.manual_power_on = s.manual_power_on
       /\ t.powered_on_not_ready_since = s.powered_on_not_ready_since
       /\ t.boot_failure = note
       /\ t.phase_since = r.now \/ (s.phase = t.phase /\ t.phase_since = s.phase_since)
  BY <1>5, <1>12 DEF Keeps
<1>14. t.phase = "BootFailed"
  BY <1>6, <1>7, <1>10
<1> QED BY <1>4, <1>10, <1>11, <1>13, <1>14 DEF t, leave

\* A boot that stays failed keeps its record; left on, it gets no command.
LEMMA BootStillFailedKeeps ==
  ASSUME NEW s \in Status, NEW r, Read(r), NEW ok \in BOOLEAN
  PROVE  /\ Keeps(s, boot_still_failed(s, r, ok).st, r.now)
         /\ s.boot_failure.left_on =>
              /\ boot_still_failed(s, r, ok).cmd = None
              /\ boot_still_failed(s, r, ok).st.last_power_action = s.last_power_action
<1> DEFINE failed == set_phase(s, "BootFailed", r.now)
           sent   == Send(failed, "ForceOff", ok, r.now)
           cutSt  == [sent.st EXCEPT !.forced_off_at = r.now]
           res    == boot_still_failed(s, r, ok)
<1>1. \/ res = [sent EXCEPT !.st.forced_off_at = r.now] /\ ~s.boot_failure.left_on
      \/ res = Only(failed)
  BY Zenon DEF boot_still_failed
<1>2. r.now \in Nat /\ "BootFailed" \in Phases /\ "ForceOff" \in Actions
  BY DEF Read, Phases, Actions, OffActions
<1>3. failed \in Status /\ Keeps(s, failed, r.now)
  BY <1>2, SetPhaseType, SetPhaseKeeps, Zenon
<1>4. failed.last_power_action = s.last_power_action
  BY DEF set_phase, Status
<1> HIDE DEF failed, res
<1>5. sent \in Outcomes /\ sent.st \in Status /\ Keeps(failed, sent.st, r.now)
  BY <1>2, <1>3, SendKeeps
<1> HIDE DEF sent
<1>6. Keeps(s, cutSt, r.now)
  <2>1. Keeps(sent.st, cutSt, r.now)
    BY <1>5, FieldsKeep, Zenon
  <2> HIDE DEF cutSt
  <2> QED BY <1>3, <1>5, <2>1, KeepsChain, Zenon
<1>7. [sent EXCEPT !.st.forced_off_at = r.now] = [sent EXCEPT !.st = cutSt]
  BY <1>5 DEF Outcomes
<1> HIDE DEF cutSt
<1>8. [sent EXCEPT !.st = cutSt].st = cutSt
  BY <1>5 DEF Outcomes
<1> QED BY <1>1, <1>3, <1>4, <1>6, <1>7, <1>8, OnlyFields DEF res

\* observe only follows the power.
LEMMA ObserveKeeps ==
  ASSUME NEW s \in Status, NEW n \in Nat
  PROVE  /\ Regular(observe(s, n), s, n)
         /\ observe(s, n).last_power_action = s.last_power_action
<1> DEFINE p == CASE s.power_state = "On"  -> IF s.node_ready THEN "On" ELSE "PoweringOn"
                  [] s.power_state = "Off" -> "Off"
                  [] OTHER                 -> "Unknown"
<1>1. /\ p \in {"On", "PoweringOn", "Off", "Unknown"} /\ p \in Phases
      /\ p = "Off" => s.power_state = "Off"
  BY DEF Phases
<1>2. observe(s, n) = IF in_standby(s) THEN s ELSE set_phase(s, p, n)
  BY DEF observe
<1> HIDE DEF p
<1>3. /\ set_phase(s, p, n).phase = p /\ Keeps(s, set_phase(s, p, n), n)
      /\ Keeps(s, s, n)
  BY <1>1, SetPhaseType, SetPhaseKeeps, FieldsKeep, Zenon
<1>4. set_phase(s, p, n).last_power_action = s.last_power_action
  BY DEF set_phase, Status
<1> QED BY <1>1, <1>2, <1>3, <1>4 DEF in_standby, Regular

-----------------------------------------------------------------------------
(* The gates: what the handlers start from.                                *)

\* t agrees with s on the phase, the power, the Node and the last command.
Agrees(s, t) ==
  /\ t.phase = s.phase /\ t.phase_since = s.phase_since
  /\ t.power_state = s.power_state /\ t.node_ready = s.node_ready
  /\ t.last_power_action = s.last_power_action

\* What gates 1, 2 and 4 change of the stored status.
LEMMA SensedFields ==
  ASSUME NEW r, Read(r), NEW p \in PowerStates, NEW fresh \in BOOLEAN
  PROVE  LET s == sensed(r, p, fresh)
         IN /\ s.phase = r.old.phase /\ s.phase_since = r.old.phase_since
            /\ s.last_power_action = r.old.last_power_action
            /\ s.power_state = p /\ s.node_ready = (r.node.exists /\ r.node.ready)
            /\ s.boot_failure = r.old.boot_failure
            /\ s.powered_on_not_ready_since = r.old.powered_on_not_ready_since
            /\ s.manual_power_on = r.old.manual_power_on
<1> DEFINE ready == r.node.exists /\ r.node.ready
           d     == r.old.scaling_decision
           kept  == IF d # None /\ d.pool \notin r.member THEN None ELSE d
           s1    == resolved(r)
           s2    == [s1 EXCEPT !.power_state = p]
           c     == power_state_consistent(s2, fresh, r.now)
<1>1. r.old \in Status /\ s1 \in Status
  BY ResolvedType, Zenon DEF Read
<1>2. s1 = [r.old EXCEPT !.node_ready = ready, !.pools = r.member, !.scaling_decision = kept]
  BY <1>1 DEF resolved, Status
<1>3. sensed(r, p, fresh) = [s2 EXCEPT !.consistent = c]
  BY DEF sensed
<1> HIDE DEF kept, c
<1>4. /\ s1.phase = r.old.phase /\ s1.phase_since = r.old.phase_since
      /\ s1.last_power_action = r.old.last_power_action
      /\ s1.node_ready = ready /\ s1.boot_failure = r.old.boot_failure
      /\ s1.powered_on_not_ready_since = r.old.powered_on_not_ready_since
      /\ s1.manual_power_on = r.old.manual_power_on
  BY <1>1, <1>2 DEF Status
<1> HIDE DEF s1
<1>5. s2 \in Status
  BY <1>1, Zenon DEF Status
<1> QED BY <1>1, <1>3, <1>4, <1>5 DEF Status

\* A machine seen off forgets a change by hand, and nothing else.
LEMMA SeenOffFields ==
  ASSUME NEW r, NEW s \in Status
  PROVE  LET t == seen_off(r, s)
         IN /\ Agrees(s, t) /\ t.boot_failure = s.boot_failure
            /\ t.powered_on_not_ready_since = s.powered_on_not_ready_since
            /\ t.manual_power_on \in {s.manual_power_on, None}
BY DEF seen_off, Agrees, Status

\* The start of the boot that track_boot leaves, and the failure it records.
LEMMA TrackBootFields ==
  ASSUME NEW s \in Status, NEW n \in Nat
  PROVE  LET t == track_boot(s, n).st
             e == track_boot(s, n).event
         IN /\ Agrees(s, t) /\ t.manual_power_on = s.manual_power_on
            /\ s.node_ready => /\ e # "Failed"
                               /\ t.boot_failure = None /\ t.powered_on_not_ready_since = None
            /\ ~s.node_ready /\ s.power_state # "On" => e # "Failed"
            /\ ~s.node_ready /\ s.power_state = "Off" => t.powered_on_not_ready_since = None
            /\ ~s.node_ready => t.powered_on_not_ready_since
                                  \in {None, s.powered_on_not_ready_since, boot_start(s, n)}
            /\ ~s.node_ready /\ e # "Failed" => t.boot_failure = s.boot_failure
            /\ e = "Failed" => /\ t.boot_failure = [time |-> n, left_on |-> FALSE]
                               /\ t.powered_on_not_ready_since = boot_start(s, n)
                               /\ n - boot_start(s, n) > BootTimeout
<1> DEFINE since   == boot_start(s, n)
           tracked == [s EXCEPT !.powered_on_not_ready_since = since]
           failure == [time |-> n, left_on |-> FALSE]
           ready   == [s EXCEPT !.powered_on_not_ready_since = None, !.boot_failure = None]
           dark    == [s EXCEPT !.powered_on_not_ready_since = None]
           failed  == [tracked EXCEPT !.boot_failure = failure]
           res     == track_boot(s, n)
<1>1. \/ s.node_ready /\ res.st = ready /\ res.event \in {"Recovered", "None"}
      \/ ~s.node_ready /\ ~booting(s) /\ s.power_state = "Off" /\ res.st = dark /\ res.event = "None"
      \/ ~s.node_ready /\ ~booting(s) /\ s.power_state # "Off" /\ res.st = s /\ res.event = "None"
      \/ /\ ~s.node_ready /\ booting(s) /\ n - since > BootTimeout
         /\ res.st = failed /\ res.event = "Failed"
      \/ ~s.node_ready /\ booting(s) /\ res.st = tracked /\ res.event = "None"
  <2> HIDE DEF tracked, failure, ready, dark
  <2> QED BY DEF track_boot, tracked, failure, ready, dark
<1> HIDE DEF since, failure, res
<1>2. CASE s.node_ready
  <2>1. /\ ready.powered_on_not_ready_since = None /\ ready.boot_failure = None
        /\ Agrees(s, ready) /\ ready.manual_power_on = s.manual_power_on
    BY DEF Agrees, Status
  <2> HIDE DEF ready
  <2>2. res.st = ready /\ res.event # "Failed"
    BY <1>1, <1>2
  <2> QED BY <1>2, <2>1, <2>2 DEF res
<1>3. CASE ~s.node_ready /\ ~booting(s)
  BY <1>1, <1>3 DEF Agrees, Status, res
<1>4. CASE ~s.node_ready /\ booting(s)
  <2>1. s.power_state = "On"
    BY <1>4 DEF booting
  <2>2. tracked.powered_on_not_ready_since = since /\ tracked.boot_failure = s.boot_failure
        /\ Agrees(s, tracked) /\ tracked.manual_power_on = s.manual_power_on
    BY DEF Agrees, Status
  <2>3. failed.powered_on_not_ready_since = since /\ failed.boot_failure = failure
        /\ Agrees(s, failed) /\ failed.manual_power_on = s.manual_power_on
    BY DEF Agrees, Status
  <2> HIDE DEF tracked, failed
  <2>4. \/ res.st = failed /\ res.event = "Failed" /\ n - since > BootTimeout
        \/ res.st = tracked /\ res.event = "None"
    BY <1>1, <1>4
  <2> QED BY <1>4, <2>1, <2>2, <2>3, <2>4 DEF res, since, failure
<1> QED BY <1>2, <1>3, <1>4

\* What recording a change by hand alters.
LEMMA ManualChangeFields ==
  ASSUME NEW s \in Status, NEW c, NEW n \in Nat
  PROVE  LET t == manual_change(s, c, n)
         IN /\ Agrees(s, t)
            /\ t.powered_on_not_ready_since = s.powered_on_not_ready_since
            /\ t.boot_failure \in {s.boot_failure, None}
            /\ \/ c = "PoweredOn" /\ t.manual_power_on = n /\ t.boot_failure = None
               \/ c = "PoweredOff" /\ t.manual_power_on = None
               \/ c \notin {"PoweredOn", "PoweredOff"} /\ t = s
<1> DEFINE kept == IF s.boot_failure # None /\ s.boot_failure.left_on THEN None ELSE s.boot_failure
           on   == [s EXCEPT !.manual_power_on = n, !.scaling_decision = None,
                             !.standby_since = None, !.boot_failure = None]
           off  == [s EXCEPT !.manual_power_on = None, !.manual_power_off = n,
                             !.scaling_decision = None, !.boot_failure = kept]
           t    == manual_change(s, c, n)
<1>1. \/ c = "PoweredOn" /\ t = on
      \/ c = "PoweredOff" /\ t = off
      \/ c \notin {"PoweredOn", "PoweredOff"} /\ t = s
  BY DEF manual_change, Status
<1>2. kept \in {s.boot_failure, None}
  OBVIOUS
<1> HIDE DEF kept, t
<1>3. CASE c = "PoweredOn"
  BY <1>1, <1>3 DEF Agrees, Status, t
<1>4. CASE c = "PoweredOff"
  BY <1>1, <1>2, <1>4 DEF Agrees, Status, t
<1>5. CASE c \notin {"PoweredOn", "PoweredOff"}
  BY <1>1, <1>5 DEF Agrees, t
<1> QED BY <1>3, <1>4, <1>5

-----------------------------------------------------------------------------
(* The records of boots.                                                   *)

\* The failure recorded in x is not of the boot in progress, nor of one that
\* could still be taken for it.
Fresh(x) ==
  /\ x.boot_failure # None
  /\ \/ x.powered_on_not_ready_since = None
     \/ x.powered_on_not_ready_since > x.boot_failure.time
  /\ x.phase # "BootFailed"

\* PoweringOn is entered after the failure on record, and a machine in Off is
\* not booting.
Boots(x) ==
  /\ x.boot_failure # None /\ x.phase = "PoweringOn" =>
       x.phase_since # None /\ x.phase_since > x.boot_failure.time
  /\ x.phase = "Off" => x.powered_on_not_ready_since = None
  /\ x.phase = "PoweringOff" => x.phase_since # None

\* What x records happened by time n.
Till(x, n) ==
  /\ x.boot_failure # None => x.boot_failure.time <= n
  /\ x.manual_power_on # None => x.manual_power_on <= n

\* A boot begins after the failure of an earlier one.
LEMMA BootStartFresh ==
  ASSUME NEW s \in Status, NEW n \in Nat, Fresh(s), Boots(s), Till(s, n - 1)
  PROVE  boot_start(s, n) > s.boot_failure.time
<1>1. s.boot_failure.time < n /\ s.boot_failure.time \in Nat
  BY StatusFields DEF Fresh, Till, BootFailures
<1>2. s.powered_on_not_ready_since \in Nat \cup {None} /\ s.phase_since \in Nat \cup {None}
  BY StatusFields DEF OptTime
<1> QED BY <1>1, <1>2 DEF Fresh, Boots, boot_start, MinOf

\* Someone else turned the machine on or woke it.
SeenOn(r, s) ==
  /\ r.old.phase = "Off" \/ (r.old.phase = "Standby" /\ s.node_ready)
  /\ ~our_on(r.old, r.now)

\* The status the handlers start from: s and the BootEvent e, after r was read.
Gated(r, p, s, e) ==
  /\ s \in Status /\ s.phase = r.old.phase /\ s.phase_since = r.old.phase_since
  /\ s.power_state = p /\ s.last_power_action = r.old.last_power_action
  /\ s.node_ready = (r.node.exists /\ r.node.ready)
  /\ \/ s.manual_power_on \in {None, r.old.manual_power_on}
     \/ s.manual_power_on = r.now /\ s.boot_failure = None /\ SeenOn(r, s)
  /\ e # "Failed" => s.boot_failure \in {None, r.old.boot_failure}
  /\ e = "Failed" => /\ p = "On" /\ ~s.node_ready
                     /\ s.boot_failure \in {None, [time |-> r.now, left_on |-> FALSE]}
                     /\ s.powered_on_not_ready_since = boot_start(r.old, r.now)
                     /\ r.now - boot_start(r.old, r.now) > BootTimeout
  /\ s.node_ready => s.boot_failure = None /\ s.powered_on_not_ready_since = None
  /\ p = "Off" => s.powered_on_not_ready_since = None
  /\ s.powered_on_not_ready_since
       \in {None, r.old.powered_on_not_ready_since, boot_start(r.old, r.now)}

\* The gates, as handle goes through them.
LEMMA GatesKeep ==
  ASSUME NEW r, Read(r), NEW p \in {"On", "Off"}, NEW fresh \in BOOLEAN
  PROVE  LET s0      == sensed(r, p, fresh)
             tracked == track_boot(seen_off(r, s0), r.now)
             s       == manual_change(tracked.st, change_in(r, s0), r.now)
         IN Gated(r, p, s, tracked.event)
<1> DEFINE s0 == sensed(r, p, fresh)
           s1 == seen_off(r, s0)
           tr == track_boot(s1, r.now)
           c  == change_in(r, s0)
           s  == manual_change(tr.st, c, r.now)
<1>1. p \in PowerStates /\ r.now \in Nat
  BY DEF PowerStates, Read
<1>2. /\ s0 \in Status
      /\ s0.phase = r.old.phase /\ s0.phase_since = r.old.phase_since
      /\ s0.last_power_action = r.old.last_power_action
      /\ s0.power_state = p /\ s0.node_ready = (r.node.exists /\ r.node.ready)
      /\ s0.boot_failure = r.old.boot_failure
      /\ s0.powered_on_not_ready_since = r.old.powered_on_not_ready_since
      /\ s0.manual_power_on = r.old.manual_power_on
  BY <1>1, SensedType, SensedFields
<1>8. c = "PoweredOn" =>
        /\ r.old.phase = "Off" \/ (r.old.phase = "Standby" /\ s0.node_ready)
        /\ ~our_on(s0, r.now)
  <2> HIDE DEF s0
  <2> QED BY DEF change_in, detect_manual_change
<1>9. our_on(s0, r.now) = our_on(r.old, r.now)
  <2> HIDE DEF s0
  <2> QED BY <1>2, Zenon DEF our_on, TimeOfLast
<1> HIDE DEF s0
<1>3. /\ s1 \in Status /\ Agrees(s0, s1) /\ s1.boot_failure = r.old.boot_failure
      /\ s1.powered_on_not_ready_since = r.old.powered_on_not_ready_since
      /\ s1.manual_power_on \in {r.old.manual_power_on, None}
  BY <1>2, SeenOffType, SeenOffFields
<1>4. boot_start(s1, r.now) = boot_start(r.old, r.now)
  BY <1>2, <1>3 DEF Agrees, boot_start
<1> HIDE DEF s1
<1> DEFINE t == tr.st
           e == tr.event
<1>5. /\ t \in Status /\ Agrees(s1, t) /\ t.manual_power_on = s1.manual_power_on
      /\ s1.node_ready => /\ e # "Failed"
                          /\ t.boot_failure = None /\ t.powered_on_not_ready_since = None
      /\ ~s1.node_ready /\ s1.power_state # "On" => e # "Failed"
      /\ ~s1.node_ready /\ s1.power_state = "Off" => t.powered_on_not_ready_since = None
      /\ ~s1.node_ready => t.powered_on_not_ready_since
                            \in {None, s1.powered_on_not_ready_since, boot_start(s1, r.now)}
      /\ ~s1.node_ready /\ e # "Failed" => t.boot_failure = s1.boot_failure
      /\ e = "Failed" => /\ t.boot_failure = [time |-> r.now, left_on |-> FALSE]
                         /\ t.powered_on_not_ready_since = boot_start(s1, r.now)
                         /\ r.now - boot_start(s1, r.now) > BootTimeout
  BY <1>1, <1>3, TrackBootType, TrackBootFields
<1> HIDE DEF t, e
<1>6. /\ s \in Status /\ Agrees(t, s)
      /\ s.powered_on_not_ready_since = t.powered_on_not_ready_since
      /\ s.boot_failure \in {t.boot_failure, None}
      /\ \/ c = "PoweredOn" /\ s.manual_power_on = r.now /\ s.boot_failure = None
         \/ s.manual_power_on \in {None, t.manual_power_on}
  <2>1. s \in Status
    BY <1>1, <1>5, ManualChangeType DEF t
  <2>2. LET x == manual_change(t, c, r.now)
        IN /\ Agrees(t, x)
           /\ x.powered_on_not_ready_since = t.powered_on_not_ready_since
           /\ x.boot_failure \in {t.boot_failure, None}
           /\ \/ c = "PoweredOn" /\ x.manual_power_on = r.now /\ x.boot_failure = None
              \/ c = "PoweredOff" /\ x.manual_power_on = None
              \/ c \notin {"PoweredOn", "PoweredOff"} /\ x = t
    <3> HIDE DEF c
    <3> QED BY <1>1, <1>5, ManualChangeFields
  <2>3. s = manual_change(t, c, r.now)
    BY DEF t
  <2> HIDE DEF s, c
  <2> QED BY <2>1, <2>2, <2>3
<1> HIDE DEF s, c
<1>7. Gated(r, p, s, e)
  <2>1. s.node_ready = s1.node_ready /\ s.power_state = p /\ s1.power_state = p
    BY <1>2, <1>3, <1>5, <1>6 DEF Agrees
  <2>2. /\ s.phase = r.old.phase /\ s.phase_since = r.old.phase_since
        /\ s.last_power_action = r.old.last_power_action
        /\ s.node_ready = (r.node.exists /\ r.node.ready)
    BY <1>2, <1>3, <1>5, <1>6 DEF Agrees
  <2>3. \/ s.manual_power_on \in {None, r.old.manual_power_on}
        \/ s.manual_power_on = r.now /\ s.boot_failure = None /\ SeenOn(r, s)
    BY <1>8, <1>9, <1>2, <1>3, <1>5, <1>6, <2>2 DEF SeenOn
  <2>4. s1.node_ready \in BOOLEAN
    BY <1>3, StatusFields
  <2>5. /\ e # "Failed" => s.boot_failure \in {None, r.old.boot_failure}
        /\ e = "Failed" => /\ p = "On" /\ ~s.node_ready
                           /\ s.boot_failure \in {None, [time |-> r.now, left_on |-> FALSE]}
                           /\ s.powered_on_not_ready_since = boot_start(r.old, r.now)
                           /\ r.now - boot_start(r.old, r.now) > BootTimeout
    BY <1>3, <1>4, <1>5, <1>6, <2>1, <2>4
  <2>6. /\ s.node_ready => s.boot_failure = None /\ s.powered_on_not_ready_since = None
        /\ p = "Off" => s.powered_on_not_ready_since = None
        /\ s.powered_on_not_ready_since
             \in {None, r.old.powered_on_not_ready_since, boot_start(r.old, r.now)}
    BY <1>3, <1>4, <1>5, <1>6, <2>1, <2>4
  <2> QED BY <1>6, <2>1, <2>2, <2>3, <2>5, <2>6 DEF Gated
<1> QED BY <1>7 DEF s, e, c, t, s1, s0

\* What a handler makes of the records of boots.
BootsKept(new, r) ==
  /\ Boots(new) /\ Till(new, r.now)
  /\ /\ new.boot_failure # None /\ new.boot_failure = r.old.boot_failure
     /\ Fresh(r.old) \/ new.power_state = "Off"
     => Fresh(new)

\* An old failure is not taken for the boot that the gates leave in progress.
LEMMA GatedFresh ==
  ASSUME NEW r, Read(r), NEW p \in {"On", "Off"}, NEW s, NEW e, Gated(r, p, s, e),
         Boots(r.old), Till(r.old, r.now - 1),
         s.boot_failure # None, s.boot_failure = r.old.boot_failure,
         Fresh(r.old) \/ p = "Off"
  PROVE  s.powered_on_not_ready_since = None \/ s.powered_on_not_ready_since > s.boot_failure.time
<1>1. CASE p = "Off"
  BY <1>1 DEF Gated
<1>2. CASE Fresh(r.old)
  <2>1. r.old \in Status /\ r.now \in Nat
    BY DEF Read
  <2>2. boot_start(r.old, r.now) > r.old.boot_failure.time
    BY <1>2, <2>1, BootStartFresh
  <2> QED BY <1>2, <2>2 DEF Gated, Fresh
<1> QED BY <1>1, <1>2

\* A handler that keeps the status keeps the records in order.
LEMMA RegularBoots ==
  ASSUME NEW r, Read(r), NEW p \in {"On", "Off"}, NEW s, NEW e, Gated(r, p, s, e), e # "Failed",
         Boots(r.old), Till(r.old, r.now - 1), NEW t, Regular(t, s, r.now)
  PROVE  BootsKept(t, r)
<1>1. r.old \in Status /\ r.now \in Nat /\ r.now # None
  BY NoneAssumption DEF Read
<1>2. /\ r.old.boot_failure # None => /\ r.old.boot_failure.time \in Nat
                                      /\ r.old.boot_failure.time < r.now
      /\ r.old.manual_power_on # None => /\ r.old.manual_power_on \in Nat
                                         /\ r.old.manual_power_on < r.now
      /\ r.old.phase_since \in Nat \cup {None}
  BY <1>1, StatusFields DEF Till, BootFailures, OptTime
<1>3. /\ t.boot_failure \in {None, r.old.boot_failure}
      /\ t.manual_power_on \in {None, r.old.manual_power_on, r.now}
      /\ t.phase_since = r.now \/ (t.phase = r.old.phase /\ t.phase_since = r.old.phase_since)
      /\ t.power_state = p /\ t.boot_failure = s.boot_failure
      /\ t.powered_on_not_ready_since = s.powered_on_not_ready_since
  BY DEF Regular, Keeps, Gated
<1>4. Boots(t)
  <2>1. ASSUME t.boot_failure # None, t.phase = "PoweringOn"
        PROVE  t.phase_since # None /\ t.phase_since > t.boot_failure.time
    BY <1>1, <1>2, <1>3, <2>1 DEF Boots
  <2>2. ASSUME t.phase = "Off" PROVE t.powered_on_not_ready_since = None
    BY <1>3, <2>2 DEF Regular, Gated
  <2>3. ASSUME t.phase = "PoweringOff" PROVE t.phase_since # None
    BY <1>1, <1>3, <2>3 DEF Boots
  <2> QED BY <2>1, <2>2, <2>3 DEF Boots
<1>5. Till(t, r.now)
  BY <1>1, <1>2, <1>3 DEF Till
<1>6. ASSUME t.boot_failure # None, t.boot_failure = r.old.boot_failure,
             Fresh(r.old) \/ t.power_state = "Off"
      PROVE  Fresh(t)
  <2>1. s.powered_on_not_ready_since = None \/ s.powered_on_not_ready_since > s.boot_failure.time
    BY <1>3, <1>6, GatedFresh
  <2> QED BY <1>3, <1>6, <2>1 DEF Fresh, Regular
<1> QED BY <1>4, <1>5, <1>6 DEF BootsKept

\* Giving up a power-on records a failure of now.
LEMMA ReleasedBoots ==
  ASSUME NEW r, Read(r), NEW p \in {"On", "Off"}, NEW s, NEW e, Gated(r, p, s, e),
         Till(r.old, r.now - 1), NEW t, Released(t, s, r.now)
  PROVE  BootsKept(t, r)
<1>1. r.old \in Status /\ r.now \in Nat
  BY DEF Read
<1>2. /\ r.old.boot_failure # None => r.old.boot_failure.time < r.now
      /\ r.old.manual_power_on # None => /\ r.old.manual_power_on \in Nat
                                         /\ r.old.manual_power_on < r.now
  BY <1>1, StatusFields DEF Till, BootFailures, OptTime
<1>3. t.boot_failure.time = r.now /\ t.manual_power_on \in {None, r.old.manual_power_on, r.now}
  BY DEF Released, Gated
<1>4. Boots(t)
  <2>1. ASSUME t.phase = "Off" PROVE t.powered_on_not_ready_since = None
    BY <2>1 DEF Released, Gated
  <2> QED BY <2>1 DEF Boots, Released
<1>5. Till(t, r.now)
  BY <1>1, <1>2, <1>3 DEF Till
<1>6. ~(t.boot_failure # None /\ t.boot_failure = r.old.boot_failure)
  BY <1>1, <1>2, <1>3
<1> QED BY <1>4, <1>5, <1>6 DEF BootsKept

\* So does a boot that fails now.
LEMMA FailedBoots ==
  ASSUME NEW r, Read(r), NEW p \in {"On", "Off"}, NEW s, Gated(r, p, s, "Failed"),
         Till(r.old, r.now - 1), NEW ok \in BOOLEAN
  PROVE  BootsKept(boot_failed(s, r, ok).st, r)
<1> DEFINE t == boot_failed(s, r, ok).st
<1>1. r.old \in Status /\ r.now \in Nat /\ s \in Status
  BY DEF Read, Gated
<1>2. /\ r.old.boot_failure # None => r.old.boot_failure.time < r.now
      /\ r.old.manual_power_on # None => /\ r.old.manual_power_on \in Nat
                                         /\ r.old.manual_power_on < r.now
  BY <1>1, StatusFields DEF Till, BootFailures, OptTime
<1>3. /\ t.phase = "BootFailed" /\ t.manual_power_on = s.manual_power_on
      /\ s.boot_failure = None => t.boot_failure = None
      /\ s.boot_failure # None => t.boot_failure.time = s.boot_failure.time
  BY <1>1, BootFailedType, BootFailedKeeps
<1> HIDE DEF t
<1>4. /\ t.boot_failure = None \/ t.boot_failure.time = r.now
      /\ t.manual_power_on \in {None, r.old.manual_power_on, r.now}
  BY <1>3 DEF Gated
<1>5. Boots(t)
  BY <1>3 DEF Boots
<1>6. Till(t, r.now)
  BY <1>1, <1>2, <1>4 DEF Till
<1>7. ~(t.boot_failure # None /\ t.boot_failure = r.old.boot_failure)
  BY <1>1, <1>2, <1>4
<1> QED BY <1>5, <1>6, <1>7 DEF BootsKept, t

\* And a boot that stays failed, whose failure is not an old one.
LEMMA StillFailedBoots ==
  ASSUME NEW r, Read(r), NEW p \in {"On", "Off"}, NEW s, NEW e, Gated(r, p, s, e), e # "Failed",
         Boots(r.old), Till(r.old, r.now - 1), s.power_state = "On", failure_is_current(s),
         NEW ok \in BOOLEAN
  PROVE  BootsKept(boot_still_failed(s, r, ok).st, r)
<1> DEFINE t == boot_still_failed(s, r, ok).st
<1>1. r.old \in Status /\ r.now \in Nat /\ s \in Status /\ p = "On"
  BY DEF Read, Gated
<1>2. /\ r.old.boot_failure # None => /\ r.old.boot_failure.time \in Nat
                                      /\ r.old.boot_failure.time < r.now
      /\ r.old.manual_power_on # None => /\ r.old.manual_power_on \in Nat
                                         /\ r.old.manual_power_on < r.now
  BY <1>1, StatusFields DEF Till, BootFailures, OptTime
<1>3. t.phase = "BootFailed" /\ Keeps(s, t, r.now)
  BY <1>1, BootStillFailedType, BootStillFailedKeeps
<1> HIDE DEF t
<1>4. /\ t.boot_failure \in {None, r.old.boot_failure} /\ t.boot_failure = s.boot_failure
      /\ t.manual_power_on \in {None, r.old.manual_power_on, r.now}
      /\ t.power_state = "On"
  BY <1>1, <1>3 DEF Keeps, Gated
<1>5. Boots(t)
  BY <1>3 DEF Boots
<1>6. Till(t, r.now)
  BY <1>1, <1>2, <1>4 DEF Till
<1>7. ~(t.boot_failure = r.old.boot_failure /\ Fresh(r.old))
  <2> SUFFICES ASSUME t.boot_failure = r.old.boot_failure, Fresh(r.old) PROVE FALSE
    OBVIOUS
  <2>1. s.powered_on_not_ready_since = None \/ s.powered_on_not_ready_since > s.boot_failure.time
    BY <1>4, GatedFresh DEF Fresh
  <2>2. s.powered_on_not_ready_since \in Nat /\ s.boot_failure.time \in Nat
    BY <1>1, <1>2, <1>4, StatusFields DEF failure_is_current, OptTime
  <2> QED BY <2>1, <2>2, NoneAssumption DEF failure_is_current
<1> QED BY <1>4, <1>5, <1>6, <1>7 DEF BootsKept, t

\* The whole reconcile keeps the records of boots in order.
LEMMA HandleBoots ==
  ASSUME NEW r, Read(r), NEW p \in {"On", "Off"}, NEW fresh \in BOOLEAN,
         NEW s3, NEW ps, NEW ok \in BOOLEAN, Boots(r.old), Till(r.old, r.now - 1)
  PROVE  BootsKept(handle(r, p, fresh, s3, ps, ok).st, r)
<1> DEFINE s0      == sensed(r, p, fresh)
           tracked == track_boot(seen_off(r, s0), r.now)
           s       == manual_change(tracked.st, change_in(r, s0), r.now)
           e       == tracked.event
           target  == managed_target(r.policy, s)
           failed  == boot_failed(s, r, ok)
           still   == boot_still_failed(s, r, ok)
           obs     == Only(observe(s, r.now))
           on      == ensure_on(s, r, ok)
           off     == ensure_off(s, s3, ps, r, ok)
           res     == handle(r, p, fresh, s3, ps, ok)
<1>1. \/ e = "Failed" /\ res = failed
      \/ e # "Failed" /\ s.power_state = "On" /\ failure_is_current(s) /\ res = still
      \/ e # "Failed" /\ res = obs
      \/ e # "Failed" /\ res = on
      \/ e # "Failed" /\ target # None /\ target # "On" /\ res = off
  BY Zenon DEF handle
<1>2. (target # None /\ r.policy = "Auto") => s.scaling_decision # None
  <2> HIDE DEF s
  <2> QED BY DEF managed_target, desired_target
<1>3. Gated(r, p, s, e)
  BY GatesKeep
<1> HIDE DEF s, e, target, res
<1>4. s \in Status /\ r.now \in Nat
  BY <1>3 DEF Gated, Read
<1>5. CASE e = "Failed" /\ res = failed
  BY <1>3, <1>5, FailedBoots DEF res
<1>6. CASE e # "Failed" /\ s.power_state = "On" /\ failure_is_current(s) /\ res = still
  BY <1>3, <1>6, StillFailedBoots DEF res
<1>7. CASE e # "Failed" /\ res = obs
  <2>1. Regular(obs.st, s, r.now)
    BY <1>4, ObserveKeeps, OnlyFields
  <2> HIDE DEF obs
  <2> QED BY <1>3, <1>7, <2>1, RegularBoots DEF res
<1>8. CASE e # "Failed" /\ res = on
  <2>1. Regular(on.st, s, r.now) \/ Released(on.st, s, r.now)
    BY <1>4, EnsureOnKeeps
  <2> HIDE DEF on
  <2> QED BY <1>3, <1>8, <2>1, RegularBoots, ReleasedBoots DEF res
<1>9. CASE e # "Failed" /\ target # None /\ target # "On" /\ res = off
  <2>1. Regular(off.st, s, r.now)
    BY <1>2, <1>4, <1>9, EnsureOffKeeps
  <2> HIDE DEF off
  <2> QED BY <1>3, <1>9, <2>1, RegularBoots DEF res
<1> QED BY <1>1, <1>5, <1>6, <1>7, <1>8, <1>9

\* A field nobody else has written takes the value the patch gives it.
LEMMA MergeField ==
  ASSUME NEW live \in Status, NEW old, NEW new, NEW f \in DOMAIN live, live[f] = old[f]
  PROVE  merge_diff(live, old, new)[f] = new[f]
BY DEF merge_diff

-----------------------------------------------------------------------------
(* Changes by hand.                                                        *)

\* x records nothing of ours since the machine was turned on by hand: no PowerOn
\* that could have started the boot in progress, no boot, and no phase of one.
Untouched(x) ==
  /\ TimeOfLast(x, {"PowerOn"}) # None =>
       x.last_power_action.time + BootTimeout < x.manual_power_on
  /\ x.powered_on_not_ready_since # None =>
       x.manual_power_on <= x.powered_on_not_ready_since
  /\ x.phase \in {"PoweringOn", "BootFailed"} /\ x.phase_since # None =>
       x.manual_power_on <= x.phase_since

\* A machine turned on by hand: left alone so far, and left on if its boot failed.
ByHand(x) ==
  x.manual_power_on # None =>
    Untouched(x) /\ (x.boot_failure # None => x.boot_failure.left_on)

\* What the gates leave of a machine turned on by hand, now or earlier.
LEMMA GatedByHand ==
  ASSUME NEW r, Read(r), NEW p \in {"On", "Off"}, NEW s, NEW e, Gated(r, p, s, e),
         Boots(r.old), Till(r.old, r.now - 1), ByHand(r.old), s.manual_power_on # None
  PROVE  /\ Untouched(s) /\ s.manual_power_on \in Nat /\ s.manual_power_on <= r.now
         /\ e # "Failed" /\ s.boot_failure # None => s.boot_failure.left_on
<1> DEFINE old == r.old
           m   == s.manual_power_on
<1>1. /\ old \in Status /\ r.now \in Nat /\ s.phase = old.phase /\ s.phase_since = old.phase_since
      /\ s.last_power_action = old.last_power_action
  BY DEF Read, Gated
<1>2. /\ old.phase_since \in Nat \cup {None} /\ old.powered_on_not_ready_since \in Nat \cup {None}
      /\ old.manual_power_on \in Nat \cup {None}
      /\ TimeOfLast(old, {"PowerOn"}) # None => TimeOfLast(old, {"PowerOn"}) = old.last_power_action.time
      /\ TimeOfLast(s, {"PowerOn"}) = TimeOfLast(old, {"PowerOn"})
      /\ TimeOfLast(old, {"PowerOn"}) \in Nat \cup {None}
      /\ BootTimeout \in Nat
  BY <1>1, StatusFields, DurationAssumption DEF OptTime, TimeOfLast, ActionRecords
<1>3. /\ s.powered_on_not_ready_since
           \in {None, old.powered_on_not_ready_since, boot_start(old, r.now)}
      /\ s.node_ready => s.powered_on_not_ready_since = None
      /\ e # "Failed" => s.boot_failure \in {None, old.boot_failure}
  BY DEF Gated
<1>4. CASE m = r.now /\ s.boot_failure = None /\ SeenOn(r, s)
  <2>1. ~(TimeOfLast(old, {"PowerOn"}) # None
          /\ r.now - TimeOfLast(old, {"PowerOn"}) <= BootTimeout)
    BY <1>4 DEF SeenOn, our_on, Within
  <2>2. old.phase \notin {"PoweringOn", "BootFailed"}
    BY <1>4 DEF SeenOn
  <2>3. s.powered_on_not_ready_since \in {None, r.now}
    <3>1. CASE s.node_ready
      BY <1>3, <3>1
    <3>2. CASE ~s.node_ready
      <4>1. old.powered_on_not_ready_since = None
        BY <1>4, <3>2 DEF SeenOn, Boots
      <4>2. boot_start(old, r.now) = r.now
        BY <2>2, <4>1 DEF boot_start
      <4> QED BY <1>3, <4>1, <4>2
    <3> QED BY <3>1, <3>2
  <2>4. TimeOfLast(s, {"PowerOn"}) # None => s.last_power_action.time + BootTimeout < m
    BY <1>1, <1>2, <1>4, <2>1
  <2> QED BY <1>1, <1>4, <2>2, <2>3, <2>4, NoneAssumption DEF Untouched
<1>5. CASE m \in {None, old.manual_power_on}
  <2>1. /\ m = old.manual_power_on /\ old.manual_power_on # None /\ m \in Nat /\ m < r.now
        /\ Untouched(old) /\ (old.boot_failure # None => old.boot_failure.left_on)
    BY <1>1, <1>2, <1>5 DEF Till, ByHand
  <2>2. m <= boot_start(old, r.now)
    BY <1>1, <1>2, <2>1 DEF boot_start, MinOf, Untouched
  <2>3. s.powered_on_not_ready_since # None => m <= s.powered_on_not_ready_since
    BY <1>3, <2>1, <2>2 DEF Untouched
  <2> HIDE DEF m
  <2>4. Untouched(s)
    BY <1>1, <1>2, <2>1, <2>3 DEF Untouched, m
  <2> QED BY <1>1, <1>3, <2>1, <2>4 DEF m
<1> QED BY <1>4, <1>5 DEF Gated

\* A handler that sends nothing leaves a machine turned on by hand untouched.
LEMMA UntouchedKept ==
  ASSUME NEW s \in Status, NEW t, NEW n \in Nat, Untouched(s),
         s.manual_power_on \in Nat, s.manual_power_on <= n,
         t.manual_power_on = s.manual_power_on,
         t.powered_on_not_ready_since = s.powered_on_not_ready_since,
         t.last_power_action = s.last_power_action,
         t.phase_since = n \/ (t.phase = s.phase /\ t.phase_since = s.phase_since)
  PROVE  Untouched(t)
BY DEF Untouched, TimeOfLast

\* Under Auto and LeaveOn a reconcile sends nothing to a machine that stays
\* recorded as turned on by hand.  The slack within which a boot counts as ours
\* must not exceed the boot timeout.
LEMMA HandleByHand ==
  ASSUME NEW r, Read(r), NEW p \in {"On", "Off"}, NEW fresh \in BOOLEAN,
         NEW s3, NEW ps, NEW ok \in BOOLEAN, Boots(r.old), Till(r.old, r.now - 1),
         r.policy = "Auto", ManualPolicy = "LeaveOn", OwnOnSlack <= BootTimeout, ByHand(r.old)
  PROVE  LET out == handle(r, p, fresh, s3, ps, ok)
         IN ByHand(out.st) /\ (out.st.manual_power_on # None => out.cmd = None)
<1> DEFINE s0      == sensed(r, p, fresh)
           tracked == track_boot(seen_off(r, s0), r.now)
           s       == manual_change(tracked.st, change_in(r, s0), r.now)
           e       == tracked.event
           target  == managed_target(r.policy, s)
           failed  == boot_failed(s, r, ok)
           still   == boot_still_failed(s, r, ok)
           obs     == Only(observe(s, r.now))
           on      == ensure_on(s, r, ok)
           off     == ensure_off(s, s3, ps, r, ok)
           res     == handle(r, p, fresh, s3, ps, ok)
           Fine(out) == ByHand(out.st) /\ (out.st.manual_power_on # None => out.cmd = None)
<1>1. \/ e = "Failed" /\ res = failed
      \/ e # "Failed" /\ failure_is_current(s) /\ res = still
      \/ e # "Failed" /\ res = obs
      \/ target # None /\ res = on
      \/ target # None /\ res = off
  BY Zenon DEF handle
<1>2. /\ target # None => s.manual_power_on = None
      /\ (target # None /\ r.policy = "Auto") => s.scaling_decision # None
  <2> HIDE DEF s
  <2> QED BY DEF managed_target, desired_target
<1>3. Gated(r, p, s, e)
  BY GatesKeep
<1> HIDE DEF s, e, target, res
<1>4. s \in Status /\ r.now \in Nat /\ s.last_power_action = r.old.last_power_action
  BY <1>3 DEF Gated, Read
<1>5. s.manual_power_on # None =>
        /\ Untouched(s) /\ s.manual_power_on \in Nat /\ s.manual_power_on <= r.now
        /\ e # "Failed" /\ s.boot_failure # None => s.boot_failure.left_on
  BY <1>3, GatedByHand
<1>6. CASE e = "Failed" /\ res = failed
  <2>1. LET leave == boot_failure_leaves_on(s, r.policy)
        IN /\ failed.st.manual_power_on = s.manual_power_on
           /\ failed.st.powered_on_not_ready_since = s.powered_on_not_ready_since
           /\ s.boot_failure = None => failed.st.boot_failure = None
           /\ s.boot_failure # None => failed.st.boot_failure.left_on = leave
           /\ \/ failed.st.phase_since = r.now
              \/ s.phase = "BootFailed" /\ failed.st.phase_since = s.phase_since
           /\ leave => /\ failed.cmd = None
                       /\ failed.st.last_power_action = s.last_power_action
           /\ failed.st.phase = "BootFailed"
    BY <1>4, BootFailedKeeps, BootFailedType
  <2>2. s.powered_on_not_ready_since = boot_start(r.old, r.now)
    BY <1>3, <1>6 DEF Gated
  <2>3. boot_start(r.old, r.now) \in Nat
    BY <1>4, StatusFields DEF Read, OptTime, boot_start, MinOf
  <2> HIDE DEF failed
  <2>4. ASSUME s.manual_power_on # None
        PROVE  boot_failure_leaves_on(s, r.policy)
    <3>1. /\ s.manual_power_on \in Nat /\ Untouched(s)
          /\ s.powered_on_not_ready_since \in Nat /\ OwnOnSlack \in Nat /\ BootTimeout \in Nat
      BY <1>5, <2>2, <2>3, <2>4, DurationAssumption
    <3>2. TimeOfLast(s, {"PowerOn"}) # None => s.last_power_action.time \in Nat
      BY <1>4, StatusFields DEF TimeOfLast, ActionRecords
    <3>3. ~boot_is_ours(s)
      BY <3>1, <3>2, NoneAssumption DEF boot_is_ours, Untouched
    <3> QED BY <3>3 DEF boot_failure_leaves_on
  <2>5. Fine(failed)
    <3> SUFFICES ASSUME failed.st.manual_power_on # None
                 PROVE  /\ Untouched(failed.st) /\ failed.cmd = None
                        /\ failed.st.boot_failure # None => failed.st.boot_failure.left_on
      BY DEF ByHand
    <3>1. boot_failure_leaves_on(s, r.policy)
      BY <2>1, <2>4
    <3>2. Untouched(failed.st)
      <4>1. failed.st.last_power_action = s.last_power_action
        BY <2>1, <3>1
      <4> QED BY <1>4, <1>5, <2>1, <4>1, UntouchedKept
    <3> QED BY <2>1, <3>1, <3>2
  <2> QED BY <1>6, <2>5 DEF res
<1>7. CASE e # "Failed" /\ failure_is_current(s) /\ res = still
  <2>1. /\ Keeps(s, still.st, r.now)
        /\ s.boot_failure.left_on =>
             still.cmd = None /\ still.st.last_power_action = s.last_power_action
    BY <1>4, BootStillFailedKeeps
  <2> HIDE DEF still
  <2>2. Fine(still)
    <3> SUFFICES ASSUME still.st.manual_power_on # None
                 PROVE  /\ Untouched(still.st) /\ still.cmd = None
                        /\ still.st.boot_failure # None => still.st.boot_failure.left_on
      BY DEF ByHand
    <3>1. s.manual_power_on # None /\ s.boot_failure.left_on
      BY <1>5, <1>7, <2>1 DEF Keeps, failure_is_current
    <3>2. Untouched(still.st)
      BY <1>4, <1>5, <2>1, <3>1, UntouchedKept DEF Keeps
    <3> QED BY <2>1, <3>1, <3>2 DEF Keeps
  <2> QED BY <1>7, <2>2 DEF res
<1>8. CASE e # "Failed" /\ res = obs
  <2>1. obs.st = observe(s, r.now) /\ obs.cmd = None
    BY OnlyFields
  <2>2. Keeps(s, obs.st, r.now) /\ obs.st.last_power_action = s.last_power_action
    BY <1>4, <2>1, ObserveKeeps DEF Regular
  <2> HIDE DEF obs
  <2>3. Fine(obs)
    <3> SUFFICES ASSUME obs.st.manual_power_on # None
                 PROVE  /\ Untouched(obs.st)
                        /\ obs.st.boot_failure # None => obs.st.boot_failure.left_on
      BY <2>1 DEF ByHand
    <3>1. Untouched(obs.st)
      BY <1>4, <1>5, <2>2, UntouchedKept DEF Keeps
    <3> QED BY <1>5, <1>8, <2>2, <3>1 DEF Keeps
  <2> QED BY <1>8, <2>3 DEF res
<1>9. CASE target # None /\ (res = on \/ res = off)
  <2>1. on.st.manual_power_on = s.manual_power_on /\ off.st.manual_power_on = s.manual_power_on
    <3>1. on.st.manual_power_on = s.manual_power_on
      BY <1>4, EnsureOnKeeps DEF Regular, Keeps, Released
    <3>2. off.st.manual_power_on = s.manual_power_on
      BY <1>2, <1>4, <1>9, EnsureOffKeeps DEF Regular, Keeps
    <3> QED BY <3>1, <3>2
  <2> HIDE DEF on, off
  <2>2. Fine(res)
    BY <1>2, <1>9, <2>1 DEF ByHand
  <2> QED BY <2>2 DEF res
<1> QED BY <1>1, <1>6, <1>7, <1>8, <1>9

-----------------------------------------------------------------------------
(* A live machine.                                                         *)

\* A machine with a Ready Node that reads On is sent no PowerOn, and is cut only
\* when its shutdown has overrun; one that reads Off, while its lease is fresh,
\* is sent a command only within OffGrace of a power-off of ours.
LEMMA HandleLive ==
  ASSUME NEW r, Read(r), NEW p \in {"On", "Off"}, NEW fresh \in BOOLEAN,
         NEW s3, NEW ps, NEW ok \in BOOLEAN, Boots(r.old), r.node.exists, r.node.ready
  PROVE  LET out == handle(r, p, fresh, s3, ps, ok)
         IN /\ p = "On" =>
                 /\ out.cmd # "PowerOn"
                 /\ out.cmd = "ForceOff" => /\ r.old.phase = "PoweringOff"
                                            /\ r.now - r.old.phase_since > ShutdownTimeout
            /\ p = "Off" /\ fresh /\ out.cmd # None =>
                 Within(TimeOfLast(r.old, OffActions), OffGrace, r.now)
<1> DEFINE s0      == sensed(r, p, fresh)
           tracked == track_boot(seen_off(r, s0), r.now)
           s       == manual_change(tracked.st, change_in(r, s0), r.now)
           e       == tracked.event
           target  == managed_target(r.policy, s)
           obs     == Only(observe(s, r.now))
           on      == ensure_on(s, r, ok)
           off     == ensure_off(s, s3, ps, r, ok)
           res     == handle(r, p, fresh, s3, ps, ok)
<1>1. Gated(r, p, s, e)
  BY GatesKeep
<1>2. s0.consistent => ~(p = "Off" /\ fresh
                         /\ ~Within(TimeOfLast(r.old, OffActions), OffGrace, r.now))
  <2> DEFINE s2 == [resolved(r) EXCEPT !.power_state = p]
  <2>1. r.old \in Status /\ resolved(r) \in Status
    BY ResolvedType DEF Read
  <2>2. resolved(r).node_ready /\ resolved(r).last_power_action = r.old.last_power_action
    BY <2>1 DEF resolved, Status
  <2>3. s2.node_ready /\ s2.power_state = p /\ s2.last_power_action = r.old.last_power_action
    BY <2>1, <2>2 DEF Status
  <2>4. s0.consistent = power_state_consistent(s2, fresh, r.now)
    BY <2>1 DEF sensed, Status
  <2> HIDE DEF s2, s0
  <2> QED BY <2>3, <2>4 DEF power_state_consistent, TimeOfLast
<1>3. /\ s \in Status /\ s.node_ready /\ s.power_state = p /\ s.boot_failure = None
      /\ e # "Failed" /\ r.now \in Nat
      /\ s.phase = r.old.phase /\ s.phase_since = r.old.phase_since
  BY <1>1 DEF Gated, Read
<1>4. \/ res = obs
      \/ s0.consistent /\ (res = on \/ (target # None /\ res = off))
  <2>1. /\ tracked.event # "Failed"
        /\ ~(~s.node_ready /\ s.power_state = "On" /\ failure_is_current(s))
    BY <1>3
  <2> HIDE DEF s
  <2> QED BY <2>1, Zenon DEF handle, s
<1>5. (target # None /\ r.policy = "Auto") => s.scaling_decision # None
  <2> HIDE DEF s
  <2> QED BY DEF managed_target, desired_target
<1> HIDE DEF s0, s, e, target, res
<1>6. obs.cmd = None
  BY OnlyFields
<1>7. p = "On" => on = online(s, r) /\ on.cmd = None
  BY <1>3, OnlineKeeps DEF ensure_on
<1>8. target # None => Stops(off.cmd, s, r.now)
  BY <1>3, <1>5, EnsureOffKeeps
<1> HIDE DEF obs, on, off
<1>9. s.phase = "PoweringOff" /\ in_phase_longer(s, ShutdownTimeout, r.now) =>
        r.now - r.old.phase_since > ShutdownTimeout
  BY <1>3 DEF Boots, in_phase_longer, Past
<1>10. p = "On" => /\ res.cmd # "PowerOn"
                   /\ res.cmd = "ForceOff" => /\ r.old.phase = "PoweringOff"
                                              /\ r.now - r.old.phase_since > ShutdownTimeout
  BY <1>3, <1>4, <1>6, <1>7, <1>8, <1>9, NoneAssumption DEF Stops
<1>11. p = "Off" /\ fresh /\ res.cmd # None =>
         Within(TimeOfLast(r.old, OffActions), OffGrace, r.now)
  BY <1>2, <1>4, <1>6
<1> QED BY <1>10, <1>11 DEF res

-----------------------------------------------------------------------------
(* Decisions, and the marker of a machine that is powered off.             *)

\* t goes on from s: with its decision or none, and no suspend unknown to s.
GoesOn(s, t) ==
  /\ t.scaling_decision \in {s.scaling_decision, None}
  /\ t.standby_since \in {s.standby_since, None}
  /\ t.consistent = s.consistent

\* A status that goes on from one that goes on from s goes on from s.
LEMMA GoesOnChain ==
  ASSUME NEW s, NEW t, NEW u, GoesOn(s, t), GoesOn(t, u)
  PROVE  GoesOn(s, u)
BY DEF GoesOn

\* Changes of the other fields go on.
LEMMA FieldsGoOn ==
  ASSUME NEW s \in Status, NEW x, NEW n
  PROVE  /\ GoesOn(s, s)
         /\ GoesOn(s, [s EXCEPT !.standby_failed_at = x])
         /\ GoesOn(s, [s EXCEPT !.forced_off_at = x])
         /\ GoesOn(s, [s EXCEPT !.phase_since = x])
         /\ GoesOn(s, [s EXCEPT !.manual_power_on = x])
         /\ GoesOn(s, [s EXCEPT !.powered_on_not_ready_since = x])
         /\ GoesOn(s, [s EXCEPT !.forced_off_at = x, !.standby_since = None])
         /\ GoesOn(s, [s EXCEPT !.standby_failed_at = x, !.standby_since = None])
         /\ GoesOn(s, [s EXCEPT !.boot_failure = x, !.scaling_decision = None])
         /\ GoesOn(s, [s EXCEPT !.powered_on_not_ready_since = None, !.boot_failure = None])
         /\ GoesOn(s, [s EXCEPT !.powered_on_not_ready_since = x, !.boot_failure = n])
BY DEF GoesOn, Status

\* So does entering a phase.
LEMMA SetPhaseGoesOn ==
  ASSUME NEW s \in Status, NEW p, NEW n
  PROVE  GoesOn(s, set_phase(s, p, n))
BY DEF set_phase, GoesOn, Status

\* And a command other than a suspend, which leaves the marker alone.
LEMMA SendGoesOn ==
  ASSUME NEW s \in Status, NEW a \in {"PowerOn", "PowerOff", "ForceOff"},
         NEW ok \in BOOLEAN, NEW n \in Nat
  PROVE  LET out == Send(s, a, ok, n)
         IN /\ out \in Outcomes /\ out.st \in Status /\ GoesOn(s, out.st)
            /\ out.cmd = a /\ out.mark = "keep" /\ out.st.phase = s.phase
<1> DEFINE done  == [action |-> a, time |-> n, succeeded |-> ok]
           since == IF a = "PowerOff" THEN None ELSE s.standby_since
<1>0. a \in Actions
  BY DEF Actions, OffActions
<1>1. act(s, a, ok, n) = [s EXCEPT !.last_power_action = done, !.standby_since = since]
  BY DEF act, Status
<1>2. since \in {s.standby_since, None}
  OBVIOUS
<1> HIDE DEF done, since
<1>3. GoesOn(s, act(s, a, ok, n))
  BY <1>1, <1>2 DEF GoesOn, Status
<1> QED BY <1>0, <1>3, SendType, SendKeeps

\* What ensure_on does with a machine that is not suspended: it may send
\* PowerOn to one that does not read On, and clears the marker of a Ready one.
OnSteady(out, s) ==
  /\ GoesOn(s, out.st)
  /\ out.cmd \in {None, "PowerOn"} /\ out.mark \in {"keep", "clear"}
  /\ out.cmd = "PowerOn" =>
       s.power_state # "On" /\ out.st.phase \in {"PoweringOn", "Error"}
  /\ out.mark = "clear" =>
       s.power_state = "On" /\ s.node_ready /\ out.st.phase = "On"
  /\ out.st.phase = "Off" => out.st.scaling_decision = None
  /\ out.st.phase \notin {"BootFailed", "Standby"}

\* A power-on is such a step.
LEMMA PowerOnSteady ==
  ASSUME NEW s \in Status, NEW r, Read(r), NEW ok \in BOOLEAN, s.power_state # "On"
  PROVE  /\ OnSteady(power_on(s, r, ok), s)
         /\ OnSteady([power_on(s, r, ok) EXCEPT !.cancel = TRUE], s)
<1> DEFINE out == Send(s, "PowerOn", ok, r.now)
           t   == set_phase(out.st, IF ok THEN "PoweringOn" ELSE "Error", r.now)
           res == power_on(s, r, ok)
<1>1. r.now \in Nat
  BY DEF Read
<1>2. /\ out \in Outcomes /\ out.st \in Status /\ GoesOn(s, out.st)
      /\ out.cmd = "PowerOn" /\ out.mark = "keep"
  BY <1>1, SendGoesOn
<1>3. res = [out EXCEPT !.st = t]
  BY <1>2 DEF power_on, Outcomes
<1>4. res \in Outcomes /\ res.st.phase \in {"PoweringOn", "Error"}
  BY PowerOnType
<1> HIDE DEF out
<1>5. GoesOn(s, t)
  BY <1>2, SetPhaseGoesOn, GoesOnChain, Zenon
<1> HIDE DEF t
<1>6. res.st = t /\ res.cmd = "PowerOn" /\ res.mark = "keep"
  BY <1>2, <1>3 DEF Outcomes
<1> HIDE DEF res
<1>7. OnSteady(res, s)
  BY <1>4, <1>5, <1>6 DEF OnSteady
<1>8. /\ [res EXCEPT !.cancel = TRUE].st = res.st
      /\ [res EXCEPT !.cancel = TRUE].cmd = res.cmd
      /\ [res EXCEPT !.cancel = TRUE].mark = res.mark
  BY <1>4 DEF Outcomes
<1>9. OnSteady([res EXCEPT !.cancel = TRUE], s)
  BY <1>7, <1>8 DEF OnSteady
<1> QED BY <1>7, <1>9 DEF res

\* uncordon_if_ours leaves the marker alone, clear_powered_off may clear it.
LEMMA NodeCallMarks ==
  ASSUME NEW out \in Outcomes, NEW r
  PROVE  /\ uncordon_if_ours(out, r).mark = out.mark
         /\ cordon(out, r).mark = out.mark
         /\ clear_powered_off(out, r).mark \in {out.mark, "clear"}
BY DEF uncordon_if_ours, cordon, clear_powered_off, Outcomes

\* So is the end of a power-on.
LEMMA OnlineSteady ==
  ASSUME NEW s \in Status, NEW r, Read(r), s.power_state = "On", s.node_ready
  PROVE  OnSteady(online(s, r), s)
<1> DEFINE t == set_phase(s, "On", r.now)
           u == [t EXCEPT !.forced_off_at = None, !.standby_since = None]
           a == uncordon_if_ours(Only(u), r)
           res == online(s, r)
<1>0. r.now \in Nat /\ "On" \in Phases
  BY DEF Read, Phases
<1>1. t \in Status /\ GoesOn(s, t)
  BY <1>0, SetPhaseType, SetPhaseGoesOn, Zenon
<1>2. res = clear_powered_off(a, r)
  BY DEF online
<1> HIDE DEF t
<1>3. u \in Status
  BY <1>1, TimeIsOptTime, ZenonT(20) DEF Status
<1>4. GoesOn(s, u)
  BY <1>1, FieldsGoOn, GoesOnChain, Zenon
<1> HIDE DEF u
<1>5. Only(u) \in Outcomes /\ Only(u).st = u /\ Only(u).mark = "keep"
  BY <1>3, OnlyType, Zenon
<1>6. a \in Outcomes /\ a.st = u /\ a.mark = "keep"
  <2> HIDE DEF res
  <2> DEFINE o == Only(u)
  <2>1. o \in Outcomes /\ o.st = u /\ o.mark = "keep"
    BY <1>5
  <2> HIDE DEF o
  <2>2. /\ uncordon_if_ours(o, r) \in Outcomes /\ uncordon_if_ours(o, r).st = o.st
        /\ uncordon_if_ours(o, r).mark = o.mark
    BY <2>1, NodeCallTypes, NodeCallMarks, Zenon
  <2>3. a = uncordon_if_ours(o, r)
    BY DEF o
  <2> QED BY <2>1, <2>2, <2>3
<1> HIDE DEF a
<1>7. res.st = u /\ res.mark \in {"keep", "clear"}
  <2>1. clear_powered_off(a, r).st = a.st /\ clear_powered_off(a, r).mark \in {a.mark, "clear"}
    BY <1>6, NodeCallTypes, NodeCallMarks, Zenon
  <2> HIDE DEF res
  <2> QED BY <1>2, <1>6, <2>1
<1>8. res.st.phase = "On" /\ res.cmd = None
  BY OnlineType, OnlineKeeps
<1> HIDE DEF res
<1>9. OnSteady(res, s)
  BY <1>4, <1>7, <1>8, NoneAssumption DEF OnSteady
<1> QED BY <1>9 DEF res

\* And waiting for it.
LEMMA StillPoweringOnSteady ==
  ASSUME NEW s \in Status, s.phase = "PoweringOn", NEW r, Read(r), NEW ok \in BOOLEAN,
         s.standby_since = None
  PROVE  OnSteady(still_powering_on(s, r, ok), s)
<1> DEFINE on  == Send(s, "PowerOn", ok, r.now)
           res == still_powering_on(s, r, ok)
<1>1. \/ res = on /\ s.power_state # "On"
      \/ res = Only(s)
  BY Zenon DEF still_powering_on
<1>2. r.now \in Nat
  BY DEF Read
<1>3. /\ GoesOn(s, on.st) /\ on.cmd = "PowerOn" /\ on.mark = "keep"
      /\ on.st.phase = "PoweringOn"
  BY <1>2, SendGoesOn
<1>4. Only(s).st = s /\ Only(s).cmd = None /\ Only(s).mark = "keep" /\ GoesOn(s, s)
  BY OnlyFields, OnlyType, FieldsGoOn, Zenon
<1> HIDE DEF on, res
<1>5. OnSteady(res, s)
  BY <1>1, <1>3, <1>4, NoneAssumption DEF OnSteady
<1> QED BY <1>5 DEF res

\* And giving it up while the power is not on.
LEMMA ReleaseSteady ==
  ASSUME NEW s \in Status, NEW r, Read(r), NEW ok \in BOOLEAN, s.power_state # "On"
  PROVE  OnSteady(release_failed_power_on(s, r, ok), s)
<1> DEFINE failedAt == IF s.standby_since # None THEN r.now ELSE s.standby_failed_at
           failure  == [time |-> r.now, left_on |-> FALSE]
           released == [s EXCEPT !.standby_failed_at = failedAt, !.boot_failure = failure,
                                 !.scaling_decision = None, !.standby_since = None]
           off      == set_phase(released, "Off", r.now)
<1>1. release_failed_power_on(s, r, ok) = Only(off)
  <2>1. released = [s EXCEPT
               !.standby_failed_at = IF s.standby_since # None THEN r.now ELSE @,
               !.boot_failure = [time |-> r.now, left_on |-> FALSE],
               !.scaling_decision = None, !.standby_since = None]
    BY DEF released, Status
  <2> HIDE DEF released
  <2> QED BY <2>1, Zenon DEF release_failed_power_on
<1>2. r.now \in Nat /\ r.now \in OptTime /\ None \in OptTime /\ "Off" \in Phases
  BY TimeIsOptTime DEF Read, Phases
<1>3. failedAt \in OptTime /\ failure \in BootFailures
  BY <1>2, StatusFields DEF BootFailures
<1> HIDE DEF failedAt, failure
<1>4. released \in Status /\ GoesOn(s, released) /\ released.scaling_decision = None
  <2>1. released \in Status
    BY <1>2, <1>3, ZenonT(20) DEF Status
  <2> QED BY <2>1 DEF GoesOn, Status
<1> HIDE DEF released
<1>5. off.phase = "Off" /\ GoesOn(s, off) /\ off.scaling_decision = None
  <2>1. off.phase = "Off" /\ GoesOn(released, off)
    BY <1>2, <1>4, SetPhaseType, SetPhaseGoesOn, Zenon
  <2> HIDE DEF off
  <2>2. GoesOn(s, off)
    BY <1>4, <2>1, GoesOnChain, Zenon
  <2> QED BY <1>4, <2>1, <2>2 DEF GoesOn
<1> HIDE DEF off
<1>6. Only(off).st = off /\ Only(off).cmd = None /\ Only(off).mark = "keep"
  BY DEF Only
<1> QED BY <1>1, <1>5, <1>6, NoneAssumption DEF OnSteady

\* Whatever ensure_on does, then.
LEMMA EnsureOnSteady ==
  ASSUME NEW s \in Status, NEW r, Read(r), NEW ok \in BOOLEAN, s.standby_since = None
  PROVE  OnSteady(ensure_on(s, r, ok), s)
<1> DEFINE t     == set_phase(s, "PoweringOn", r.now)
           up    == uncordon_if_ours(Only(t), r)
           on    == power_on(s, r, ok)
           live  == online(s, r)
           freed == release_failed_power_on(s, r, ok)
           still == still_powering_on(s, r, ok)
           res   == ensure_on(s, r, ok)
<1>1. \/ s.power_state = "On" /\ s.node_ready /\ res = live
      \/ s.power_state # "On" /\ res = freed
      \/ s.phase = "PoweringOn" /\ res = still
      \/ s.phase = "PoweringOff" /\ res = Only(s)
      \/ res = up
      \/ s.phase = "Error" /\ res = Only(s)
      \/ s.power_state # "On" /\ res = on
  BY Zenon DEF ensure_on, power_on_expired
<1>2. "PoweringOn" \in Phases /\ r.now \in Nat
  BY DEF Phases, Read
<1>3. t \in Status /\ t.phase = "PoweringOn" /\ GoesOn(s, t)
  BY <1>2, SetPhaseType, SetPhaseGoesOn, Zenon
<1> HIDE DEF t, res
<1>4. OnSteady(up, s)
  <2> DEFINE o == Only(t)
  <2>1. o \in Outcomes /\ o.st = t /\ o.cmd = None /\ o.mark = "keep"
    BY <1>3, OnlyType, OnlyFields
  <2> HIDE DEF o
  <2>2. /\ uncordon_if_ours(o, r).st = o.st /\ uncordon_if_ours(o, r).cmd = o.cmd
        /\ uncordon_if_ours(o, r).mark = o.mark
    BY <2>1, NodeCallTypes, NodeCallsKeep, NodeCallMarks, Zenon
  <2>3. up = uncordon_if_ours(o, r)
    BY DEF o
  <2> HIDE DEF up
  <2> QED BY <1>3, <2>1, <2>2, <2>3, NoneAssumption DEF OnSteady
<1>5. s.phase \in {"PoweringOff", "Error"} => OnSteady(Only(s), s)
  <2>1. Only(s).st = s /\ Only(s).cmd = None /\ Only(s).mark = "keep" /\ GoesOn(s, s)
    BY OnlyFields, OnlyType, FieldsGoOn, Zenon
  <2> QED BY <2>1, NoneAssumption DEF OnSteady
<1>6. /\ s.power_state = "On" /\ s.node_ready => OnSteady(live, s)
      /\ s.power_state # "On" => OnSteady(freed, s) /\ OnSteady(on, s)
      /\ s.phase = "PoweringOn" => OnSteady(still, s)
  BY OnlineSteady, ReleaseSteady, PowerOnSteady, StillPoweringOnSteady
<1> HIDE DEF up, on, live, freed, still
<1> QED BY <1>1, <1>4, <1>5, <1>6 DEF res

\* What ensure_off does with a machine that is not to be suspended, when drains
\* are forced: it sends nothing to one that reads Off, and otherwise marks the
\* Node or is in PoweringOff already.
OffSteady(out, s) ==
  /\ GoesOn(s, out.st)
  /\ out.cmd \in {None, "PowerOff", "ForceOff"} /\ out.mark \in {"keep", "mark"}
  /\ out.cmd # None => out.mark = "mark" \/ s.phase = "PoweringOff"
  /\ s.power_state = "Off" => out.cmd = None /\ out.st.phase = "Off"
  /\ out.st.phase \notin {"BootFailed", "Standby"}

\* A power-off is such a step.
LEMMA PowerOffSteady ==
  ASSUME NEW s \in Status, NEW s3, NEW r, Read(r), NEW ok \in BOOLEAN,
         PowerOffMode = "Shutdown", s.power_state # "Off"
  PROVE  OffSteady(power_off(s, s3, r, ok), s)
<1> DEFINE a   == off_action(s, s3, r.now)
           out == Send(s, a, ok, r.now)
           t   == set_phase(out.st, "PoweringOff", r.now)
<1>1. r.now \in Nat /\ a = "PowerOff"
  BY DEF Read, off_action
<1> HIDE DEF a
<1>2. /\ out \in Outcomes /\ out.st \in Status /\ GoesOn(s, out.st)
      /\ out.cmd = "PowerOff"
  BY <1>1, SendGoesOn
<1>3. power_off(s, s3, r, ok) = [out EXCEPT !.st = t, !.mark = "mark"]
  BY <1>2 DEF power_off, out, a, t, Outcomes
<1> HIDE DEF out
<1>4. GoesOn(s, t) /\ t.phase = "PoweringOff"
  <2>1. GoesOn(out.st, t)
    BY <1>2, SetPhaseGoesOn, Zenon
  <2>2. "PoweringOff" \in Phases
    BY DEF Phases
  <2>3. t.phase = "PoweringOff"
    BY <1>1, <1>2, <2>2, SetPhaseType, Zenon
  <2> HIDE DEF t
  <2> QED BY <1>2, <2>1, <2>3, GoesOnChain, Zenon
<1> HIDE DEF t
<1>5. LET x == [out EXCEPT !.st = t, !.mark = "mark"]
      IN x.st = t /\ x.mark = "mark" /\ x.cmd = out.cmd
  BY <1>2 DEF Outcomes
<1> QED BY <1>2, <1>3, <1>4, <1>5 DEF OffSteady

\* A forced drain powers off or waits.
LEMMA DrainSteady ==
  ASSUME NEW s \in Status, s.phase = "Draining", NEW s3, NEW ps, NEW r, Read(r),
         NEW ok \in BOOLEAN, PowerOffMode = "Shutdown", ForceAfterDrainTimeout,
         s.power_state # "Off"
  PROVE  OffSteady(drain(s, s3, ps, r, ok), s)
<1> DEFINE off == power_off(s, s3, r, ok)
           Ev(out) == [out EXCEPT !.evict = TRUE]
           res == drain(s, s3, ps, r, ok)
<1>1. off \in Outcomes /\ OffSteady(off, s)
  BY PowerOffType, PowerOffSteady
<1>2. Only(s) \in Outcomes /\ OffSteady(Only(s), s)
  <2>1. /\ Only(s) \in Outcomes /\ Only(s).st = s /\ Only(s).cmd = None
        /\ Only(s).mark = "keep" /\ GoesOn(s, s)
    BY OnlyType, OnlyFields, FieldsGoOn, Zenon
  <2> QED BY <2>1, NoneAssumption DEF OffSteady
<1>3. res = Ev(off) \/ res = Ev(Only(s))
  BY DEF drain
<1> HIDE DEF off, res
<1>4. \A out \in Outcomes : /\ Ev(out).st = out.st /\ Ev(out).cmd = out.cmd
                             /\ Ev(out).mark = out.mark
  BY DEF Outcomes
<1> HIDE DEF Ev
<1> QED BY <1>1, <1>2, <1>3, <1>4 DEF OffSteady, res

\* Waiting for the power-off repeats it or cuts the power.
LEMMA StillPoweringOffSteady ==
  ASSUME NEW s \in Status, s.phase = "PoweringOff", NEW s3, NEW r, Read(r), NEW ok \in BOOLEAN,
         PowerOffMode = "Shutdown", s.standby_since = None, s.power_state # "Off"
  PROVE  OffSteady(still_powering_off(s, s3, r, ok), s)
<1> DEFINE res   == still_powering_off(s, s3, r, ok)
           cut   == Send(s, "ForceOff", ok, r.now)
           cutSt == [cut.st EXCEPT !.forced_off_at = r.now, !.standby_since = None]
           a     == off_action(s, s3, r.now)
           again == Send(s, a, ok, r.now)
<1>1. \/ res = [cut EXCEPT !.st.forced_off_at = r.now, !.st.standby_since = None]
      \/ res = again
      \/ res = Only(s)
  BY Zenon DEF still_powering_off
<1>2. r.now \in Nat /\ a = "PowerOff"
  BY DEF Read, off_action
<1> HIDE DEF res, a
<1>3. /\ cut \in Outcomes /\ cut.st \in Status /\ GoesOn(s, cut.st)
      /\ cut.cmd = "ForceOff" /\ cut.mark = "keep" /\ cut.st.phase = "PoweringOff"
  BY <1>2, SendGoesOn
<1>4. GoesOn(s, again.st) /\ again.cmd = "PowerOff" /\ again.mark = "keep"
      /\ again.st.phase = "PoweringOff"
  BY <1>2, SendGoesOn
<1> HIDE DEF cut, again
<1>5. GoesOn(s, cutSt)
  <2>1. GoesOn(cut.st, cutSt)
    BY <1>3, FieldsGoOn, Zenon
  <2> HIDE DEF cutSt
  <2> QED BY <1>3, <2>1, GoesOnChain, Zenon
<1>6. cutSt.phase = "PoweringOff"
  BY <1>3 DEF Status
<1>7. [cut EXCEPT !.st.forced_off_at = r.now, !.st.standby_since = None] = [cut EXCEPT !.st = cutSt]
  BY <1>3 DEF Outcomes
<1> HIDE DEF cutSt
<1>8. LET x == [cut EXCEPT !.st = cutSt]
      IN x.st = cutSt /\ x.cmd = "ForceOff" /\ x.mark = "keep"
  BY <1>3 DEF Outcomes
<1>9. Only(s).st = s /\ Only(s).cmd = None /\ Only(s).mark = "keep" /\ GoesOn(s, s)
  BY OnlyFields, OnlyType, FieldsGoOn, Zenon
<1> QED BY <1>1, <1>4, <1>5, <1>6, <1>7, <1>8, <1>9, NoneAssumption DEF OffSteady, res

\* Whatever ensure_off does, then.
LEMMA EnsureOffSteady ==
  ASSUME NEW s \in Status, NEW s3, NEW ps, NEW r, Read(r), NEW ok \in BOOLEAN,
         PowerOffMode = "Shutdown", ForceAfterDrainTimeout, s.standby_since = None
  PROVE  OffSteady(ensure_off(s, s3, ps, r, ok), s)
<1> DEFINE t     == set_phase(s, "Off", r.now)
           quiet == [t EXCEPT !.forced_off_at = None]
           d     == set_phase(s, "Draining", r.now)
           start == cordon(Only(d), r)
           still == still_powering_off(s, s3, r, ok)
           drn   == drain(s, s3, ps, r, ok)
           res   == ensure_off(s, s3, ps, r, ok)
<1>1. woke_by_itself(s, r.now) = s /\ ~in_standby(s)
  BY DEF woke_by_itself, in_standby
<1>2. \/ s.power_state = "Off" /\ res = Only(quiet)
      \/ /\ s.power_state # "Off"
         /\ \/ s.phase = "PoweringOff" /\ res = still
            \/ s.phase = "Draining" /\ res = drn
            \/ res = start
  BY <1>1 DEF ensure_off
<1>3. r.now \in Nat /\ "Off" \in Phases /\ "Draining" \in Phases
  BY DEF Read, Phases
<1>4. /\ t \in Status /\ t.phase = "Off" /\ GoesOn(s, t)
      /\ d \in Status /\ d.phase = "Draining" /\ GoesOn(s, d)
  BY <1>3, SetPhaseType, SetPhaseGoesOn, Zenon
<1> HIDE DEF t, d, res
<1>5. GoesOn(s, quiet) /\ quiet.phase = "Off"
  <2>1. GoesOn(t, quiet)
    BY <1>4, FieldsGoOn, Zenon
  <2>2. quiet.phase = "Off"
    BY <1>4 DEF Status
  <2> HIDE DEF quiet
  <2> QED BY <1>4, <2>1, <2>2, GoesOnChain, Zenon
<1> HIDE DEF quiet
<1>6. OffSteady(Only(quiet), s)
  <2>1. Only(quiet).st = quiet /\ Only(quiet).cmd = None /\ Only(quiet).mark = "keep"
    BY DEF Only
  <2> QED BY <1>5, <2>1 DEF OffSteady
<1>7. s.power_state # "Off" => OffSteady(start, s)
  <2> DEFINE o == Only(d)
  <2>1. o \in Outcomes /\ o.st = d /\ o.cmd = None /\ o.mark = "keep"
    BY <1>4, OnlyType, OnlyFields
  <2> HIDE DEF o
  <2>2. /\ cordon(o, r).st = o.st /\ cordon(o, r).cmd = o.cmd /\ cordon(o, r).mark = o.mark
    BY <2>1, NodeCallTypes, NodeCallsKeep, NodeCallMarks, Zenon
  <2>3. start = cordon(o, r)
    BY DEF o
  <2> HIDE DEF start
  <2> QED BY <1>4, <2>1, <2>2, <2>3 DEF OffSteady
<1>8. s.power_state # "Off" =>
        /\ s.phase = "PoweringOff" => OffSteady(still, s)
        /\ s.phase = "Draining" => OffSteady(drn, s)
  BY StillPoweringOffSteady, DrainSteady
<1> HIDE DEF start, still, drn
<1> QED BY <1>2, <1>6, <1>7, <1>8 DEF res

\* A failed boot drops the decision, and marks the Node unless the machine is
\* left on.
LEMMA BootFailedSteady ==
  ASSUME NEW s \in Status, NEW r, Read(r), NEW ok \in BOOLEAN
  PROVE  LET out == boot_failed(s, r, ok)
         IN /\ GoesOn(s, out.st) /\ out.st.scaling_decision = None
            /\ out.cmd \in {None, "PowerOff"} /\ out.mark \in {"keep", "mark"}
            /\ out.mark # "mark" =>
                 /\ out.cmd = None
                 /\ out.st.boot_failure # None => out.st.boot_failure.left_on
<1> DEFINE leave  == boot_failure_leaves_on(s, r.policy)
           note   == IF s.boot_failure = None THEN None ELSE [s.boot_failure EXCEPT !.left_on = leave]
           u      == [s EXCEPT !.boot_failure = note, !.scaling_decision = None]
           failed == set_phase(u, "BootFailed", r.now)
           sent   == Send(failed, "PowerOff", ok, r.now)
           out    == [sent EXCEPT !.mark = "mark"]
           res    == boot_failed(s, r, ok)
<1>1. r.now \in Nat /\ "BootFailed" \in Phases
  BY DEF Read, Phases
<1>2. leave \in BOOLEAN
  BY Zenon DEF boot_failure_leaves_on
<1>3. res = IF leave THEN Only(failed) ELSE out
  BY DEF boot_failed, Status
<1> HIDE DEF leave, res
<1>4. /\ note \in BootFailures \cup {None}
      /\ leave /\ note # None => note.left_on
  BY <1>2, StatusFields DEF BootFailures
<1> HIDE DEF note
<1>5. /\ u \in Status /\ GoesOn(s, u) /\ u.scaling_decision = None /\ u.boot_failure = note
  <2>1. u \in Status
    BY <1>4, ZenonT(20) DEF Status
  <2> QED BY <2>1 DEF GoesOn, Status
<1> HIDE DEF u
<1>6. failed \in Status /\ GoesOn(u, failed) /\ failed.boot_failure = note
  <2>1. failed \in Status /\ GoesOn(u, failed) /\ Keeps(u, failed, r.now)
    BY <1>1, <1>5, SetPhaseType, SetPhaseGoesOn, SetPhaseKeeps, Zenon
  <2> QED BY <1>5, <2>1 DEF Keeps
<1> HIDE DEF failed
<1>7. sent \in Outcomes /\ GoesOn(failed, sent.st) /\ sent.cmd = "PowerOff"
  BY <1>1, <1>6, SendGoesOn
<1> HIDE DEF sent
<1>8. out.st = sent.st /\ out.cmd = "PowerOff" /\ out.mark = "mark"
  BY <1>7 DEF Outcomes
<1> HIDE DEF out
<1>9. Only(failed).st = failed /\ Only(failed).cmd = None /\ Only(failed).mark = "keep"
  BY DEF Only
<1>10. GoesOn(s, failed) /\ GoesOn(s, sent.st) /\ GoesOn(u, sent.st)
  BY <1>5, <1>6, <1>7, GoesOnChain, Zenon
<1>11. GoesOn(s, res.st) /\ res.st.scaling_decision = None
  BY <1>3, <1>5, <1>6, <1>8, <1>9, <1>10 DEF GoesOn
<1>12. /\ res.cmd \in {None, "PowerOff"} /\ res.mark \in {"keep", "mark"}
       /\ res.mark # "mark" => leave /\ res.cmd = None /\ res.st.boot_failure = note
  BY <1>3, <1>6, <1>8, <1>9
<1> QED BY <1>4, <1>11, <1>12 DEF res

\* One that stays failed is cut without another mark, unless it was left on.
LEMMA BootStillFailedSteady ==
  ASSUME NEW s \in Status, NEW r, Read(r), NEW ok \in BOOLEAN
  PROVE  LET out == boot_still_failed(s, r, ok)
         IN /\ GoesOn(s, out.st) /\ out.mark = "keep"
            /\ out.cmd = None \/ (out.cmd = "ForceOff" /\ ~s.boot_failure.left_on)
<1> DEFINE failed == set_phase(s, "BootFailed", r.now)
           sent   == Send(failed, "ForceOff", ok, r.now)
           cutSt  == [sent.st EXCEPT !.forced_off_at = r.now]
           res    == boot_still_failed(s, r, ok)
<1>1. \/ res = [sent EXCEPT !.st.forced_off_at = r.now] /\ ~s.boot_failure.left_on
      \/ res = Only(failed)
  BY Zenon DEF boot_still_failed
<1>2. r.now \in Nat /\ "BootFailed" \in Phases
  BY DEF Read, Phases
<1>3. failed \in Status /\ GoesOn(s, failed)
  BY <1>2, SetPhaseType, SetPhaseGoesOn, Zenon
<1> HIDE DEF failed, res
<1>4. /\ sent \in Outcomes /\ sent.st \in Status /\ GoesOn(failed, sent.st)
      /\ sent.cmd = "ForceOff" /\ sent.mark = "keep"
  BY <1>2, <1>3, SendGoesOn
<1> HIDE DEF sent
<1>5. GoesOn(s, cutSt)
  <2>1. GoesOn(sent.st, cutSt)
    BY <1>4, FieldsGoOn, Zenon
  <2> HIDE DEF cutSt
  <2> QED BY <1>3, <1>4, <2>1, GoesOnChain, Zenon
<1>6. [sent EXCEPT !.st.forced_off_at = r.now] = [sent EXCEPT !.st = cutSt]
  BY <1>4 DEF Outcomes
<1> HIDE DEF cutSt
<1>7. LET x == [sent EXCEPT !.st = cutSt]
      IN x.st = cutSt /\ x.cmd = "ForceOff" /\ x.mark = "keep"
  BY <1>4 DEF Outcomes
<1>8. Only(failed).st = failed /\ Only(failed).cmd = None /\ Only(failed).mark = "keep"
  BY DEF Only
<1> QED BY <1>1, <1>3, <1>5, <1>6, <1>7, <1>8 DEF res

\* observe goes on, and takes a machine that reads Off for one in Off.
LEMMA ObserveSteady ==
  ASSUME NEW s \in Status, NEW n \in Nat, s.standby_since = None
  PROVE  /\ GoesOn(s, observe(s, n))
         /\ observe(s, n).phase \in {"On", "PoweringOn", "Off", "Unknown"}
         /\ s.power_state = "Off" => observe(s, n).phase = "Off"
<1> DEFINE p == CASE s.power_state = "On"  -> IF s.node_ready THEN "On" ELSE "PoweringOn"
                  [] s.power_state = "Off" -> "Off"
                  [] OTHER                 -> "Unknown"
<1>1. /\ p \in {"On", "PoweringOn", "Off", "Unknown"} /\ p \in Phases
      /\ s.power_state = "Off" => p = "Off"
  BY DEF Phases
<1>2. observe(s, n) = set_phase(s, p, n)
  BY DEF observe, in_standby
<1> HIDE DEF p
<1>3. GoesOn(s, set_phase(s, p, n)) /\ set_phase(s, p, n).phase = p
  BY <1>1, SetPhaseType, SetPhaseGoesOn, Zenon
<1> QED BY <1>1, <1>2, <1>3

\* What the gates make of the decision: it is that of the stored status, by a
\* pool that still selects the machine, or none; and a change by hand that they
\* record drops it.
LEMMA GatesDecide ==
  ASSUME NEW r, Read(r), NEW p \in {"On", "Off"}, NEW fresh \in BOOLEAN,
         r.old.standby_since = None
  PROVE  LET s0      == sensed(r, p, fresh)
             tracked == track_boot(seen_off(r, s0), r.now)
             s       == manual_change(tracked.st, change_in(r, s0), r.now)
         IN /\ s.scaling_decision \in {r.old.scaling_decision, None}
            /\ s.scaling_decision # None => s.scaling_decision.pool \in s.pools
            /\ s.pools = r.member
            /\ s.standby_since = None /\ s.consistent = s0.consistent
            /\ s.manual_power_on \in {None, r.old.manual_power_on} \/ s.scaling_decision = None
<1> DEFINE d  == r.old.scaling_decision
           s0 == sensed(r, p, fresh)
           s1 == seen_off(r, s0)
           tr == track_boot(s1, r.now)
           t  == tr.st
           c  == change_in(r, s0)
           s  == manual_change(t, c, r.now)
           Same(x, y) == GoesOn(x, y) /\ y.pools = x.pools
<1>1. p \in PowerStates /\ r.now \in Nat /\ r.old \in Status
  BY DEF PowerStates, Read
<1>2. /\ s0 \in Status /\ s0.pools = r.member /\ s0.standby_since = None
      /\ s0.scaling_decision \in {d, None}
      /\ s0.scaling_decision # None => s0.scaling_decision.pool \in r.member
      /\ s0.manual_power_on = r.old.manual_power_on
  <2> DEFINE ready == r.node.exists /\ r.node.ready
             kept  == IF d # None /\ d.pool \notin r.member THEN None ELSE d
             x     == resolved(r)
             y     == [x EXCEPT !.power_state = p]
             cs    == power_state_consistent(y, fresh, r.now)
  <2>1. x \in Status
    BY ResolvedType
  <2>2. x = [r.old EXCEPT !.node_ready = ready, !.pools = r.member, !.scaling_decision = kept]
    BY <1>1 DEF resolved, Status
  <2>3. /\ kept \in {d, None} /\ (kept # None => kept.pool \in r.member)
    OBVIOUS
  <2> HIDE DEF kept, ready
  <2>4. /\ x.pools = r.member /\ x.standby_since = None /\ x.scaling_decision = kept
        /\ x.manual_power_on = r.old.manual_power_on
    BY <1>1, <2>2 DEF Status
  <2> HIDE DEF x
  <2>5. s0 = [y EXCEPT !.consistent = cs]
    BY DEF sensed, x
  <2> HIDE DEF cs
  <2>6. /\ s0.pools = x.pools /\ s0.standby_since = x.standby_since
        /\ s0.scaling_decision = x.scaling_decision /\ s0.manual_power_on = x.manual_power_on
    BY <2>1, <2>5 DEF Status
  <2>7. s0 \in Status
    BY <1>1, SensedType
  <2> HIDE DEF s0, y
  <2> QED BY <2>3, <2>4, <2>6, <2>7
<1> HIDE DEF s0, d
<1>3. /\ s1 \in Status /\ Same(s0, s1)
      /\ s1.manual_power_on \in {None, s0.manual_power_on}
  <2>1. s1 \in Status
    BY <1>2, SeenOffType
  <2> QED BY <1>2, <2>1 DEF seen_off, GoesOn, Status
<1> HIDE DEF s1
<1>4. t \in Status /\ Same(s1, t) /\ t.manual_power_on = s1.manual_power_on
  <2> DEFINE since   == boot_start(s1, r.now)
             tracked == [s1 EXCEPT !.powered_on_not_ready_since = since]
             failure == [time |-> r.now, left_on |-> FALSE]
             ready   == [s1 EXCEPT !.powered_on_not_ready_since = None, !.boot_failure = None]
             dark    == [s1 EXCEPT !.powered_on_not_ready_since = None]
             failed  == [tracked EXCEPT !.boot_failure = failure]
             Fine(y) == Same(s1, y) /\ y.manual_power_on = s1.manual_power_on
  <2>1. t \in Status
    BY <1>1, <1>3, TrackBootType
  <2>2. t \in {ready, dark, s1, failed, tracked}
    <3> HIDE DEF tracked, failure, ready, dark
    <3> QED BY Zenon DEF track_boot, tracked, failure, ready, dark
  <2> HIDE DEF since, failure
  <2>3. Fine(ready) /\ Fine(dark) /\ Fine(s1)
    BY <1>3 DEF GoesOn, Status
  <2>4. Fine(tracked)
    BY <1>3 DEF GoesOn, Status
  <2>5. Fine(failed)
    BY <1>3 DEF GoesOn, Status
  <2> HIDE DEF tracked, ready, dark, failed, t
  <2> QED BY <2>1, <2>2, <2>3, <2>4, <2>5
<1> HIDE DEF t
<1>5. /\ Same(t, s)
      /\ s.manual_power_on \in {None, t.manual_power_on} \/ s.scaling_decision = None
  <2> DEFINE kept == IF t.boot_failure # None /\ t.boot_failure.left_on THEN None ELSE t.boot_failure
             on   == [t EXCEPT !.manual_power_on = r.now, !.scaling_decision = None,
                               !.standby_since = None, !.boot_failure = None]
             off  == [t EXCEPT !.manual_power_on = None, !.manual_power_off = r.now,
                               !.scaling_decision = None, !.boot_failure = kept]
  <2>1. s \in {on, off, t}
    BY <1>4 DEF manual_change, Status
  <2> HIDE DEF kept
  <2>2. Same(t, on) /\ on.scaling_decision = None
    BY <1>4 DEF GoesOn, Status
  <2>3. Same(t, off) /\ off.scaling_decision = None
    BY <1>4 DEF GoesOn, Status
  <2> HIDE DEF on, off, s
  <2> QED BY <2>1, <2>2, <2>3 DEF GoesOn
<1> HIDE DEF s
<1>6. Same(s0, s)
  <2>1. GoesOn(s0, s)
    BY <1>3, <1>4, <1>5, GoesOnChain, Zenon
  <2> QED BY <1>3, <1>4, <1>5, <2>1
<1>7. s.manual_power_on \in {None, r.old.manual_power_on} \/ s.scaling_decision = None
  BY <1>2, <1>3, <1>4, <1>5
<1>8. /\ s.scaling_decision \in {d, None} /\ s.standby_since = None /\ s.consistent = s0.consistent
      /\ s.scaling_decision # None => s.scaling_decision.pool \in s.pools
      /\ s.pools = r.member
  BY <1>2, <1>6 DEF GoesOn
<1> QED BY <1>7, <1>8 DEF s, t, s1, s0, c, d

\* A boot failure taken for the boot in progress already was in the status the
\* reconcile read, or had left the machine in BootFailed.
LEMMA CurrentWas ==
  ASSUME NEW r, Read(r), NEW p \in {"On", "Off"}, NEW s, NEW e, Gated(r, p, s, e), e # "Failed",
         Boots(r.old), Till(r.old, r.now - 1), failure_is_current(s)
  PROVE  /\ s.boot_failure = r.old.boot_failure
         /\ r.old.phase = "BootFailed" \/ failure_is_current(r.old)
<1>1. r.old \in Status /\ r.now \in Nat
  BY DEF Read
<1>2. s.boot_failure = r.old.boot_failure /\ r.old.boot_failure # None
  BY DEF Gated, failure_is_current
<1>3. /\ r.old.boot_failure.time \in Nat /\ r.old.boot_failure.time < r.now
      /\ r.old.phase_since \in Nat \cup {None}
  BY <1>1, <1>2, StatusFields DEF Till, BootFailures, OptTime
<1>4. /\ s.powered_on_not_ready_since \in {r.old.powered_on_not_ready_since, boot_start(r.old, r.now)}
      /\ s.powered_on_not_ready_since # None
      /\ s.powered_on_not_ready_since <= r.old.boot_failure.time
  BY <1>2 DEF Gated, failure_is_current
<1>5. CASE r.old.powered_on_not_ready_since # None
  <2>1. boot_start(r.old, r.now) = r.old.powered_on_not_ready_since
    BY <1>5 DEF boot_start
  <2> QED BY <1>2, <1>4, <1>5, <2>1 DEF failure_is_current
<1>6. CASE r.old.powered_on_not_ready_since = None
  <2>1. boot_start(r.old, r.now) <= r.old.boot_failure.time
    BY <1>4, <1>6
  <2>2. ASSUME r.old.phase # "BootFailed" PROVE FALSE
    <3>1. r.old.phase = "PoweringOn" =>
            r.old.phase_since # None /\ r.old.phase_since > r.old.boot_failure.time
      BY <1>2 DEF Boots
    <3> QED BY <1>1, <1>3, <1>6, <2>1, <2>2, <3>1 DEF boot_start, MinOf
  <2> QED BY <1>2, <2>2
<1> QED BY <1>2, <1>5, <1>6

\* A machine that a pool has decided to turn on.
WantedOn(x) == x.scaling_decision # None /\ x.scaling_decision.target = "On"

\* A machine that is to be off because its boot failed.
OffForFailure(x) ==
  /\ x.boot_failure # None /\ ~x.boot_failure.left_on
  /\ x.phase = "BootFailed" \/ failure_is_current(x)

\* What a reconcile that read r and p may do to a machine that is shut down to
\* be turned off, and never suspended.
Decided(out, r, p) ==
  /\ out.st.standby_since = None /\ out.st.phase # "Standby"
  /\ out.st.scaling_decision \in {r.old.scaling_decision, None}
  /\ out.st.manual_power_on # None =>
       out.st.manual_power_on = r.old.manual_power_on \/ out.st.scaling_decision = None
  /\ out.st.phase = "Off" =>
       /\ p = "Off"
       /\ WantedOn(out.st) /\ out.st.consistent =>
            ManualPolicy = "LeaveOn" /\ out.st.manual_power_on # None
  /\ p = "Off" /\ ~WantedOn(r.old) => out.st.phase = "Off" /\ out.cmd = None
  /\ out.cmd \in {None, "PowerOn", "PowerOff", "ForceOff"}
  /\ out.cmd = "PowerOn" =>
       p = "Off" /\ WantedOn(r.old) /\ out.st.phase \in {"PoweringOn", "Error"}
  /\ out.cmd = "PowerOff" => ~WantedOn(out.st)
  /\ out.cmd \in {"PowerOff", "ForceOff"} =>
       \/ out.mark = "mark"
       \/ out.mark = "keep" /\ (r.old.phase = "PoweringOff" \/ OffForFailure(r.old))
  /\ out.mark = "clear" =>
       /\ p = "On" /\ WantedOn(r.old) /\ out.cmd = None
       /\ out.st.phase = "On" /\ out.st.boot_failure = None
  /\ OffForFailure(out.st) => out.mark = "mark" \/ OffForFailure(r.old)

\* What managed_target says of the decision it follows under powerPolicy Auto.
LEMMA TargetDecides ==
  ASSUME NEW s \in Status, s.scaling_decision # None => s.scaling_decision.pool \in s.pools
  PROVE  LET target == managed_target("Auto", s)
         IN /\ target \in {None, "On", "Off"}
            /\ target = "On" => WantedOn(s)
            /\ target = "Off" => s.scaling_decision # None /\ ~WantedOn(s)
            /\ target = None /\ WantedOn(s) =>
                 ManualPolicy = "LeaveOn" /\ s.manual_power_on # None
<1>1. s.scaling_decision # None => s.scaling_decision.target \in {"On", "Off"}
  BY DEF Status, Decisions, Targets
<1>2. desired_target("Auto", s) = IF s.scaling_decision # None THEN s.scaling_decision.target ELSE None
  BY DEF desired_target
<1> QED BY <1>1, <1>2, NoneAssumption DEF managed_target, WantedOn

\* What a reconcile does under powerPolicy Auto to a machine that is never
\* suspended and whose drains are forced.
LEMMA HandleDecided ==
  ASSUME NEW r, Read(r), NEW p \in {"On", "Off"}, NEW fresh \in BOOLEAN,
         NEW s3, NEW ps, NEW ok \in BOOLEAN, Boots(r.old), Till(r.old, r.now - 1),
         r.policy = "Auto", r.node.exists \/ r.member = {},
         PowerOffMode = "Shutdown", ForceAfterDrainTimeout, r.old.standby_since = None
  PROVE  Decided(handle(r, p, fresh, s3, ps, ok), r, p)
<1> DEFINE s0      == sensed(r, p, fresh)
           tracked == track_boot(seen_off(r, s0), r.now)
           s       == manual_change(tracked.st, change_in(r, s0), r.now)
           e       == tracked.event
           target  == managed_target(r.policy, s)
           failed  == boot_failed(s, r, ok)
           still   == boot_still_failed(s, r, ok)
           obs     == Only(observe(s, r.now))
           on      == ensure_on(s, r, ok)
           off     == ensure_off(s, s3, ps, r, ok)
           res     == handle(r, p, fresh, s3, ps, ok)
<1>1. \/ e = "Failed" /\ res = failed
      \/ e # "Failed" /\ s.power_state = "On" /\ failure_is_current(s) /\ res = still
      \/ e # "Failed" /\ (~r.node.exists \/ ~s0.consistent \/ target = None) /\ res = obs
      \/ e # "Failed" /\ target = "On" /\ res = on
      \/ e # "Failed" /\ target # None /\ target # "On" /\ res = off
  BY Zenon DEF handle
<1>2. /\ s.scaling_decision \in {r.old.scaling_decision, None}
      /\ s.scaling_decision # None => s.scaling_decision.pool \in s.pools
      /\ s.pools = r.member
      /\ s.standby_since = None /\ s.consistent = s0.consistent
      /\ s.manual_power_on \in {None, r.old.manual_power_on} \/ s.scaling_decision = None
  BY GatesDecide
<1>3. Gated(r, p, s, e)
  BY GatesKeep
<1> DEFINE c == s0.consistent
<1> HIDE DEF c, s, e
<1>4. s \in Status /\ r.now \in Nat /\ s.phase = r.old.phase /\ s.power_state = p
  BY <1>3 DEF Gated, Read
<1>5. /\ target \in {None, "On", "Off"}
      /\ target = "On" => WantedOn(s)
      /\ target = "Off" => s.scaling_decision # None /\ ~WantedOn(s)
      /\ target = None /\ WantedOn(s) =>
           ManualPolicy = "LeaveOn" /\ s.manual_power_on # None
  BY <1>2, <1>4, TargetDecides
<1> HIDE DEF target, res
<1>6. \A t : GoesOn(s, t) =>
        /\ t.standby_since = None /\ t.scaling_decision \in {r.old.scaling_decision, None}
        /\ t.consistent = c
        /\ WantedOn(t) => WantedOn(s) /\ t.scaling_decision = s.scaling_decision
        /\ t.manual_power_on = s.manual_power_on /\ t.manual_power_on # None =>
             t.manual_power_on = r.old.manual_power_on \/ t.scaling_decision = None
  BY <1>2 DEF GoesOn, WantedOn, c
<1>7. WantedOn(s) => WantedOn(r.old)
  BY <1>2 DEF WantedOn
<1>8. \A t : /\ e # "Failed" /\ OffForFailure(t)
             /\ t.boot_failure = s.boot_failure
             /\ t.powered_on_not_ready_since = s.powered_on_not_ready_since
             /\ t.phase = "BootFailed" => failure_is_current(s)
             => OffForFailure(r.old)
  <2> SUFFICES ASSUME NEW t, e # "Failed", OffForFailure(t), t.boot_failure = s.boot_failure,
                      t.powered_on_not_ready_since = s.powered_on_not_ready_since,
                      t.phase = "BootFailed" => failure_is_current(s)
               PROVE  OffForFailure(r.old)
    OBVIOUS
  <2>1. failure_is_current(s)
    BY DEF OffForFailure, failure_is_current
  <2>2. /\ s.boot_failure = r.old.boot_failure
        /\ r.old.phase = "BootFailed" \/ failure_is_current(r.old)
    BY <1>3, <2>1, CurrentWas
  <2> QED BY <2>2 DEF OffForFailure
<1>9. CASE e = "Failed" /\ res = failed
  <2>1. /\ GoesOn(s, failed.st) /\ failed.st.scaling_decision = None
        /\ failed.cmd \in {None, "PowerOff"} /\ failed.mark \in {"keep", "mark"}
        /\ failed.mark # "mark" =>
             /\ failed.cmd = None
             /\ failed.st.boot_failure # None => failed.st.boot_failure.left_on
        /\ failed.st.phase = "BootFailed"
    BY <1>4, BootFailedSteady, BootFailedType
  <2> HIDE DEF failed
  <2>2. p = "On"
    BY <1>3, <1>9 DEF Gated
  <2>3. Decided(failed, r, p)
    BY <1>6, <2>1, <2>2, NoneAssumption DEF Decided, WantedOn, OffForFailure
  <2> QED BY <1>9, <2>3 DEF res
<1>10. CASE e # "Failed" /\ s.power_state = "On" /\ failure_is_current(s) /\ res = still
  <2>1. /\ GoesOn(s, still.st) /\ still.mark = "keep"
        /\ still.cmd = None \/ (still.cmd = "ForceOff" /\ ~s.boot_failure.left_on)
        /\ Keeps(s, still.st, r.now) /\ still.st.phase = "BootFailed"
    BY <1>4, BootStillFailedSteady, BootStillFailedKeeps, BootStillFailedType
  <2> HIDE DEF still
  <2>2. OffForFailure(still.st) => OffForFailure(r.old)
    BY <1>8, <1>10, <2>1 DEF Keeps
  <2>3. still.cmd # None => OffForFailure(r.old)
    BY <1>10, <2>1, <2>2 DEF Keeps, OffForFailure, failure_is_current
  <2>4. Decided(still, r, p)
    BY <1>4, <1>6, <1>10, <2>1, <2>2, <2>3, NoneAssumption DEF Decided, Keeps
  <2> QED BY <1>10, <2>4 DEF res
<1>11. CASE e # "Failed" /\ (~r.node.exists \/ ~c \/ target = None) /\ res = obs
  <2>1. /\ GoesOn(s, observe(s, r.now)) /\ Regular(observe(s, r.now), s, r.now)
        /\ observe(s, r.now).phase \in {"On", "PoweringOn", "Off", "Unknown"}
        /\ s.power_state = "Off" => observe(s, r.now).phase = "Off"
    BY <1>2, <1>4, ObserveSteady, ObserveKeeps
  <2>2. obs.st = observe(s, r.now) /\ obs.cmd = None /\ obs.mark = "keep"
    BY DEF Only
  <2> HIDE DEF obs
  <2>3. /\ GoesOn(s, obs.st) /\ Keeps(s, obs.st, r.now)
        /\ obs.st.phase \in {"On", "PoweringOn", "Off", "Unknown"}
        /\ obs.st.phase = "Off" => s.power_state = "Off"
        /\ s.power_state = "Off" => obs.st.phase = "Off"
    BY <2>1, <2>2 DEF Regular
  <2>4. OffForFailure(obs.st) => OffForFailure(r.old)
    BY <1>8, <1>11, <2>3 DEF Keeps
  <2>5. WantedOn(obs.st) /\ obs.st.consistent => ManualPolicy = "LeaveOn" /\ obs.st.manual_power_on # None
    BY <1>2, <1>5, <1>6, <1>11, <2>3 DEF Keeps, WantedOn
  <2>6. Decided(obs, r, p)
    BY <1>4, <1>6, <2>2, <2>3, <2>4, <2>5, NoneAssumption DEF Decided, Keeps
  <2> QED BY <1>11, <2>6 DEF res
<1>12. CASE e # "Failed" /\ target = "On" /\ res = on
  <2>1. OnSteady(on, s) /\ (Regular(on.st, s, r.now) \/ Released(on.st, s, r.now))
    BY <1>2, <1>4, EnsureOnSteady, EnsureOnKeeps
  <2> HIDE DEF on
  <2>2. WantedOn(s) /\ WantedOn(r.old)
    BY <1>5, <1>7, <1>12
  <2>3. /\ GoesOn(s, on.st) /\ on.st.manual_power_on = s.manual_power_on
        /\ on.st.phase = "Off" => p = "Off" /\ ~WantedOn(on.st)
    BY <1>4, <2>1 DEF OnSteady, Regular, Released, Keeps, WantedOn
  <2>4. on.mark = "clear" =>
          p = "On" /\ on.cmd = None /\ on.st.phase = "On" /\ on.st.boot_failure = None
    BY <1>3, <1>4, <2>1 DEF OnSteady, Regular, Released, Keeps, Gated
  <2>5. OffForFailure(on.st) => OffForFailure(r.old)
    <3>1. CASE Regular(on.st, s, r.now)
      BY <1>8, <1>12, <3>1 DEF Regular, Keeps
    <3>2. CASE Released(on.st, s, r.now)
      <4>1. on.st.phase = "Off" /\ on.st.powered_on_not_ready_since = None
        BY <1>3, <1>4, <2>1, <3>2 DEF OnSteady, Released, Gated
      <4> QED BY <4>1 DEF OffForFailure, failure_is_current
    <3> QED BY <2>1, <3>1, <3>2
  <2>6. /\ on.cmd \in {None, "PowerOn"} /\ on.st.phase # "Standby"
        /\ on.cmd = "PowerOn" => p = "Off" /\ on.st.phase \in {"PoweringOn", "Error"}
    BY <1>4, <2>1 DEF OnSteady
  <2>7. Decided(on, r, p)
    BY <1>6, <2>2, <2>3, <2>4, <2>5, <2>6, NoneAssumption DEF Decided
  <2> QED BY <1>12, <2>7 DEF res
<1>13. CASE e # "Failed" /\ target = "Off" /\ res = off
  <2>1. /\ OffSteady(off, s) /\ Regular(off.st, s, r.now)
        /\ off.cmd # "PowerOn"
    BY <1>2, <1>4, <1>5, <1>13, EnsureOffSteady, EnsureOffKeeps, NoneAssumption DEF Stops
  <2> HIDE DEF off
  <2>2. ~WantedOn(off.st)
    BY <1>5, <1>6, <1>13, <2>1 DEF OffSteady
  <2>3. OffForFailure(off.st) => OffForFailure(r.old)
    BY <1>8, <1>13, <2>1 DEF Regular, Keeps
  <2>4. Decided(off, r, p)
    BY <1>4, <1>6, <2>1, <2>2, <2>3, NoneAssumption DEF Decided, OffSteady, Regular, Keeps
  <2> QED BY <1>13, <2>4 DEF res
<1> QED BY <1>1, <1>5, <1>9, <1>10, <1>11, <1>12, <1>13 DEF c

-----------------------------------------------------------------------------
(* When a boot failure can be recorded.                                    *)

\* What x records of a boot dates from time w on.
BootedFrom(x, w) ==
  /\ x.powered_on_not_ready_since # None => x.powered_on_not_ready_since >= w
  /\ x.phase \in {"PoweringOn", "BootFailed"} /\ x.phase_since # None => x.phase_since >= w

\* At time n the boot that x records has overrun its timeout, and so has the
\* decision of x to turn the machine on.
BootOverran(x, n)    == n - boot_start(x, n) > BootTimeout
PowerOnOverran(x, n) == WantedOn(x) /\ n - x.scaling_decision.time > PowerOnTimeout

\* The start of a boot that the gates find dates from then on too.
LEMMA GatedFrom ==
  ASSUME NEW r, Read(r), NEW p, NEW s, NEW e, Gated(r, p, s, e),
         NEW w \in Int, w <= r.now, BootedFrom(r.old, w), NEW t,
         t.powered_on_not_ready_since = s.powered_on_not_ready_since,
         t.phase_since = r.now \/ (t.phase = s.phase /\ t.phase_since = s.phase_since)
  PROVE  BootedFrom(t, w)
<1>1. r.old \in Status /\ r.now \in Nat /\ s.phase = r.old.phase /\ s.phase_since = r.old.phase_since
  BY DEF Read, Gated
<1>2. r.old.phase_since \in Nat \cup {None} /\ r.old.powered_on_not_ready_since \in Nat \cup {None}
  BY <1>1, StatusFields DEF OptTime
<1>3. boot_start(r.old, r.now) >= w
  BY <1>1, <1>2 DEF BootedFrom, boot_start, MinOf
<1>4. s.powered_on_not_ready_since
        \in {None, r.old.powered_on_not_ready_since, boot_start(r.old, r.now)}
  BY DEF Gated
<1>5. t.powered_on_not_ready_since # None => t.powered_on_not_ready_since >= w
  BY <1>3, <1>4 DEF BootedFrom
<1> QED BY <1>1, <1>5 DEF BootedFrom

\* A reconcile of a machine that is not suspended keeps what is recorded of a
\* boot as recent as it was.  It records a boot failure only when a timeout has
\* been overrun, and drops the decision with it.
LEMMA HandleFailure ==
  ASSUME NEW r, Read(r), NEW p \in {"On", "Off"}, NEW fresh \in BOOLEAN,
         NEW s3, NEW ps, NEW ok \in BOOLEAN, r.policy = "Auto", r.old.standby_since = None
  PROVE  LET new == handle(r, p, fresh, s3, ps, ok).st
         IN /\ \A w \in Int : w <= r.now /\ BootedFrom(r.old, w) => BootedFrom(new, w)
            /\ \/ new.boot_failure \in {r.old.boot_failure, None}
               \/ /\ new.scaling_decision = None
                  /\ BootOverran(r.old, r.now) \/ PowerOnOverran(r.old, r.now)
<1> DEFINE s0      == sensed(r, p, fresh)
           tracked == track_boot(seen_off(r, s0), r.now)
           s       == manual_change(tracked.st, change_in(r, s0), r.now)
           e       == tracked.event
           target  == managed_target(r.policy, s)
           failed  == boot_failed(s, r, ok)
           still   == boot_still_failed(s, r, ok)
           obs     == Only(observe(s, r.now))
           on      == ensure_on(s, r, ok)
           off     == ensure_off(s, s3, ps, r, ok)
           res     == handle(r, p, fresh, s3, ps, ok)
           \* The two facts of an outcome's status, from those that imply them.
           Dated(t) == /\ t.powered_on_not_ready_since = s.powered_on_not_ready_since
                       /\ t.phase_since = r.now \/ (t.phase = s.phase /\ t.phase_since = s.phase_since)
           Dates(t) == \A w \in Int : w <= r.now /\ BootedFrom(r.old, w) => BootedFrom(t, w)
           Cause(t) == \/ t.boot_failure \in {r.old.boot_failure, None}
                       \/ /\ t.scaling_decision = None
                          /\ BootOverran(r.old, r.now) \/ PowerOnOverran(r.old, r.now)
           Fine(t)  == Dates(t) /\ Cause(t)
<1>1. \/ e = "Failed" /\ res = failed
      \/ e # "Failed" /\ res = still
      \/ e # "Failed" /\ res = obs
      \/ e # "Failed" /\ res = on
      \/ e # "Failed" /\ target # None /\ target # "On" /\ res = off
  BY Zenon DEF handle
<1>2. (target # None /\ r.policy = "Auto") => s.scaling_decision # None
  <2> HIDE DEF s
  <2> QED BY DEF managed_target, desired_target
<1>3. Gated(r, p, s, e)
  BY GatesKeep
<1>4. s.standby_since = None /\ s.scaling_decision \in {r.old.scaling_decision, None}
  BY GatesDecide
<1> HIDE DEF s, e, target, res
<1>5. s \in Status /\ r.now \in Nat
  BY <1>3 DEF Gated, Read
<1>6. \A t : Dated(t) => Dates(t)
  BY <1>3, GatedFrom
<1>7. \A t : e # "Failed" /\ Keeps(s, t, r.now) => Fine(t)
  BY <1>3, <1>6 DEF Keeps, Gated
<1> HIDE DEF Dates
<1>8. CASE e = "Failed" /\ res = failed
  <2>1. Dated(failed.st)
    BY <1>5, BootFailedType, BootFailedKeeps
  <2>2. BootOverran(r.old, r.now) /\ failed.st.scaling_decision = None
    BY <1>3, <1>5, <1>8, BootFailedSteady DEF Gated, BootOverran
  <2> HIDE DEF failed
  <2>3. Fine(failed.st)
    BY <1>6, <2>1, <2>2
  <2> QED BY <1>8, <2>3 DEF res, Dates
<1>9. CASE e # "Failed" /\ res = still
  <2>1. Keeps(s, still.st, r.now)
    BY <1>5, BootStillFailedKeeps
  <2> HIDE DEF still
  <2> QED BY <1>7, <1>9, <2>1 DEF res, Dates
<1>10. CASE e # "Failed" /\ res = obs
  <2>1. Keeps(s, obs.st, r.now)
    BY <1>5, ObserveKeeps, OnlyFields DEF Regular
  <2> HIDE DEF obs
  <2> QED BY <1>7, <1>10, <2>1 DEF res, Dates
<1>11. CASE e # "Failed" /\ res = on
  <2>1. \/ Keeps(s, on.st, r.now)
        \/ power_on_expired(s, r.now) /\ Released(on.st, s, r.now)
    BY <1>5, EnsureOnKeeps DEF Regular
  <2>2. on.st.phase # "BootFailed" /\ (on.st.phase = "Off" => on.st.scaling_decision = None)
    BY <1>4, <1>5, EnsureOnSteady DEF OnSteady
  <2> HIDE DEF on
  <2>3. CASE power_on_expired(s, r.now) /\ Released(on.st, s, r.now)
    <3>1. PowerOnOverran(r.old, r.now)
      BY <1>4, <2>3 DEF power_on_expired, PowerOnOverran, WantedOn
    <3>2. /\ on.st.phase = "Off" /\ on.st.scaling_decision = None
          /\ on.st.powered_on_not_ready_since = s.powered_on_not_ready_since
      BY <2>2, <2>3 DEF Released
    <3>3. Dates(on.st)
      <4> SUFFICES ASSUME NEW w \in Int, w <= r.now, BootedFrom(r.old, w)
                   PROVE  BootedFrom(on.st, w)
        BY DEF Dates
      <4>1. BootedFrom(s, w)
        BY <1>3, GatedFrom
      <4> QED BY <3>2, <4>1 DEF BootedFrom
    <3> QED BY <1>11, <3>1, <3>2, <3>3 DEF res, Dates
  <2>4. CASE Keeps(s, on.st, r.now)
    BY <1>7, <1>11, <2>4 DEF res, Dates
  <2> QED BY <2>1, <2>3, <2>4
<1>12. CASE e # "Failed" /\ target # None /\ target # "On" /\ res = off
  <2>1. Keeps(s, off.st, r.now)
    BY <1>2, <1>5, <1>12, EnsureOffKeeps DEF Regular
  <2> HIDE DEF off
  <2> QED BY <1>7, <1>12, <2>1 DEF res, Dates
<1> QED BY <1>1, <1>8, <1>9, <1>10, <1>11, <1>12
=============================================================================
