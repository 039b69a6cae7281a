----------------------------- MODULE Autoscaler -----------------------------
(***************************************************************************)
(* The NodeScalingPool controller (src/controller/node_scaling_pool.rs)    *)
(* over a fleet of machines and the pods of a cluster.  Pools may overlap  *)
(* and are reconciled concurrently; each reconcile                         *)
(*                                                                         *)
(*   Plan      takes its snapshot of the caches and plans,                 *)
(*   Decide    writes one scalingDecision at a time,                       *)
(*   PatchPool merges the new status into the pool's stored one:           *)
(*             lastScaleUpTime, unneededSince and releasable,              *)
(*                                                                         *)
(* and an API error (or the death of the process) ends it in between.      *)
(* The machines are Lifecycle seen from afar: they carry out decisions,    *)
(* without failures, manual changes or boot failures.                      *)
(***************************************************************************)
EXTENDS ScalingPlan

CONSTANTS
  Pools,
  Machines,     \* sequence of the machines, in listing order
  Members,      \* pool -> the machines its nodeSelector selects
  PoolSpec,     \* pool -> its settings
  Size,         \* machine -> its allocatable amount
  Pods,         \* the pods that may be created
  Request,      \* pod -> its request
  Admits,       \* pod -> the machines it may run on
  InitiallyOn,  \* the machines that are on at the start
  Running,      \* the pods that run at the start, on different machines
  MaxTime,      \* bound on the clock
  MaxFailures   \* bound on API errors and crashes

Fleet == Range(Machines)

ASSUME FleetAssumption ==
  /\ Machines \in Seq(Fleet) /\ InitiallyOn \subseteq Fleet
  /\ {"pending", "none"} \cap Fleet = {}
  /\ \A n \in Fleet : Size[n] \in Nat
  /\ IsFiniteSet(Pods)
  /\ \A x \in Pods : Request[x] \in 1..LargestPod /\ Admits[x] \subseteq Fleet
  /\ MaxTime \in Nat /\ MaxFailures \in Nat

ASSUME PoolAssumption ==
  \A p \in Pools :
    /\ Members[p] \subseteq Fleet
    /\ PoolSpec[p].order \in Seq(Fleet) /\ Range(PoolSpec[p].order) = Fleet
    /\ PoolSpec[p].min_online \in Nat /\ PoolSpec[p].max_online \in Nat
    /\ PoolSpec[p].up_step \in Nat /\ PoolSpec[p].down_step \in Nat
    /\ PoolSpec[p].unneeded \in Nat /\ PoolSpec[p].hold \in Nat

VARIABLES
  fleet,     \* machine -> [phase, decision]: status of its config
  where,     \* pod -> the machine it is bound to, "pending" or "none"
  pool,      \* pool -> its stored status
  rec,       \* pool -> its reconcile in progress
  now,
  failures,
  woke,      \* history: pool -> when it last wrote a power-on decision
  idle_since \* history: pool -> machine -> since when every plan that the
             \* pool stored has found it unneeded

vars == <<fleet, where, pool, rec, now, failures, woke, idle_since>>

Times == Nat \cup {NoTime}
Undecided == [pool |-> "", target |-> ""]
PoolStatus == [last_scale_up : Times, unneeded_since : [Fleet -> Times], releasable : SUBSET Fleet]
Decision == [machine : Fleet, target : {"On", "Off"}]
Idle == [pc |-> "idle"]

TypeOK ==
  /\ fleet \in [Fleet -> [phase : {"Off", "PoweringOn", "On", "Draining"},
                          decision : [pool : Pools, target : {"On", "Off"}] \cup {Undecided}]]
  /\ where \in [Pods -> Fleet \cup {"pending", "none"}]
  /\ pool \in [Pools -> PoolStatus]
  /\ rec \in [Pools -> {Idle} \cup [pc : {"decide"}, todo : Seq(Decision), new : PoolStatus]]
  /\ now \in Nat /\ failures \in Nat /\ woke \in [Pools -> Times]
  /\ idle_since \in [Pools -> [Fleet -> Times]]

-----------------------------------------------------------------------------
(* What a pool sees.                                                       *)

pods_on(n) == {x \in Pods : where[x] = n}
used(n) == FoldSet(LAMBDA x, sum : sum + Request[x], 0, pods_on(n))

\* member_state, for powerPolicy Auto and a consistent power state.  Only pools
\* that select the machine decide on it.
member_state(n) ==
  CASE fleet[n].decision.target = "Off" ->
         IF fleet[n].phase = "Off" THEN "Offline" ELSE "Leaving"
    [] fleet[n].decision.target = "On" ->
         IF fleet[n].phase = "On" THEN "Online" ELSE "Booting"
    [] OTHER -> CASE fleet[n].phase = "On"         -> "Online"
                  [] fleet[n].phase = "PoweringOn" -> "Booting"
                  [] fleet[n].phase = "Off"        -> "Offline"
                  [] OTHER                         -> "Leaving"

PodView(x) == [size |-> Request[x], on |-> Admits[x], created |-> 0,
               selects |-> TRUE, extended |-> FALSE]

\* No pod blocks, no drain failed, nobody powered a machine on by hand.
build_member(n) ==
  [ state |-> member_state(n), auto |-> TRUE, size |-> Size[n],
    used |-> used(n), counted |-> used(n),
    pods |-> LET order == SetToSeq(pods_on(n)) IN [i \in DOMAIN order |-> PodView(order[i])],
    blocking |-> FALSE, registering |-> FALSE,
    drain_failed_at |-> NoTime, adopted_at |-> NoTime, release_after |-> NoTime ]

selecting(n) == {p \in Pools : n \in Members[p]}

\* Mutant: another pool lets go of a machine as soon as it finds it unneeded.
needed_by_others(p, n) ==
  \E q \in selecting(n) \ {p} : pool[q].unneeded_since[n] = NoTime

\* Some other pool that selects the machine does not list it as releasable.
other_pools_holding(p, n) ==
  \E q \in selecting(n) \ {p} : n \notin pool[q].releasable

snapshot(p) ==
  LET pending == SetToSeq({x \in Pods : where[x] = "pending"})
  IN [ spec           |-> PoolSpec[p],
       members        |-> [n \in Members[p] |-> build_member(n)],
       listing        |-> among(Machines, Members[p]),
       pending        |-> [i \in DOMAIN pending |-> PodView(pending[i])],
       external       |-> << >>,
       unneeded_since |-> pool[p].unneeded_since,
       last_scale_up  |-> pool[p].last_scale_up,
       now            |-> now,
       kept_by_others |-> {n \in Members[p] : other_pools_holding(p, n)} ]

-----------------------------------------------------------------------------
(* The reconcile of a pool.                                                *)

Plan(p) ==
  /\ rec[p] = Idle
  /\ LET s  == snapshot(p)
         pl == plan(s)
     IN rec' = [rec EXCEPT ![p] =
          [ pc    |-> "decide",
            todo  |-> [i \in DOMAIN pl.power_on |-> [machine |-> pl.power_on[i], target |-> "On"]]
                   \o [i \in DOMAIN pl.power_off |-> [machine |-> pl.power_off[i], target |-> "Off"]],
            new   |-> [ last_scale_up  |-> IF pl.power_on # <<>> THEN now ELSE pool[p].last_scale_up,
                        unneeded_since |-> [n \in Fleet |-> IF n \in Members[p]
                                              THEN pl.unneeded_since[n] ELSE NoTime],
                        releasable     |-> pl.releasable ] ]]
  /\ UNCHANGED <<fleet, where, pool, now, failures, woke, idle_since>>

\* Mutant: the decision does not carry the name of the pool.
Decide_unstamped(p) ==
  /\ rec[p].pc = "decide" /\ rec[p].todo # <<>>
  /\ LET d == Head(rec[p].todo)
     IN /\ fleet' = [fleet EXCEPT ![d.machine].decision = [target |-> d.target]]
        /\ woke' = IF d.target = "On" THEN [woke EXCEPT ![p] = now] ELSE woke
  /\ rec' = [rec EXCEPT ![p].todo = Tail(@)]
  /\ UNCHANGED <<where, pool, now, failures, idle_since>>

\* decide(): overwrites the scalingDecision of one machine.
Decide(p) ==
  /\ rec[p].pc = "decide" /\ rec[p].todo # <<>>
  /\ LET d == Head(rec[p].todo)
     IN /\ fleet' = [fleet EXCEPT ![d.machine].decision = [pool |-> p, target |-> d.target]]
        /\ woke' = IF d.target = "On" THEN [woke EXCEPT ![p] = now] ELSE woke
  /\ rec' = [rec EXCEPT ![p].todo = Tail(@)]
  /\ UNCHANGED <<where, pool, now, failures, idle_since>>

\* unneededSince after the JSON merge patch of patch_status_diff.  A field that
\* did not change is left out of the patch; a map that became empty is not
\* serialized, so its field is removed; any other map is merged entry by entry,
\* and an entry that the new map lacks stays.
merged(old, new) ==
  IF new = old \/ \A n \in Fleet : new[n] = NoTime THEN new
  ELSE [n \in Fleet |-> IF new[n] = NoTime THEN old[n] ELSE new[n]]

\* The other fields are replaced.  Only p's reconcile writes pool[p], so the
\* status the patch is computed against is the stored one.
PatchPool(p) ==
  LET new == rec[p].new
  IN /\ rec[p].pc = "decide" /\ rec[p].todo = <<>>
     /\ pool' = [pool EXCEPT ![p] = [new EXCEPT !.unneeded_since =
                                      merged(pool[p].unneeded_since, new.unneeded_since)]]
     /\ idle_since' = [idle_since EXCEPT ![p] =
          [n \in Fleet |-> CASE new.unneeded_since[n] = NoTime -> NoTime
                             [] new.unneeded_since[n] # NoTime /\ @[n] # NoTime -> @[n]
                             [] new.unneeded_since[n] # NoTime /\ @[n] = NoTime -> now]]
     /\ rec' = [rec EXCEPT ![p] = Idle]
     /\ UNCHANGED <<fleet, where, now, failures, woke>>

\* A patch fails, or the operator dies: nothing more of this reconcile happens.
ReconcileFails(p) ==
  /\ failures < MaxFailures /\ rec[p].pc = "decide"
  /\ rec' = [rec EXCEPT ![p] = Idle]
  /\ failures' = failures + 1
  /\ UNCHANGED <<fleet, where, pool, now, woke, idle_since>>

-----------------------------------------------------------------------------
(* The machines carry out decisions.                                       *)

Moves(n, from, to) ==
  /\ fleet[n].phase = from
  /\ fleet' = [fleet EXCEPT ![n].phase = to]
  /\ UNCHANGED <<where, pool, rec, now, failures, woke, idle_since>>

PowersOn(n)  == fleet[n].decision.target = "On" /\ Moves(n, "Off", "PoweringOn")
BecomesOn(n) == Moves(n, "PoweringOn", "On")
Drains(n)    == /\ fleet[n].decision.target = "Off"
                /\ Moves(n, "On", "Draining") \/ Moves(n, "PoweringOn", "Draining")
PowersOff(n) == /\ fleet[n].decision.target = "Off" /\ pods_on(n) = {}
                /\ Moves(n, "Draining", "Off")

(* The cluster.                                                            *)

Rebinds(x, to) == /\ where' = [where EXCEPT ![x] = to]
                  /\ UNCHANGED <<fleet, pool, rec, now, failures, woke, idle_since>>

PodCreated(x) == where[x] = "none" /\ Rebinds(x, "pending")
PodBound(x)   == /\ where[x] = "pending"
                 /\ \E n \in Admits[x] : /\ fleet[n].phase = "On"
                                         /\ used(n) + Request[x] <= Size[n]
                                         /\ Rebinds(x, n)
PodDone(x)    == where[x] \in Fleet /\ Rebinds(x, "none")
PodEvicted(x) == /\ where[x] \in Fleet
                 /\ fleet[where[x]].phase = "Draining"
                 /\ Rebinds(x, "pending")

\* A reconcile is short against every duration: the clock stands still in it.
Tick ==
  /\ now < MaxTime
  /\ \A p \in Pools : rec[p] = Idle
  /\ now' = now + 1
  /\ UNCHANGED <<fleet, where, pool, rec, failures, woke, idle_since>>

\* No pool has decided anything yet.
Init ==
  /\ fleet = [n \in Fleet |-> [phase |-> IF n \in InitiallyOn THEN "On" ELSE "Off",
                               decision |-> Undecided]]
  /\ where \in [Pods -> Fleet \cup {"none"}]
  /\ \A x \in Pods : (where[x] \in Fleet) <=> (x \in Running)
  /\ \A x \in Running : /\ where[x] \in Admits[x] \cap InitiallyOn
                         /\ pods_on(where[x]) = {x} /\ Request[x] <= Size[where[x]]
  /\ pool = [p \in Pools |-> [last_scale_up |-> NoTime,
                              unneeded_since |-> [n \in Fleet |-> NoTime], releasable |-> {}]]
  /\ rec = [p \in Pools |-> Idle]
  /\ now = 0 /\ failures = 0
  /\ woke = [p \in Pools |-> NoTime]
  /\ idle_since = [p \in Pools |-> [n \in Fleet |-> NoTime]]

Next ==
  \/ \E p \in Pools : Plan(p) \/ Decide(p) \/ PatchPool(p) \/ ReconcileFails(p)
  \/ \E n \in Fleet : PowersOn(n) \/ BecomesOn(n) \/ Drains(n) \/ PowersOff(n)
  \/ \E x \in Pods : PodCreated(x) \/ PodBound(x) \/ PodDone(x) \/ PodEvicted(x)
  \/ Tick

Spec == Init /\ [][Next]_vars

\* A pool is reconciled again and again (its Plan is enabled whenever it is idle)
\* and a reconcile goes on; a machine carries out its decision, and its drain
\* evicts; the scheduler binds a pod that fits an online machine time and again
\* (the hold after a power-on gives it the time).
FairSpec ==
  /\ Spec
  /\ \A p \in Pools : []<>(rec[p] # Idle) /\ WF_vars(Decide(p) \/ PatchPool(p))
  /\ \A n \in Fleet : WF_vars(PowersOn(n) \/ BecomesOn(n) \/ Drains(n) \/ PowersOff(n))
  /\ \A x \in Pods : WF_vars(PodEvicted(x)) /\ SF_vars(PodBound(x))

-----------------------------------------------------------------------------
(* Properties.                                                             *)

\* The members a pool counts as on: online or on their way.
on_members(p) == {n \in Members[p] : member_state(n) \in {"Online", "Booting"}}

\* No decision runs more members of a pool than its maxOnline.
MaxOnlineKept ==
  \A p \in Pools : Cardinality(on_members(p)) <= PoolSpec[p].max_online

\* No decision takes a pool below its minOnline, or further below it.
MinOnlineKept ==
  [][\A p \in Pools :
       Cardinality(on_members(p)') < PoolSpec[p].min_online
         => Cardinality(on_members(p)') >= Cardinality(on_members(p))]_vars

\* After a pool powers a machine on, none of its members is decided off for
\* holdAfterPowerOnSeconds.
HoldKept ==
  [][\A p \in Pools : \A n \in Members[p] :
       (fleet'[n].decision.target = "Off" /\ fleet'[n].decision # fleet[n].decision)
         => woke[p] = NoTime \/ now >= woke[p] + PoolSpec[p].hold]_vars

\* The pods P fit together on the machines S, beside the pods already there.
FitTogether(P, S) ==
  \E to \in [P -> S] :
    /\ \A x \in P : to[x] \in Admits[x]
    /\ \A n \in S : used(n) + FoldSet(LAMBDA x, sum : sum + Request[x], 0,
                                     {x \in P : to[x] = n}) <= Size[n]

planned_off(p) == {rec'[p].todo[i].machine :
                     i \in {i \in DOMAIN rec'[p].todo : rec'[p].todo[i].target = "Off"}}

Planned(p) == rec[p].pc = "idle" /\ rec'[p].pc = "decide"

\* When a pool plans to power machines off, the pods of all of them fit
\* together on its members that stay online.
RoomKept ==
  [][\A p \in Pools : (Planned(p) /\ planned_off(p) # {}) =>
       FitTogether(UNION {pods_on(n) : n \in planned_off(p)},
                   {n \in Members[p] : member_state(n) = "Online"} \ planned_off(p))]_vars

\* A machine is planned off only if the last plan that each other pool
\* selecting it stored found it unneeded, with an unneededSince that is that
\* pool's own unneededSeconds ago.  (The entry can be that of an earlier spell.)
AllPoolsAgree ==
  [][\A p \in Pools : Planned(p) =>
       \A n \in planned_off(p) : \A q \in selecting(n) \ {p} :
         /\ idle_since[q][n] # NoTime
         /\ pool[q].unneeded_since[n] # NoTime
         /\ now - pool[q].unneeded_since[n] >= PoolSpec[q].unneeded]_vars

\* A pool that is not above its maxOnline powers off only machines that every
\* plan it stored in the last unneededSeconds has found unneeded.
UnneededContinuously ==
  [][\A p \in Pools :
       (Planned(p) /\ Cardinality(on_members(p)) <= PoolSpec[p].max_online) =>
         \A n \in planned_off(p) :
           \/ PoolSpec[p].unneeded = 0
           \/ idle_since[p][n] # NoTime /\ now - idle_since[p][n] >= PoolSpec[p].unneeded]_vars

\* A pod that every machine of the fleet can hold does not stay pending for ever:
\* whatever else comes and goes, the plans neither pass it over nor keep undoing
\* the power-on made for it, as long as maxOnline leaves room for every pod.
PendingServed == \A x \in Pods : where[x] = "pending" ~> where[x] # "pending"
=============================================================================
