---------------------------- MODULE MCGovernance ----------------------------
(***************************************************************************)
(* The parts of the governance framework that keep state, one of them in a *)
(* behaviour: two command lines on the records of specs (two new ones, and *)
(* two of old that resolve to one number), two hooks or a hook, a verb and *)
(* a rotation on the event log, two sessions' Stop hooks, two observations *)
(* and two extractions or one and a death, three runs of the hook around   *)
(* two MCP servers.                                                        *)
(***************************************************************************)
EXTENDS SpecLifecycle, EventChain, StopLoop, Instincts, McpHealth, TLC

VARIABLE part

vars == <<part, lifecycleVars, eventVars, stopVars, instinctVars, healthVars>>

(* Bounds of the records: two specs are started where nothing but numbers  *)
(* is given out, and two old ones are open where no cleanup runs; else one *)
(* of each.  New specs are alike.                                          *)
NewSpec == CHOOSE s \in Slugs \ Legacy : TRUE
FewOpen ==
    IF {"start_new", "migrate_ids"} \subseteq verbs
    THEN \A k \in Present : sidecars[k].state = "approved"
    ELSE \E k \in Present : sidecars[k].state = "archived"

Started(s) == (\E k \in Present : sidecars[k].slug = s) \/ \E p \in Actors : acts[p].slug = s
FewStarted ==
    \A s \in Slugs \ Legacy :
        Started(s) /\ s # NewSpec => verbs = {"start_new", "migrate_ids"} /\ Started(NewSpec)

(* Bound: the cleanups that reconcile do not run beside a migration.       *)
MigrationApart ==
    "reconcile_all" \in verbs =>
        \A p, q \in Actors : acts[p].verb = "migrate_ids" /\ Busy(q) => p = q

Init ==
    /\ LifecycleInit /\ EventsInit /\ StopInit /\ InstinctInit /\ HealthInit
    /\ part \in {"records", "events", "stops", "instincts", "health"}
    /\ \/ part = "records" /\ FewOpen
       \/ /\ part # "records" /\ verbs = CHOOSE v \in VerbSets : TRUE
          /\ \A k \in Present : sidecars[k].state = "approved"
    /\ part = "events" \/ \A r \in Rotations : writers[r] = Ended
    /\ \/ deaths = Deaths /\ \A h \in Learners : learners[h] = Resting
       \/ /\ part = "instincts" /\ deaths = 0
          /\ learners = [h \in Learners |-> IF h = 1 THEN Done ELSE Resting]

Next ==
    /\ UNCHANGED part
    /\ \/ /\ part = "records" /\ LifecycleNext
          /\ UNCHANGED <<eventVars, stopVars, instinctVars, healthVars>>
       \/ /\ part = "events" /\ EventsNext
          /\ UNCHANGED <<lifecycleVars, stopVars, instinctVars, healthVars>>
       \/ /\ part = "stops" /\ StopNext
          /\ UNCHANGED <<lifecycleVars, eventVars, instinctVars, healthVars>>
       \/ /\ part = "instincts" /\ InstinctNext
          /\ UNCHANGED <<lifecycleVars, eventVars, stopVars, healthVars>>
       \/ /\ part = "health" /\ HealthNext
          /\ UNCHANGED <<lifecycleVars, eventVars, stopVars, instinctVars>>

Spec == Init /\ [][Next]_vars

Hints == [s \in Legacy |-> 1]
Crowded == {Hooks, Writers \ {CHOOSE h \in Hooks : TRUE}}
Families ==
    {{"start_new", "migrate_ids"}, {"start_new", "migrate_ids", "start"},
     {"start_new", "approve", "mark_shipped"},
     {"start_new", "sweep"}, {"migrate_ids", "sweep", "reconcile_all"},
     {"migrate_ids", "mark_shipped", "reconcile_all"},
     {"migrate-history", "mark_shipped", "consolidate_shipped"},
     {"start", "approve", "archive", "reconcile_merged"}}

Symmetry == Permutations(Actors) \cup Permutations(Legacy)

(* Bounds: runs of one hook are alike, so they begin in order; and of the  *)
(* hooks that learn or judge servers, two at most are under way at once.   *)
InOrder ==
    /\ \A e, f \in Extractors : e < f /\ learners[e].pc = "off" => learners[f].pc = "off"
    /\ \A g, h \in Guards : g < h /\ guards[g].pc = "off" => guards[h].pc = "off"

TwoAtOnce ==
    /\ Cardinality({h \in Learners : learners[h].pc \notin {"off", "done"}}) <= 2
    /\ Cardinality({g \in Guards : Under(g)}) <= 2

=============================================================================
