---------------------------- MODULE MCAlertStore ----------------------------
(***************************************************************************)
(* The alert store with two writers, one lifecycle-managed incident and    *)
(* one that ages out.  The operators that say what a file shows and what   *)
(* compaction keeps are compared with the loops of the code, line by line  *)
(* over the sorted file, for every file of up to MaxRecords lines.         *)
(***************************************************************************)
EXTENDS AlertStore, SequencesExt

CONSTANTS p, q, keyed, plain

ByTime(s) ==
    FlattenSeq([t \in 1 .. MaxClock + 1 |-> SelectSeq(s, LAMBDA r : r.ts = t - 1)])

Of(k, s) == SelectSeq(s, LAMBDA r : r.incident = k)

Never == -(Retention + 1)

(* One line of the loop of load_alert_incidents.                           *)
Observe(incident, r) ==
    IF r.event = "alert"
    THEN [incident EXCEPT !.status = "active", !.last_seen = r.ts]
    ELSE IF incident.status = "none"
         THEN incident
         ELSE [incident EXCEPT !.status = "recovered", !.recovered = r.ts]

Resolved(k, s) ==
    FoldLeft(Observe, [status |-> "none", last_seen |-> Never, recovered |-> Never],
             Of(k, ByTime(s)))

Listed(c, k, s) ==
    LET incident == Resolved(k, s)
    IN  IF \/ /\ incident.status = "active"
              /\ k \in Managed \/ incident.last_seen >= c
           \/ incident.recovered >= c
        THEN incident.status
        ELSE "hidden"

(* One line of the lifecycle loop of prune_alert_store, by index.           *)
Follow(k, lines) ==
    LET step(state, i) ==
          IF lines[i].incident # k THEN state
          ELSE IF lines[i].event = "alert"
               THEN [state EXCEPT !.active = TRUE, !.alert = i]
               ELSE [state EXCEPT !.active = FALSE, !.recovery = lines[i].ts]
    IN  FoldLeft(step, [active |-> FALSE, alert |-> 0, recovery |-> Never],
                 [i \in DOMAIN lines |-> i])

Compacted(c, s) ==
    LET lines == ByTime(s)
        anchored(k) == LET state == Follow(k, lines)
                       IN  /\ state.alert # 0
                           /\ (state.active /\ k \in Managed) \/ state.recovery >= c
        keep == {i \in DOMAIN lines : lines[i].ts >= c}
                  \cup {Follow(k, lines).alert : k \in {j \in Incidents : anchored(j)}}
        order == SetToSortSeq(keep, <)
    IN  [n \in DOMAIN order |-> lines[order[n]]]

Files == UNION {[1 .. n -> Record] : n \in 0 .. MaxRecords}

ASSUME OperatorsFollowTheLoops ==
    \A s \in Files, c \in -Retention .. MaxClock - Retention :
        /\ Kept(c, s) = Compacted(c, s)
        /\ \A k \in Incidents :
             /\ ShownSince(c, k, s) = Listed(c, k, s)
             /\ Active(k, s) = (LET lines == Of(k, s)
                                IN  lines # <<>> /\ Last(lines).event = "alert")
=============================================================================
