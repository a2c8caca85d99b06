----------------------------- MODULE AlertStore -----------------------------
(***************************************************************************)
(* The durable alert stream, alerts.jsonl (web/alert_store.py).            *)
(*                                                                         *)
(* The web service and the trading worker append alerts and recoveries to  *)
(* one file, and page views compact it.  A record is stamped when it is    *)
(* logged, before its writer waits for the lock file that serialises       *)
(* changes.  A lock file older than thirty seconds is taken to be left by  *)
(* a dead process, whether its owner is dead or only slow: a waiter that   *)
(* sees it removes whatever lock file is there when it gets to it.         *)
(* What the dashboard shows is a function of the stream, read without the  *)
(* lock in the order of the stamps; whether a recovery has anything to     *)
(* close is decided in the order of the file.                              *)
(***************************************************************************)
EXTENDS Integers, FiniteSets, Sequences

CONSTANTS
    Writers,      \* processes that write to the file
    Incidents,    \* fingerprints of incidents
    Managed,      \* the incidents that carry a lifecycle key
    Retention,    \* how long history stays visible
    MaxWait,      \* how long a stamped record may wait for the lock
    MaxClock,     \* bound: the latest time
    MaxRecords,   \* bound: records ever written
    MaxFaults     \* bound: writers that die, or hold the lock for over thirty seconds

ASSUME AlertAssumption ==
    /\ Managed \subseteq Incidents
    /\ {Retention, MaxWait, MaxClock, MaxRecords, MaxFaults} \subseteq Nat
    /\ MaxWait < Retention
    /\ Writers \cap {"none", "abandoned"} = {}

VARIABLES
    store,        \* the records of the file, in the order of its lines
    recorded,     \* history: every record ever appended, in that order
    lock,         \* who created the lock file, "abandoned" if that writer has died
    stale,        \* the lock file is more than thirty seconds old
    pc, op,       \* what each writer is doing, and to which record
    view,         \* what a writer read under the lock
    now,
    faults,
    breached      \* history: a waiter removed the lock file of a writer at work

vars == <<store, recorded, lock, stale, pc, op, view, now, faults, breached>>

Record == [event : {"alert", "recovery"}, incident : Incidents, ts : 0 .. MaxClock]

PruneOp == [event |-> "prune"]
NoOp == [event |-> "none"]
NoView == <<>>

Cutoff == now - Retention

-----------------------------------------------------------------------------
(* The lines of a file that hold the alerts and the recoveries of an incident. *)
Alerts(k, s) == {i \in DOMAIN s : s[i].event = "alert" /\ s[i].incident = k}
Recoveries(k, s) == {i \in DOMAIN s : s[i].event = "recovery" /\ s[i].incident = k}

(* Python's sort is stable: lines with one stamp keep their order.          *)
Before(s, i, j) == s[i].ts < s[j].ts \/ (s[i].ts = s[j].ts /\ i < j)

(* The lines K of a file in the order of their stamps.                      *)
Place(s, K, i) == Cardinality({j \in K : j = i \/ Before(s, j, i)})
Sorted(s, K) == [n \in 1 .. Cardinality(K) |-> s[CHOOSE i \in K : Place(s, K, i) = n]]

(***************************************************************************)
(* What the dashboard shows of an incident, with history since c: a        *)
(* recovery before any alert is not an incident.                           *)
(***************************************************************************)
Open(k, s) == \E a \in Alerts(k, s) : \A r \in Recoveries(k, s) : Before(s, r, a)

SeenSince(c, k, s) == \E a \in Alerts(k, s) : s[a].ts >= c

ClosedSince(c, k, s) ==
    \E a \in Alerts(k, s), r \in Recoveries(k, s) : Before(s, a, r) /\ s[r].ts >= c

ShownSince(c, k, s) ==
    IF \/ ClosedSince(c, k, s)
       \/ Open(k, s) /\ (k \in Managed \/ SeenSince(c, k, s))
    THEN IF Open(k, s) THEN "active" ELSE "recovered"
    ELSE "hidden"

Shown(k, s) == ShownSince(Cutoff, k, s)

(* What a recovery reads under the lock: lines in the order of the file.   *)
Active(k, s) == \E a \in Alerts(k, s) : \A r \in Recoveries(k, s) : r < a

(***************************************************************************)
(* What compaction keeps: the window, and the newest alert of an incident  *)
(* that is open under a lifecycle key or was closed within the window.     *)
(***************************************************************************)
Anchor(c, k, s, i) ==
    /\ i \in Alerts(k, s)
    /\ \A a \in Alerts(k, s) : a = i \/ Before(s, a, i)
    /\ \/ k \in Managed /\ Open(k, s)
       \/ \E r \in Recoveries(k, s) : s[r].ts >= c

KeptLines(c, s) ==
    {i \in DOMAIN s : s[i].ts >= c \/ \E k \in Incidents : Anchor(c, k, s, i)}

Kept(c, s) == Sorted(s, KeptLines(c, s))

-----------------------------------------------------------------------------
TypeOK ==
    /\ store \in Seq(Record) /\ recorded \in Seq(Record)
    /\ lock \in Writers \cup {"none", "abandoned"} /\ stale \in BOOLEAN
    /\ pc \in [Writers -> {"idle", "wait", "break", "hold", "write", "release", "unlink"}]
    /\ op \in [Writers -> Record \cup {PruneOp, NoOp}]
    /\ view \in [Writers -> Seq(Record)]
    /\ now \in 0 .. MaxClock /\ faults \in 0 .. MaxFaults /\ breached \in BOOLEAN

Init ==
    /\ store = <<>> /\ recorded = <<>>
    /\ lock = "none" /\ stale = FALSE
    /\ pc = [w \in Writers |-> "idle"]
    /\ op = [w \in Writers |-> NoOp]
    /\ view = [w \in Writers |-> NoView]
    /\ now = 0 /\ faults = 0 /\ breached = FALSE

Goto(w, label) == pc' = [pc EXCEPT ![w] = label]

-----------------------------------------------------------------------------
Begin(w, o) ==
    /\ op' = [op EXCEPT ![w] = o]
    /\ Goto(w, "wait")
    /\ UNCHANGED <<store, recorded, lock, stale, view, now, faults, breached>>

(* A warning, or a health check that passed, is logged and stamped.         *)
Emit(w, event, k) ==
    /\ pc[w] = "idle"
    /\ Len(recorded) + Cardinality({v \in Writers : pc[v] # "idle"}) < MaxRecords
    /\ Begin(w, [event |-> event, incident |-> k, ts |-> now])

BeginPrune(w) == pc[w] = "idle" /\ recorded # <<>> /\ Begin(w, PruneOp)

-----------------------------------------------------------------------------
(* The lock file.                                                          *)
Acquire(w) ==
    /\ pc[w] = "wait" /\ lock = "none"
    /\ lock' = w /\ stale' = FALSE
    /\ Goto(w, "hold")
    /\ UNCHANGED <<store, recorded, op, view, now, faults, breached>>

SeeStale(w) ==
    /\ pc[w] = "wait" /\ lock # "none" /\ stale
    /\ Goto(w, "break")
    /\ UNCHANGED <<store, recorded, lock, stale, op, view, now, faults, breached>>

(* By its name: the lock file of a writer that is alive but slow, or the    *)
(* one of a writer that came after the stale lock file was seen, goes too.  *)
Break(w) ==
    /\ pc[w] = "break"
    /\ breached' = (breached \/ lock \in Writers)
    /\ lock' = "none" /\ stale' = FALSE
    /\ Goto(w, "wait")
    /\ UNCHANGED <<store, recorded, op, view, now, faults>>

(* Mutant: the deadline is looked at before the age of the lock file.       *)
GiveUpFirst(w) ==
    /\ pc[w] = "wait" /\ lock # "none"
    /\ op' = [op EXCEPT ![w] = NoOp]
    /\ Goto(w, "idle")
    /\ UNCHANGED <<store, recorded, lock, stale, view, now, faults, breached>>

(* Ten seconds of waiting: the record, or the compaction, is dropped.  The  *)
(* age of the lock file is looked at first.                                 *)
GiveUp(w) ==
    /\ pc[w] = "wait" /\ lock # "none" /\ ~stale
    /\ op' = [op EXCEPT ![w] = NoOp]
    /\ Goto(w, "idle")
    /\ UNCHANGED <<store, recorded, lock, stale, view, now, faults, breached>>

-----------------------------------------------------------------------------
(* Under the lock.                                                         *)
Done(w) == op' = [op EXCEPT ![w] = NoOp] /\ Goto(w, "release")

AppendLine(line) == store' = Append(store, line) /\ recorded' = Append(recorded, line)

RecordAlert(w) ==
    /\ pc[w] = "hold" /\ op[w].event = "alert"
    /\ AppendLine(op[w])
    /\ Done(w)
    /\ UNCHANGED <<lock, stale, view, now, faults, breached>>

(* Mutant: compaction reads the file before it has the lock.                *)
ReadFileEarly(w) ==
    /\ \/ pc[w] = "hold" /\ op[w].event = "recovery"
       \/ pc[w] = "wait" /\ op[w].event = "prune"
    /\ view' = [view EXCEPT ![w] = IF op[w].event = "prune" THEN Kept(Cutoff, store) ELSE store]
    /\ Goto(w, "write")
    /\ UNCHANGED <<store, recorded, lock, stale, op, now, faults, breached>>

(* Mutant: nothing outside the window is kept.                              *)
ReadWindow(w) ==
    /\ pc[w] = "hold" /\ op[w].event \in {"recovery", "prune"}
    /\ view' = [view EXCEPT ![w] =
                   IF op[w].event = "prune"
                   THEN Sorted(store, {i \in DOMAIN store : store[i].ts >= Cutoff})
                   ELSE store]
    /\ Goto(w, "write")
    /\ UNCHANGED <<store, recorded, lock, stale, op, now, faults, breached>>

ReadFile(w) ==
    /\ pc[w] = "hold" /\ op[w].event \in {"recovery", "prune"}
    /\ view' = [view EXCEPT ![w] = IF op[w].event = "prune" THEN Kept(Cutoff, store) ELSE store]
    /\ Goto(w, "write")
    /\ UNCHANGED <<store, recorded, lock, stale, op, now, faults, breached>>

(* Mutant: only the last line of the file counts.                           *)
RecordRecoveryIfLast(w) ==
    /\ pc[w] = "write" /\ op[w].event = "recovery"
    /\ IF Len(view[w]) \in Alerts(op[w].incident, view[w])
       THEN AppendLine(op[w])
       ELSE UNCHANGED <<store, recorded>>
    /\ view' = [view EXCEPT ![w] = NoView]
    /\ Done(w)
    /\ UNCHANGED <<lock, stale, now, faults, breached>>

RecordRecoveryIfActive(w) ==
    /\ pc[w] = "write" /\ op[w].event = "recovery"
    /\ IF Active(op[w].incident, view[w])
       THEN AppendLine(op[w])
       ELSE UNCHANGED <<store, recorded>>
    /\ view' = [view EXCEPT ![w] = NoView]
    /\ Done(w)
    /\ UNCHANGED <<lock, stale, now, faults, breached>>

ReplaceFile(w) ==
    /\ pc[w] = "write" /\ op[w].event = "prune"
    /\ store' = view[w]
    /\ view' = [view EXCEPT ![w] = NoView]
    /\ Done(w)
    /\ UNCHANGED <<recorded, lock, stale, now, faults, breached>>

(* The lock file is removed if its content was this writer's token when     *)
(* read, which is a step before it is removed.                              *)
CheckToken(w) ==
    /\ pc[w] = "release"
    /\ Goto(w, IF lock = w THEN "unlink" ELSE "idle")
    /\ UNCHANGED <<store, recorded, lock, stale, op, view, now, faults, breached>>

Unlink(w) ==
    /\ pc[w] = "unlink"
    /\ lock' = "none" /\ stale' = FALSE
    /\ Goto(w, "idle")
    /\ UNCHANGED <<store, recorded, op, view, now, faults, breached>>

-----------------------------------------------------------------------------
(* A writer dies and is started again; its lock file stays.                *)
Crash(w) ==
    /\ faults < MaxFaults /\ pc[w] # "idle"
    /\ faults' = faults + 1
    /\ lock' = IF lock = w THEN "abandoned" ELSE lock
    /\ op' = [op EXCEPT ![w] = NoOp]
    /\ view' = [view EXCEPT ![w] = NoView]
    /\ Goto(w, "idle")
    /\ UNCHANGED <<store, recorded, stale, now, breached>>

(* The lock file of a dead writer grows old.                                *)
LockAges ==
    /\ lock = "abandoned" /\ ~stale
    /\ stale' = TRUE
    /\ UNCHANGED <<store, recorded, lock, pc, op, view, now, faults, breached>>

(* A writer that is alive, but suspended or slow, holds the lock for longer *)
(* than thirty seconds: its lock file is as old as a dead writer's.  Who     *)
(* waits by then has come in the last ten of them, and may as well be said  *)
(* to come after.                                                           *)
Overstay ==
    /\ faults < MaxFaults
    /\ lock \in Writers /\ ~stale
    /\ \A v \in Writers : pc[v] # "wait"
    /\ stale' = TRUE
    /\ faults' = faults + 1
    /\ UNCHANGED <<store, recorded, lock, pc, op, view, now, breached>>

(* A writer gives up long before the window has passed: ten seconds, and    *)
(* the window is hours.                                                     *)
Tick ==
    /\ now < MaxClock
    /\ \A w \in Writers : op[w].event \in {"alert", "recovery"} => now < op[w].ts + MaxWait
    /\ now' = now + 1
    /\ UNCHANGED <<store, recorded, lock, stale, pc, op, view, faults, breached>>

Request(w) == BeginPrune(w) \/ \E event \in {"alert", "recovery"}, k \in Incidents : Emit(w, event, k)

Proceed(w) ==
    \/ Acquire(w) \/ SeeStale(w) \/ Break(w)
    \/ RecordAlert(w) \/ ReadFile(w) \/ RecordRecoveryIfActive(w) \/ ReplaceFile(w)
    \/ CheckToken(w) \/ Unlink(w)

Next ==
    \/ \E w \in Writers : Request(w) \/ Proceed(w) \/ GiveUp(w) \/ Crash(w)
    \/ LockAges \/ Overstay \/ Tick

Spec == Init /\ [][Next]_vars

(* Time passes for a dead writer's lock, alerts and checks go on, and a     *)
(* writer that waits looks at the age of the lock file at every poll.       *)
Fairness ==
    /\ WF_vars(LockAges)
    /\ \A w \in Writers : WF_vars(Request(w)) /\ WF_vars(SeeStale(w)) /\ WF_vars(Break(w))

FairSpec == Spec /\ Fairness

-----------------------------------------------------------------------------
(* What the docstring of prune_alert_store says: concurrent appends are not  *)
(* lost across the swap, within the retention window.  A run refutes it:    *)
(* the lock of a writer at work is removed when it has been held for more   *)
(* than thirty seconds, and then a swap drops what was appended beside it.  *)
AppendsSurvive ==
    \A i \in DOMAIN recorded :
        recorded[i].ts >= Cutoff => \E j \in DOMAIN store : store[j] = recorded[i]

(* What holds of the code: until some waiter has removed the lock file of a *)
(* writer at work, because that writer held it for more than thirty seconds *)
(* or came after the stale one that the waiter saw, no record within the    *)
(* retention window is lost, although compaction replaces the file by a     *)
(* copy it computed in an earlier step and writers die with the lock.       *)
(* (prune_alert_store, _cross_process_lock)                                 *)
LockedAppendsSurvive == ~breached => AppendsSurvive

(* Under the same condition compaction is invisible: the file shows of every *)
(* incident exactly what the stream of all records ever written would show, *)
(* so no open incident is silently resolved and no old one comes back.      *)
(* (prune_alert_store, load_alert_incidents)                                *)
CompactionIsInvisible ==
    ~breached => \A k \in Incidents : Shown(k, store) = Shown(k, recorded)

(* A health check logged after every record of the file closes its incident *)
(* for the dashboard, with or without a line of its own, when the lines are *)
(* in the order of their stamps.  They need not be: a record waits for the  *)
(* lock after it is stamped, and until a compaction sorts the file the      *)
(* incident reads as recovered in it and is shown as active.  Under the     *)
(* same condition as above.                                                 *)
(* (record_recovery_if_active, load_alert_incidents)                        *)
InOrder(s) == \A i, j \in DOMAIN s : i < j => s[i].ts <= s[j].ts

ProbeCloses ==
    [][\A w \in Writers :
        (/\ pc[w] = "write" /\ op[w].event = "recovery" /\ pc'[w] = "release"
         /\ ~breached
         /\ InOrder(store)
         /\ \A i \in DOMAIN store : store[i].ts < op[w].ts)
        => Shown(op[w].incident, store') # "active"]_vars

(* A lock file left by a dead writer does not silence the store for good:   *)
(* some writer removes it.  (_cross_process_lock.)                          *)
AbandonedLockIsBroken == lock = "abandoned" ~> lock # "abandoned"
=============================================================================
