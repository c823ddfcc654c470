----------------------------- MODULE EventChain -----------------------------
(***************************************************************************)
(* framework-events.ndjson: hooks of an agent and the tools beside them    *)
(* append one line each, most with a pointer to the line before.  The lock *)
(* "framework-events" is held from the reading of the last line to the end *)
(* of the append; who cannot get it in three attempts goes on without, as  *)
(* does the rotation.  A death or a full disk may leave a line torn, with  *)
(* no newline, and the next append then ends up on the same line.  What an *)
(* event says, the overflow of large ones and trace contexts are left out. *)
(***************************************************************************)
EXTENDS Integers, Sequences

CONSTANTS
    Hooks,     \* runs of hook scripts
    Verbs,     \* runs of spec_lifecycle, which log without a pointer
    Rotations, \* runs of runtime_rotate, which log without pointer and lock
    Crowds,    \* which of them run beside each other
    Emissions, \* bound of the events of one hook's own work
    Mishaps    \* bound of the failures: locks not got, writes broken off, kills

ASSUME EventsAssumption == Emissions \in Nat /\ Mishaps \in Nat

Writers == Hooks \cup Verbs \cup Rotations

VARIABLES
    log,     \* the lines
    holder,  \* who holds the lock, as a set of at most one
    writers, \* what each writer is doing
    mishaps  \* how many failures there were

eventVars == <<log, holder, writers, mishaps>>

Line == [stamped : BOOLEAN, prev : Nat, locked : BOOLEAN, whole : BOOLEAN, ended : BOOLEAN]
Stages == {"operation", "violation", "refusal", "main", "quiet", "heartbeat", "error"}

NotStarted == [pc |-> "off", stage |-> "operation", locked |-> FALSE, prev |-> 0,
               raised |-> FALSE, left |-> Emissions]
Ended == [NotStarted EXCEPT !.pc = "ended"]

EventsInit ==
    /\ log = <<>>
    /\ holder = {}
    /\ \E crowd \in Crowds :
         writers = [w \in Writers |-> IF w \in crowd THEN NotStarted ELSE Ended]
    /\ mishaps = 0

-----------------------------------------------------------------------------
Mishap == mishaps < Mishaps /\ mishaps' = mishaps + 1
Continues(w, run) == writers' = [writers EXCEPT ![w] = run]
InMain(run) == [run EXCEPT !.pc = "main", !.locked = FALSE, !.prev = 0]
Asking(run, stage) ==
    [run EXCEPT !.pc = "asking", !.stage = stage, !.locked = FALSE, !.prev = 0]

(* The pointer: the last line, or none when it cannot be read as an event. *)
Pointer(lines) == IF lines = <<>> \/ ~lines[Len(lines)].whole THEN 0 ELSE Len(lines)

Torn(lines) == lines # <<>> /\ ~lines[Len(lines)].ended

(* A line after one without newline is lost with it.                       *)
Appended(lines, line) ==
    IF Torn(lines)
    THEN [lines EXCEPT ![Len(lines)] =
            [line EXCEPT !.stamped = FALSE, !.whole = FALSE, !.locked = @ /\ lines[Len(lines)].locked]]
    ELSE Append(lines, line)

LineOf(w) ==
    [stamped |-> w \in Hooks, prev |-> writers[w].prev, locked |-> writers[w].locked,
     whole |-> TRUE, ended |-> TRUE]

(* What is left of a line whose write broke off: nothing, a part of it, or *)
(* all but the newline.                                                    *)
Remains(w) ==
    {log} \cup {Appended(log, [LineOf(w) EXCEPT !.whole = whole, !.ended = FALSE,
                                                !.stamped = @ /\ whole]) : whole \in BOOLEAN}

-----------------------------------------------------------------------------
(* verify_hook_integrity: a script that differs from its manifest is       *)
(* reported and, when that is enforced, not run.                           *)
Verified(run) == {InMain(run), Asking(run, "violation"), Asking(run, "refusal")}

(* run_hook_safe: the script is verified; then its own work, which may     *)
(* log, exit on purpose or raise; then the heartbeat, and the error if it  *)
(* raised.                                                                 *)
Verify(h) ==
    /\ writers[h].pc = "off"
    /\ \E run \in Verified(writers[h]) : Continues(h, run)
    /\ UNCHANGED <<log, holder, mishaps>>

Emits(h, stage) ==
    /\ writers[h].pc = "main" /\ writers[h].left > 0
    /\ Continues(h, [Asking(writers[h], stage) EXCEPT !.left = @ - 1])
    /\ UNCHANGED <<log, holder, mishaps>>

Emit(h) == Emits(h, "main")

(* A trace context that cannot be read leaves an event too, whose failure  *)
(* the hook does not hear of.                                              *)
EmitQuietly(h) == Emits(h, "quiet")

Return(h) ==
    /\ writers[h].pc = "main"
    /\ \E raised \in BOOLEAN :
         Continues(h, [Asking(writers[h], "heartbeat") EXCEPT !.raised = raised])
    /\ UNCHANGED <<log, holder, mishaps>>

Exit(h) ==
    /\ writers[h].pc = "main"
    /\ Continues(h, Ended)
    /\ UNCHANGED <<log, holder, mishaps>>

(* What follows an emission: emit_event reports its failure to no one, but *)
(* append_framework_event raises it in the hook's own work.                *)
AfterEmission(run, failed) ==
    CASE run.stage \in {"violation", "quiet"} -> InMain(run)
      [] run.stage = "main" -> IF failed THEN [Asking(run, "heartbeat") EXCEPT !.raised = TRUE]
                               ELSE InMain(run)
      [] run.stage = "heartbeat" /\ run.raised -> Asking(run, "error")
      [] OTHER -> Ended

-----------------------------------------------------------------------------
(* The verbs use artifact_lock, which neither retries nor falls open.      *)
StartVerb(v) ==
    /\ writers[v].pc = "off"
    /\ Continues(v, Asking(writers[v], "operation"))
    /\ UNCHANGED <<log, holder, mishaps>>

(* Fault: the pointer is read before the lock is asked for. *)
AcquireAfterReading(w) ==
    /\ writers[w].pc \in {"asking", "read"}
    /\ IF writers[w].pc = "asking" /\ w \in Hooks
       THEN /\ Continues(w, [writers[w] EXCEPT !.pc = "read", !.prev = Pointer(log)])
            /\ UNCHANGED holder
       ELSE /\ holder = {}
            /\ holder' = {w}
            /\ Continues(w, [writers[w] EXCEPT !.pc = "appending", !.locked = TRUE])
    /\ UNCHANGED <<log, mishaps>>

Acquire(w) ==
    /\ writers[w].pc = "asking" /\ holder = {}
    /\ holder' = {w}
    /\ Continues(w, [writers[w] EXCEPT !.pc = IF w \in Hooks THEN "reading" ELSE "appending",
                                     !.locked = TRUE])
    /\ UNCHANGED <<log, mishaps>>

(* Three attempts have failed; a breadcrumb goes to lock-failures.ndjson.  *)
FallOpen(w) ==
    /\ writers[w].pc = "asking" /\ Mishap
    /\ Continues(w, IF w \in Hooks THEN [writers[w] EXCEPT !.pc = "reading"] ELSE Ended)
    /\ UNCHANGED <<log, holder>>

ReadTail(h) ==
    /\ writers[h].pc = "reading"
    /\ Continues(h, [writers[h] EXCEPT !.pc = "appending", !.prev = Pointer(log)])
    /\ UNCHANGED <<log, holder, mishaps>>

AppendLine(w) ==
    /\ writers[w].pc = "appending"
    /\ log' = Appended(log, LineOf(w))
    /\ holder' = holder \ {w}
    /\ Continues(w, AfterEmission(writers[w], FALSE))
    /\ UNCHANGED mishaps

AppendFails(w) ==
    /\ writers[w].pc = "appending" /\ Mishap
    /\ log' \in Remains(w)
    /\ holder' = holder \ {w}
    /\ Continues(w, AfterEmission(writers[w], TRUE))

Rotate(r) ==
    /\ writers[r].pc = "off"
    /\ Continues(r, Ended)
    /\ \/ log' = Appended(log, LineOf(r)) /\ UNCHANGED mishaps
       \/ log' \in Remains(r) /\ Mishap
    /\ UNCHANGED holder

(* The IDE or a timeout kills a process; the system frees its lock.        *)
Kill(w) ==
    /\ writers[w].pc \notin {"off", "ended"} /\ Mishap
    /\ log' \in IF writers[w].pc = "appending" THEN Remains(w) ELSE {log}
    /\ holder' = holder \ {w}
    /\ Continues(w, Ended)

EventsNext ==
    \/ \E h \in Hooks :
         Verify(h) \/ Emit(h) \/ EmitQuietly(h) \/ Return(h) \/ Exit(h) \/ ReadTail(h)
    \/ \E v \in Verbs : StartVerb(v)
    \/ \E r \in Rotations : Rotate(r)
    \/ \E w \in Writers : Acquire(w) \/ FallOpen(w) \/ AppendLine(w) \/ AppendFails(w) \/ Kill(w)

EventsSpec == EventsInit /\ [][EventsNext]_eventVars

-----------------------------------------------------------------------------
(* Spec-126, D-126-05: the pointers make one chain.  An event appended     *)
(* under the lock names the line that was last - or none, when that line   *)
(* is broken - so that two such events never name the same line; only a    *)
(* writer without the lock can come between.                               *)
ChainForksOnlyUnlocked ==
    \A i \in 1..Len(log) :
        log[i].stamped /\ log[i].locked =>
          \E j \in 0..i - 1 :
            /\ \A k \in j + 1..i - 1 : ~log[k].locked
            /\ log[i].prev \in {j, 0}
            /\ log[i].prev = 0 => j = 0 \/ ~log[j].whole
=============================================================================
