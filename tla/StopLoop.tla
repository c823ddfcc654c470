------------------------------ MODULE StopLoop ------------------------------
(***************************************************************************)
(* The Stop hook (runtime-stop.py): at the end of an agent's turn it may   *)
(* send the agent back to work, as long as the checks of the tree fail and *)
(* the retries of ralph-resume.json last.  The sessions of a project share *)
(* that file; each call reads, truncates and writes it in steps of its     *)
(* own, without a lock.  The checkpoint, the summary and the token counts  *)
(* are left out; the events are those of EventChain.                       *)
(***************************************************************************)
EXTENDS Integers

CONSTANTS
    Sessions,
    Subagents,   \* sessions that are cascades of another
    MaxRetries,  \* AIENG_RALPH_MAX_RETRIES
    Blocking,    \* AIENG_RALPH_BLOCK
    Verifiable,  \* a Python project, with the tools of the checks
    Counts       \* bound of the retries counted (skipped checks and overlaps let them grow)

ASSUME StopAssumption ==
    /\ Subagents \subseteq Sessions
    /\ MaxRetries \in 1..50 /\ Counts \in Nat
    /\ Blocking \in BOOLEAN /\ Verifiable \in BOOLEAN

VARIABLES
    budget,  \* ralph-resume.json: none, torn, or its retries and whether it is active
    recent,  \* the checks ran less than 30 s ago
    staged,  \* there is staged work
    broken,  \* the tree fails the checks
    stops    \* each session's turn, and its call of the hook

(* Read by no code: the blocks since the budget was last given up, counted *)
(* until two calls overlap or one breaks off.                              *)
VARIABLES blocks, disturbed

stopVars == <<budget, recent, staged, broken, stops, blocks, disturbed>>
world == <<recent, staged, broken>>

NoFile == [kind |-> "none", retries |-> 0, active |-> FALSE]
TornFile == [kind |-> "torn", retries |-> 0, active |-> FALSE]
File(retries, active) == [kind |-> "file", retries |-> retries, active |-> active]

Turn == [pc |-> "working", failed |-> FALSE, again |-> FALSE, next |-> "working",
         text |-> NoFile]

StopInit ==
    /\ budget = NoFile
    /\ recent = FALSE /\ staged = FALSE /\ broken = TRUE
    /\ stops = [s \in Sessions |-> Turn]
    /\ blocks = 0 /\ disturbed = FALSE

-----------------------------------------------------------------------------
Becomes(s, turn) == stops' = [stops EXCEPT ![s] = turn]
Disturbs == disturbed' = TRUE /\ blocks' = 0
InHook(s) == stops[s].pc # "working"

(* The call ends: the turn is over, or goes on with a reason to.           *)
Released(turn) == [Turn EXCEPT !.failed = turn.failed]
Blocked(turn) == [Turn EXCEPT !.failed = turn.failed, !.again = TRUE]

(* The history of a session's tools, of which the last one's outcome is    *)
(* what counts.                                                            *)
AfterTool(turn, failed) == [turn EXCEPT !.failed = failed]
LooksIncomplete(turn) == turn.failed

(* runtime-guard.py, after each use of a tool, notes how it went; the tool *)
(* may have changed the tree.                                              *)
UseTool(s) ==
    /\ stops[s].pc = "working"
    /\ \E failed, b, w \in BOOLEAN :
         Becomes(s, AfterTool(stops[s], failed)) /\ broken' = b /\ staged' = w
    /\ UNCHANGED <<budget, recent, blocks, disturbed>>

TimePasses ==
    /\ recent' = FALSE
    /\ UNCHANGED <<budget, staged, broken, stops, blocks, disturbed>>

(* A Stop that follows a block of the same turn releases the agent.        *)
Stop(s) ==
    /\ stops[s].pc = "working"
    /\ Becomes(s, IF stops[s].again THEN Released(stops[s])
                  ELSE [stops[s] EXCEPT !.pc = IF LooksIncomplete(stops[s]) THEN "bumping"
                                             ELSE "clearing"])
    /\ IF ~stops[s].again /\ \E t \in Sessions \ {s} : InHook(t)
       THEN Disturbs ELSE UNCHANGED <<blocks, disturbed>>
    /\ UNCHANGED <<budget, world>>

(* read_json takes an unreadable file for an absent one; write_json first  *)
(* empties the file.                                                       *)
Retries(text) == IF text.kind = "file" THEN text.retries ELSE 0
Spent(text) == File(Retries(text) + 1, Retries(text) + 1 < MaxRetries)
Writes(s, text, next) ==
    Becomes(s, [stops[s] EXCEPT !.pc = "emptying", !.text = text, !.next = next])

(* _bump_ralph_state, of a turn whose last tool failed.                    *)
Bump(s) ==
    /\ stops[s].pc = "bumping" /\ Retries(budget) < Counts
    /\ Writes(s, Spent(budget), "checking")
    /\ UNCHANGED <<budget, world, blocks, disturbed>>

(* Fault: a turn that ends well gives all retries back. *)
ClearAll(s) ==
    /\ stops[s].pc = "clearing"
    /\ IF budget.kind = "file" /\ budget.active
       THEN Writes(s, File(0, FALSE), "checking")
       ELSE Becomes(s, [stops[s] EXCEPT !.pc = "checking"])
    /\ UNCHANGED <<budget, world, blocks, disturbed>>

(* _clear_ralph_state: no resume is offered, but the retries stay counted. *)
Clear(s) ==
    /\ stops[s].pc = "clearing"
    /\ IF budget.kind = "file" /\ budget.active
       THEN Writes(s, [budget EXCEPT !.active = FALSE], "checking")
       ELSE Becomes(s, [stops[s] EXCEPT !.pc = "checking"])
    /\ UNCHANGED <<budget, world, blocks, disturbed>>

Empty(s) ==
    /\ stops[s].pc = "emptying"
    /\ budget' = TornFile
    /\ Becomes(s, [stops[s] EXCEPT !.pc = "filling"])
    /\ UNCHANGED <<world, blocks, disturbed>>

Fill(s) ==
    LET turn == stops[s] IN
    /\ turn.pc = "filling"
    /\ budget' = turn.text
    /\ IF turn.next = "checking"
       THEN Becomes(s, [turn EXCEPT !.pc = "checking", !.text = NoFile]) /\ UNCHANGED blocks
       ELSE IF Blocking THEN /\ Becomes(s, Blocked(turn))
                          /\ blocks' = IF disturbed THEN 0 ELSE blocks + 1
       ELSE Becomes(s, Released(turn)) /\ UNCHANGED blocks
    /\ UNCHANGED <<world, disturbed>>

-----------------------------------------------------------------------------
(* The checks are skipped in a subagent's cascade, right after others and  *)
(* with nothing staged.                                                    *)
Skipped(s) == s \in Subagents /\ recent /\ ~staged

Skip(s) ==
    /\ stops[s].pc = "checking" /\ Skipped(s)
    /\ Becomes(s, Released(stops[s]))
    /\ UNCHANGED <<budget, world, blocks, disturbed>>

(* check_convergence: what is not there to run passes, what hangs fails.   *)
Outcomes == IF ~Verifiable THEN {TRUE} ELSE IF broken THEN {FALSE} ELSE BOOLEAN

Check(s) ==
    /\ stops[s].pc = "checking" /\ ~Skipped(s)
    /\ \E converged \in Outcomes :
         Becomes(s, [stops[s] EXCEPT !.pc = IF converged THEN "deleting" ELSE "counting"])
    /\ recent' = TRUE
    /\ UNCHANGED <<budget, staged, broken, blocks, disturbed>>

(* The count is read twice: to compare, and to write it raised.            *)
Count(s) ==
    /\ stops[s].pc = "counting"
    /\ Becomes(s, [stops[s] EXCEPT !.pc =
          IF Retries(budget) >= MaxRetries THEN "deleting" ELSE "raising"])
    /\ UNCHANGED <<budget, world, blocks, disturbed>>

Raise(s) ==
    /\ stops[s].pc = "raising" /\ Retries(budget) < Counts
    /\ Writes(s, Spent(budget), "blocking")
    /\ UNCHANGED <<budget, world, blocks, disturbed>>

(* Converged, or given up.                                                 *)
Delete(s) ==
    /\ stops[s].pc = "deleting"
    /\ budget' = NoFile /\ blocks' = 0
    /\ Becomes(s, Released(stops[s]))
    /\ UNCHANGED <<world, disturbed>>

(* The hook is killed, or fails and exits 0: the agent may end its turn.   *)
BreakOff(s) ==
    /\ InHook(s)
    /\ Becomes(s, Released(stops[s]))
    /\ Disturbs
    /\ UNCHANGED <<budget, world>>

StopNext ==
    \/ TimePasses
    \/ \E s \in Sessions :
         \/ UseTool(s) \/ Stop(s) \/ Bump(s) \/ Clear(s) \/ Empty(s) \/ Fill(s)
         \/ Skip(s) \/ Check(s) \/ Count(s) \/ Raise(s) \/ Delete(s) \/ BreakOff(s)

StopSpec == StopInit /\ [][StopNext]_stopVars

-----------------------------------------------------------------------------
(* AIENG_RALPH_MAX_RETRIES bounds how often the project's agents are sent  *)
(* back to work before one is let go for good and the count begins anew,   *)
(* whatever the tools' outcomes between - as long as the calls of the hook *)
(* come one after the other and to their end.                              *)
BlocksWithinBudget == ~disturbed => blocks <= MaxRetries
=============================================================================
