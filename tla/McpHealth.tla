------------------------------ MODULE McpHealth ------------------------------
(***************************************************************************)
(* The hook around calls of MCP servers (mcp-health.py): before a call it  *)
(* looks up the server in a file of the user, shared by all sessions, and  *)
(* probes it when the entry has expired or the pause after a failure is    *)
(* over; after a failed call it notes the failure and tries to reconnect.  *)
(* The file is emptied before its lock is asked for and flushed after the  *)
(* lock is given back, so that the lock orders nothing; the whole of what  *)
(* was read is written back.  How a server is probed, which binaries may   *)
(* be run for that, and the events are left out.                           *)
(***************************************************************************)
EXTENDS Integers

CONSTANTS
    Servers,
    Guards,    \* runs of the hook
    Lifetime,  \* _TTL_SECONDS
    Base,      \* _BACKOFF_BASE
    Longest,   \* _BACKOFF_MAX
    FailOpen,  \* AIE_MCP_HEALTH_FAIL_OPEN
    LastHour   \* bound of the clock

ASSUME HealthAssumption ==
    /\ {Lifetime, Base, Longest} \subseteq Nat \ {0} /\ LastHour \in Nat
    /\ FailOpen \in BOOLEAN

VARIABLES
    now,       \* the time
    health,    \* mcp-health.json
    guards,    \* what each run of the hook is doing
    verdict    \* what the run that has just ended tells the agent's tool

(* Read by no code: when each server failed last, what the last probe,     *)
(* call or reconnection said of it until two runs of the hook overlap or   *)
(* one breaks off, and whether that has come about.                        *)
VARIABLES failedAt, lastWord, mixed

healthVars == <<now, health, guards, verdict, failedAt, lastWord, mixed>>

Unknown == [known |-> FALSE, status |-> "healthy", expires |-> 0, failures |-> 0, retry |-> 0]
AllWell == [s \in Servers |-> "healthy"]
NoneKnown == [s \in Servers |-> Unknown]

(* What does not parse, and a file not there, name no server.              *)
Whole(servers) == [text |-> "whole", servers |-> servers]
EmptyFile == [text |-> "empty", servers |-> NoneKnown]
Garbled == [text |-> "garbled", servers |-> NoneKnown]

Unstarted == [pc |-> "off", server |-> "none", at |-> 0, state |-> NoneKnown, next |-> "done"]
Finished == [Unstarted EXCEPT !.pc = "done"]
NoVerdict == [server |-> "none", call |-> "goes on", retry |-> 0]

HealthInit ==
    /\ now = 1
    /\ health = EmptyFile
    /\ guards = [g \in Guards |-> Unstarted]
    /\ verdict = NoVerdict
    /\ failedAt = [s \in Servers |-> 0]
    /\ lastWord = AllWell
    /\ mixed = FALSE

-----------------------------------------------------------------------------
Advances(g, run) == guards' = [guards EXCEPT ![g] = run] /\ verdict' = NoVerdict
Ends(g, word) == guards' = [guards EXCEPT ![g] = Finished] /\ verdict' = word
Under(g) == guards[g].pc \notin {"off", "done"}
Alone(g) == ~mixed /\ \A h \in Guards \ {g} : ~Under(h)
Hears(g, words) == mixed' = ~Alone(g) /\ lastWord' = IF Alone(g) THEN words ELSE AllWell

(* _get_server_state: a server not known counts as just found healthy; it  *)
(* is written only when something else is.                                 *)
Loaded(s) ==
    IF health.servers[s].known THEN health.servers
    ELSE [health.servers EXCEPT ![s] = [Unknown EXCEPT !.known = TRUE, !.expires = now + Lifetime]]

(* Fault: the pause doubles without bound. *)
BackoffUncapped(failures) == IF failures <= 0 THEN Base ELSE Base * 2 ^ (failures - 1)

Backoff(failures) ==
    IF failures <= 0 THEN Base
    ELSE IF Base * 2 ^ (failures - 1) <= Longest THEN Base * 2 ^ (failures - 1) ELSE Longest

Failed(entry, at) ==
    [entry EXCEPT !.status = "unhealthy", !.failures = @ + 1,
                  !.retry = at + Backoff(entry.failures + 1)]
Recovered(entry, at) ==
    [entry EXCEPT !.status = "healthy", !.failures = 0, !.retry = 0, !.expires = at + Lifetime]
Renewed(entry, at) == [entry EXCEPT !.expires = at + Lifetime]

Entry(run) == run.state[run.server]
Noting(run, entry) == [run EXCEPT !.state[run.server] = entry]

Passed(run) == [server |-> run.server, call |-> "passes", retry |-> 0]
Refused(run) ==
    IF FailOpen THEN Passed(run)
    ELSE [server |-> run.server, call |-> "is refused", retry |-> Entry(run).retry]

-----------------------------------------------------------------------------
(* _handle_pre_tool_use                                                    *)
BeforeCall(g, s) ==
    LET run == [Unstarted EXCEPT !.pc = "probing", !.server = s, !.at = now, !.state = Loaded(s)]
    IN  /\ guards[g].pc = "off"
        /\ IF Entry(run).status = "healthy" /\ now < Entry(run).expires THEN Ends(g, Passed(run))
           ELSE IF Entry(run).status = "unhealthy" /\ now < Entry(run).retry
           THEN Ends(g, Refused(run))
           ELSE Advances(g, run)
        /\ Hears(g, lastWord)
        /\ UNCHANGED <<now, health, failedAt>>

(* Times are counted from the beginning of the run, before the probe.      *)
Probe(g) ==
    LET run == guards[g] IN
    /\ run.pc = "probing"
    /\ \/ /\ Advances(g, [Noting(run, IF Entry(run).status = "healthy"
                                      THEN Renewed(Entry(run), run.at)
                                      ELSE Recovered(Entry(run), run.at))
                          EXCEPT !.pc = "emptying", !.next = "pass"])
          /\ Hears(g, [lastWord EXCEPT ![run.server] = "healthy"])
          /\ UNCHANGED failedAt
       \/ /\ Advances(g, [Noting(run, Failed(Entry(run), run.at))
                          EXCEPT !.pc = "emptying", !.next = "block"])
          /\ Hears(g, [lastWord EXCEPT ![run.server] = "unhealthy"])
          /\ failedAt' = [failedAt EXCEPT ![run.server] = now]
    /\ UNCHANGED <<now, health>>

(* _handle_post_tool_use_failure, of an error that tells of the server.    *)
AfterFailedCall(g, s) ==
    LET run == [Unstarted EXCEPT !.pc = "emptying", !.server = s, !.at = now, !.state = Loaded(s),
                                 !.next = "reconnect"]
    IN  /\ guards[g].pc = "off"
        /\ Advances(g, Noting(run, Failed(Entry(run), now)))
        /\ Hears(g, [lastWord EXCEPT ![s] = "unhealthy"])
        /\ failedAt' = [failedAt EXCEPT ![s] = now]
        /\ UNCHANGED <<now, health>>

Reconnect(g) ==
    LET run == guards[g] IN
    /\ run.pc = "reconnecting"
    /\ \/ /\ Advances(g, [Noting(run, Recovered(Entry(run), run.at))
                          EXCEPT !.pc = "emptying", !.next = "done"])
          /\ Hears(g, [lastWord EXCEPT ![run.server] = "healthy"])
       \/ Ends(g, NoVerdict) /\ UNCHANGED <<lastWord, mixed>>
    /\ UNCHANGED <<now, health, failedAt>>

-----------------------------------------------------------------------------
(* _save_state                                                             *)
EmptyHealth(g) ==
    /\ guards[g].pc = "emptying"
    /\ health' = EmptyFile
    /\ Advances(g, [guards[g] EXCEPT !.pc = "filling"])
    /\ UNCHANGED <<now, failedAt, lastWord, mixed>>

(* Over what another wrote meanwhile, the end of a longer text remains.    *)
FillHealth(g) ==
    LET run == guards[g] IN
    /\ run.pc = "filling"
    /\ \/ health' = Whole(run.state)
       \/ health.text # "empty" /\ health' = Garbled
    /\ CASE run.next = "reconnect" -> Advances(g, [run EXCEPT !.pc = "reconnecting"])
         [] run.next = "pass" -> Ends(g, Passed(run))
         [] run.next = "block" -> Ends(g, Refused(run))
         [] OTHER -> Ends(g, NoVerdict)
    /\ UNCHANGED <<now, failedAt, lastWord, mixed>>

(* Killed, or out of disk: the call of the tool goes on.                   *)
GiveUpGuard(g) ==
    /\ Under(g)
    /\ Ends(g, NoVerdict)
    /\ mixed' = TRUE /\ lastWord' = AllWell
    /\ UNCHANGED <<now, health, failedAt>>

Hour ==
    /\ now < LastHour /\ now' = now + 1
    /\ verdict' = NoVerdict
    /\ UNCHANGED <<health, guards, failedAt, lastWord, mixed>>

HealthNext ==
    \/ Hour
    \/ \E g \in Guards :
         \/ \E s \in Servers : BeforeCall(g, s) \/ AfterFailedCall(g, s)
         \/ Probe(g) \/ Reconnect(g) \/ EmptyHealth(g) \/ FillHealth(g) \/ GiveUpGuard(g)

HealthSpec == HealthInit /\ [][HealthNext]_healthVars

-----------------------------------------------------------------------------
(* A call is refused only when its server has really failed, and for no    *)
(* longer than _BACKOFF_MAX after that - whatever stale, torn or foreign   *)
(* text the file was rewritten with.  And while no two runs of the hook    *)
(* overlap, a call is let through or refused as the last probe, failure or *)
(* reconnection of its server says.                                        *)
VerdictsFollowTheServer ==
    LET s == verdict.server IN
    /\ verdict.call = "is refused" =>
         /\ failedAt[s] > 0 /\ verdict.retry <= failedAt[s] + Longest
         /\ mixed \/ lastWord[s] = "unhealthy"
    /\ verdict.call = "passes" => FailOpen \/ mixed \/ lastWord[s] = "healthy"
=============================================================================
