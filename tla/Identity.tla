------------------------------ MODULE Identity ------------------------------
(***************************************************************************)
(* The local identity: IdentityService (identity/application/service.py)   *)
(* and OpaqueSessionManager (identity/adapters/sessions.py) behind the     *)
(* login, logout and session endpoints (api/auth.py) and the bootstrap and *)
(* reset-credentials commands (cli.py).  A call holds no lock between its  *)
(* steps: each reads or commits for itself.                                *)
(***************************************************************************)
EXTENDS FiniteSets, Naturals

CONSTANTS Names, Passwords, Tokens, Callers, Null

Operations == {"bootstrap", "reset", "login", "logout", "session"}
Outcomes == {"ok", "error"}

(* The user and the password a session was opened with; no code reads the  *)
(* second, it says what the session is worth.  A revoked session is        *)
(* revoked whether or not it has expired.                                  *)
Sessions == [user : Names, proof : Passwords, is : {"valid", "expired", "revoked"}]

ASSUME IdentityAssumption ==
    Null \notin Names \cup Passwords \cup Tokens \cup Sessions \cup Operations \cup Outcomes

VARIABLES
    users,     \* users[n]: the password of the user n and of its space, or Null
    sessions,  \* sessions[t]: the session of a token, or Null
    evidence,  \* audit events of authentication
    calls      \* calls[p]: a request or a command being served

server == <<users, sessions, evidence, calls>>

(* The correlation id of a request is the token it opened or ended; a      *)
(* refused login names nobody.                                             *)
Event(action, result, user, token) ==
    [action |-> action, result |-> result, user |-> user, token |-> token]

Events ==
    [action : {"LOGIN", "LOGOUT"}, result : {"SUCCESS"}, user : Names, token : Tokens]
        \cup {Event("LOGIN", "FAILURE", Null, Null)}

Calls ==
    [pc : {"idle", "asked", "founding", "rotating", "verified", "welcoming", "denying",
           "authenticated", "revoking", "parting", "answered", "arrived"},
     op : Operations \cup {Null}, name : Names \cup {Null},
     password : Passwords \cup {Null}, token : Tokens \cup {Null},
     csrf : Tokens \cup {Null}, result : Outcomes \cup {Null},
     heard : BOOLEAN]

Idle ==
    [pc |-> "idle", op |-> Null, name |-> Null, password |-> Null, token |-> Null,
     csrf |-> Null, result |-> Null, heard |-> FALSE]

InitServer ==
    /\ users = [n \in Names |-> Null]
    /\ sessions = [t \in Tokens |-> Null]
    /\ evidence = {}
    /\ calls = [p \in Callers |-> Idle]

At(p, pc, op) == calls[p].pc = pc /\ calls[p].op = op
Goes(p, pc) == calls' = [calls EXCEPT ![p].pc = pc]

(* The answer goes to whoever still hears it; an error tells nothing else. *)
Answer(p, call) == calls' = [calls EXCEPT ![p] = IF calls[p].heard THEN call ELSE Idle]
Succeeds(p) == Answer(p, [calls[p] EXCEPT !.pc = "answered", !.result = "ok"])
Errs(p) ==
    Answer(p, [Idle EXCEPT !.pc = "answered", !.op = calls[p].op, !.result = "error",
                           !.heard = TRUE])

Stored == {n \in Names : users[n] # Null}

(* revoked_at is unset and expires_at is ahead.                            *)
Live(t) == t # Null /\ sessions[t] # Null /\ sessions[t].is = "valid"

-----------------------------------------------------------------------------
(* bootstrap: has_any_user, then the inserts of the user and its space.    *)
RunBootstrap(p, n, w) ==
    /\ calls[p].pc = "idle"
    /\ calls' = [calls EXCEPT ![p] =
                    [Idle EXCEPT !.pc = "asked", !.op = "bootstrap", !.name = n, !.password = w]]
    /\ UNCHANGED <<users, sessions, evidence>>

LookForAnyUser(p) ==
    /\ At(p, "asked", "bootstrap")
    /\ IF Stored = {} THEN Goes(p, "founding") ELSE Errs(p)
    /\ UNCHANGED <<users, sessions, evidence>>

(* The name is unique; nothing else is checked again.                      *)
Found(p) ==
    /\ At(p, "founding", "bootstrap")
    /\ users[calls[p].name] = Null
    /\ users' = [users EXCEPT ![calls[p].name] = calls[p].password]
    /\ Succeeds(p)
    /\ UNCHANGED <<sessions, evidence>>

-----------------------------------------------------------------------------
(* reset_credentials: only_user raises when there are two.                 *)
RunReset(p, w) ==
    /\ calls[p].pc = "idle"
    /\ calls' = [calls EXCEPT ![p] =
                    [Idle EXCEPT !.pc = "asked", !.op = "reset", !.password = w]]
    /\ UNCHANGED <<users, sessions, evidence>>

ReadOnlyUser(p) ==
    /\ At(p, "asked", "reset")
    /\ \/ /\ Stored = {}
          /\ Errs(p)
       \/ \E n \in Stored :
            /\ Stored = {n}
            /\ calls' = [calls EXCEPT ![p].pc = "rotating", ![p].name = n]
       \/ /\ Cardinality(Stored) > 1
          /\ Errs(p)
    /\ UNCHANGED <<users, sessions, evidence>>

Revoked(t) == [sessions EXCEPT ![t].is = "revoked"]

(* Fault: one session is revoked, not every one of the user. *)
RotateOne(p) ==
    /\ At(p, "rotating", "reset")
    /\ users' = [users EXCEPT ![calls[p].name] = calls[p].password]
    /\ \/ \E t \in Tokens : Live(t) /\ sessions' = Revoked(t)
       \/ (\A t \in Tokens : ~Live(t)) /\ UNCHANGED sessions
    /\ Errs(p)
    /\ UNCHANGED evidence

(* update_user, revoke_sessions and commit.  The command line composes the *)
(* service without an audit sink: _FailClosedAuditSink raises after the    *)
(* commit, and no event is left (sessions.py:309).                         *)
Rotate(p) ==
    /\ At(p, "rotating", "reset")
    /\ users' = [users EXCEPT ![calls[p].name] = calls[p].password]
    /\ sessions' = [t \in Tokens |->
                       IF sessions[t] # Null /\ sessions[t].user = calls[p].name
                       THEN [sessions[t] EXCEPT !.is = "revoked"] ELSE sessions[t]]
    /\ Errs(p)
    /\ UNCHANGED evidence

-----------------------------------------------------------------------------
(* login: verify, create the session, audit, answer.                       *)
ReadUser(p) ==
    /\ At(p, "asked", "login")
    /\ IF users[calls[p].name] = calls[p].password
       THEN Goes(p, "verified")
       ELSE calls' = [calls EXCEPT ![p].pc = "denying", ![p].name = Null, ![p].password = Null]
    /\ UNCHANGED <<users, sessions, evidence>>

(* The token is drawn at random: it is new.                                *)
CreateSession(p) ==
    /\ At(p, "verified", "login")
    /\ \E t \in Tokens :
         /\ sessions[t] = Null
         /\ sessions' = [sessions EXCEPT ![t] =
                            [user |-> calls[p].name, proof |-> calls[p].password,
                             is |-> "valid"]]
         /\ calls' = [calls EXCEPT ![p].pc = "welcoming", ![p].token = t,
                                     ![p].password = Null]
    /\ UNCHANGED <<users, evidence>>

(* Fault: the answer does not wait for the event. *)
AnswerLoginUnaudited(p) ==
    /\ At(p, "welcoming", "login")
    /\ Succeeds(p)
    /\ UNCHANGED <<users, sessions, evidence>>

AuditLogin(p) ==
    /\ At(p, "welcoming", "login")
    /\ evidence' = evidence \cup {Event("LOGIN", "SUCCESS", calls[p].name, calls[p].token)}
    /\ Succeeds(p)
    /\ UNCHANGED <<users, sessions>>

AuditDenied(p) ==
    /\ At(p, "denying", "login")
    /\ evidence' = evidence \cup {Event("LOGIN", "FAILURE", Null, Null)}
    /\ Errs(p)
    /\ UNCHANGED <<users, sessions>>

-----------------------------------------------------------------------------
(* require_authenticated_principal, for logout and for the session.        *)
Authenticate(p) ==
    /\ calls[p].pc = "asked" /\ calls[p].op \in {"logout", "session"}
    /\ IF Live(calls[p].token) THEN Goes(p, "authenticated") ELSE Errs(p)
    /\ UNCHANGED <<users, sessions, evidence>>

(* current_session reads the session a second time.                        *)
ReadSession(p) ==
    /\ At(p, "authenticated", "session")
    /\ IF Live(calls[p].token)
       THEN Answer(p, [calls[p] EXCEPT !.pc = "answered", !.result = "ok",
                                       !.name = sessions[calls[p].token].user])
       ELSE Errs(p)
    /\ UNCHANGED <<users, sessions, evidence>>

ValidateCsrf(p) ==
    /\ At(p, "authenticated", "logout")
    /\ IF Live(calls[p].token) /\ calls[p].csrf = calls[p].token
       THEN calls' = [calls EXCEPT ![p].pc = "revoking", ![p].csrf = Null]
       ELSE Errs(p)
    /\ UNCHANGED <<users, sessions, evidence>>

(* Fault: logout only forgets the cookie. *)
RevokeNothing(p) ==
    /\ At(p, "revoking", "logout")
    /\ Goes(p, "parting")
    /\ UNCHANGED <<users, sessions, evidence>>

(* revoke: what it returns is not looked at.                               *)
Revoke(p) ==
    /\ At(p, "revoking", "logout")
    /\ sessions' = Revoked(calls[p].token)
    /\ Goes(p, "parting")
    /\ UNCHANGED <<users, evidence>>

AuditLogout(p) ==
    /\ At(p, "parting", "logout")
    /\ evidence' = evidence \cup
         {Event("LOGOUT", "SUCCESS", sessions[calls[p].token].user, calls[p].token)}
    /\ Succeeds(p)
    /\ UNCHANGED <<users, sessions>>

-----------------------------------------------------------------------------
(* A unique name taken, a lock timeout, or the death of the process: what  *)
(* is committed stays, the caller gets an error.                           *)
Fail(p) ==
    /\ calls[p].pc \notin {"idle", "answered", "arrived"}
    /\ Errs(p)
    /\ UNCHANGED <<users, sessions, evidence>>

(* The lifetime of a session runs out.                                     *)
Expire(t) ==
    /\ Live(t)
    /\ sessions' = [sessions EXCEPT ![t].is = "expired"]
    /\ UNCHANGED <<users, evidence, calls>>

Serve(p) ==
    \/ \E n \in Names, w \in Passwords : RunBootstrap(p, n, w)
    \/ LookForAnyUser(p) \/ Found(p)
    \/ \E w \in Passwords : RunReset(p, w)
    \/ ReadOnlyUser(p) \/ Rotate(p)
    \/ ReadUser(p) \/ CreateSession(p) \/ AuditLogin(p) \/ AuditDenied(p)
    \/ Authenticate(p) \/ ReadSession(p)
    \/ ValidateCsrf(p) \/ Revoke(p) \/ AuditLogout(p)
    \/ Fail(p)
=============================================================================
