--------------------------- MODULE SessionProvider ---------------------------
(***************************************************************************)
(* A browser tab beside the identity service: SessionProvider and its auth *)
(* API (frontend/src/features/auth), the fetch of api/client.ts, and the   *)
(* cookie jar.  A connection may break at any moment, the answer to a      *)
(* request may come late, and the tab may be reloaded.                     *)
(***************************************************************************)
EXTENDS Identity

VARIABLES
    jar,  \* the session cookie, or Null
    tab   \* what the provider shows and holds

tabVars == <<users, sessions, evidence, calls, jar, tab>>

Tabs ==
    [shown : {"loading", "anonymous", "authenticated"}, user : Names \cup {Null},
     csrf : Tokens \cup {Null}, submitting : BOOLEAN]

Loading == [shown |-> "loading", user |-> Null, csrf |-> Null, submitting |-> FALSE]
Anonymous == [Loading EXCEPT !.shown = "anonymous"]
SignedInAs(n, t) ==
    [shown |-> "authenticated", user |-> n, csrf |-> t, submitting |-> FALSE]

(* The tab before its first load: it resolves its session by reloading.    *)
TabInit == InitServer /\ jar = Null /\ tab = Loading

(* Every request carries the cookie; login does not look at it.            *)
Request(op) == [Idle EXCEPT !.pc = "asked", !.op = op, !.token = jar, !.heard = TRUE]
LoginRequest(n, w) ==
    [Request("login") EXCEPT !.token = Null, !.name = n, !.password = w]

(* A request that nobody hears goes on in the server, if it has not ended  *)
(* and does more than read.                                                *)
Unheard(call) ==
    IF call.pc \in {"answered", "arrived"} \/ call.op = "session" THEN Idle
    ELSE [call EXCEPT !.heard = FALSE]

(* Loading the page starts a new tab: answers on their way are heard by    *)
(* nobody (isActive), and the session is asked for.                        *)
Reload(p) ==
    /\ calls[p].pc = "idle"
    /\ tab' = Loading
    /\ calls' = [q \in Callers |->
                    IF q = p THEN Request("session") ELSE Unheard(calls[q])]
    /\ UNCHANGED <<users, sessions, evidence, jar>>

(* Fault: the form does not wait for the session to be resolved. *)
SubmitLoginEarly(p, n, w) ==
    /\ calls[p].pc = "idle"
    /\ tab.shown # "authenticated" /\ ~tab.submitting
    /\ tab' = [tab EXCEPT !.submitting = TRUE]
    /\ calls' = [calls EXCEPT ![p] = LoginRequest(n, w)]
    /\ UNCHANGED <<users, sessions, evidence, jar>>

SubmitLogin(p, n, w) ==
    /\ calls[p].pc = "idle"
    /\ tab.shown = "anonymous" /\ ~tab.submitting
    /\ tab' = [tab EXCEPT !.submitting = TRUE]
    /\ calls' = [calls EXCEPT ![p] = LoginRequest(n, w)]
    /\ UNCHANGED <<users, sessions, evidence, jar>>

(* The button stays enabled while a logout is under way.                   *)
ClickLogout(p) ==
    /\ calls[p].pc = "idle"
    /\ tab.shown = "authenticated"
    /\ calls' = [calls EXCEPT ![p] = [Request("logout") EXCEPT !.csrf = tab.csrf]]
    /\ UNCHANGED <<users, sessions, evidence, jar, tab>>

(* The headers of an answer: set_cookie of login, delete_cookie of logout. *)
Arrive(p) ==
    /\ calls[p].pc = "answered" /\ calls[p].heard
    /\ jar' = IF calls[p].result # "ok" \/ calls[p].op = "session" THEN jar
              ELSE IF calls[p].op = "login" THEN calls[p].token ELSE Null
    /\ Goes(p, "arrived")
    /\ UNCHANGED <<users, sessions, evidence, tab>>

(* An answer of a login that is no success leaves the form as it is.       *)
Shows(op, result, n, t) ==
    \/ /\ op \in {"login", "session"} /\ result = "ok"
       /\ tab' = SignedInAs(n, t)
    \/ /\ op = "session" /\ result # "ok"
       /\ tab' = Anonymous
    \/ /\ op = "login" /\ result # "ok"
       /\ tab' = [tab EXCEPT !.submitting = FALSE]
    \/ /\ op = "logout"
       /\ tab' = [tab EXCEPT !.shown = "anonymous", !.user = Null, !.csrf = Null]

Handle(p) ==
    /\ calls[p].pc = "arrived" /\ calls[p].heard
    /\ Shows(calls[p].op, calls[p].result, calls[p].name, calls[p].token)
    /\ calls' = [calls EXCEPT ![p] = Idle]
    /\ UNCHANGED <<users, sessions, evidence, jar>>

(* response.json() rejects outside the try of request(): the promise of    *)
(* the caller rejects, and no state is set (a 204 has no body).            *)
BodyLost(p) ==
    /\ calls[p].pc = "arrived" /\ calls[p].heard /\ calls[p].op # "logout"
    /\ calls' = [calls EXCEPT ![p] = Idle]
    /\ UNCHANGED <<users, sessions, evidence, jar, tab>>

(* The connection breaks before the headers: fetch rejects, the tab takes  *)
(* it for an error, and the server goes on.                                *)
Disconnect(p) ==
    /\ calls[p].pc \notin {"idle", "arrived"} /\ calls[p].heard
    /\ Shows(calls[p].op, "error", Null, Null)
    /\ calls' = [calls EXCEPT ![p] = Unheard(@)]
    /\ UNCHANGED <<users, sessions, evidence, jar>>

TabNext ==
    \/ \E p \in Callers :
         \/ Serve(p) /\ UNCHANGED <<jar, tab>>
         \/ \E n \in Names, w \in Passwords : SubmitLogin(p, n, w)
         \/ Reload(p) \/ ClickLogout(p)
         \/ Arrive(p) \/ Handle(p) \/ BodyLost(p) \/ Disconnect(p)
    \/ \E t \in Tokens : Expire(t) /\ UNCHANGED <<jar, tab>>

TabSpec == TabInit /\ [][TabNext]_tabVars

-----------------------------------------------------------------------------
TypeOK ==
    /\ users \in [Names -> Passwords \cup {Null}]
    /\ sessions \in [Tokens -> Sessions \cup {Null}]
    /\ evidence \subseteq Events
    /\ calls \in [Callers -> Calls]
    /\ jar \in Tokens \cup {Null}
    /\ tab \in Tabs

(* Whoever holds a session - in the cookie, or on the screen - holds one   *)
(* that a login opened for that user, and whose SUCCESS event is in the    *)
(* trail: the event is committed before the bearer leaves the server       *)
(* (service.py:187), whatever fails between the two.                       *)
GrantAudited(t) ==
    sessions[t] # Null /\ Event("LOGIN", "SUCCESS", sessions[t].user, t) \in evidence

HeldSessionsAudited ==
    /\ jar # Null => GrantAudited(jar)
    /\ tab.csrf # Null => GrantAudited(tab.csrf) /\ sessions[tab.csrf].user = tab.user
    /\ tab.shown = "authenticated" <=> tab.csrf # Null

(* The tab never sends the CSRF token of one session with the cookie of    *)
(* another, whatever is retried, doubled or late: at worst a late logout   *)
(* has taken the cookie away.                                              *)
CsrfFitsCookie == tab.shown = "authenticated" => jar \in {tab.csrf, Null}

(* A logout that reports success has ended its session for good, though    *)
(* the result of revoke is ignored and a reset, an expiry or a second      *)
(* logout may have come between its checks and the revocation.             *)
SignedOutIsOver ==
    \A p \in Callers :
        calls[p].op = "logout" /\ calls[p].result = "ok" => ~Live(calls[p].token)

(* Spec, scope: a reset invalidates the sessions before it.  A session     *)
(* opened with a password that is no longer its user's comes to life only  *)
(* from a login that had verified that password before the reset committed *)
(* (service.py:186); the reset itself leaves none.                         *)
Outdated(t) == Live(t) /\ users[sessions[t].user] # sessions[t].proof

OnlyOvertakenLoginsOutliveReset ==
    [][\A t \in Tokens : Outdated(t)' /\ ~Outdated(t) =>
         /\ sessions[t] = Null
         /\ \E p \in Callers :
              At(p, "verified", "login") /\ calls[p].name = sessions'[t].user]_tabVars
=============================================================================
