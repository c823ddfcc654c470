--------------------------- MODULE TransactionForm ---------------------------
(***************************************************************************)
(* The movements page: TransactionForm (frontend/src/features/transactions *)
(* /form.tsx) as TransactionsPage mounts it (page.tsx), over a network     *)
(* that loses requests and answers and delays both, to a ledger that is    *)
(* the at-most-once service of module AtMostOnce.  The user may click      *)
(* again, go back or leave before an answer has come.                      *)
(***************************************************************************)
EXTENDS FiniteSets, Naturals

CONSTANTS
    Contents,    \* what a movement may say: the signatures of its summary
    FormKeys, Drafts, FormCalls, MaxMounts, MaxIntents, Null

Mounts == 1..MaxMounts

ASSUME FormAssumption ==
    /\ MaxMounts \in Nat \ {0} /\ MaxIntents \in Nat
    /\ Null \notin Drafts /\ Contents \cap {Null, "none", "gone"} = {}
    /\ Null \notin [signature : Contents, key : FormKeys]

VARIABLES
    drafts,   \* drafts[d]: what a stored draft says, "none" yet, or "gone"
    posted,   \* the posted transactions
    form,     \* the mounted form: its number, the draft it edits, its summary
    retry,    \* retry[m]: the ref of mount m, a signature and its key, or Null
    sent,     \* sent[s]: a request of the page on its way, or Null
    wish      \* what the user is trying to post; no code reads it

formVars == <<drafts, posted, form, retry, sent, wish>>

InForm(mount, editing, summary) == [mount |-> mount, editing |-> editing, summary |-> summary]

FormInit ==
    /\ drafts = [d \in Drafts |-> "none"]
    /\ posted = {}
    /\ form = InForm(1, Null, Null)
    /\ retry = [m \in Mounts |-> Null]
    /\ sent = [s \in FormCalls |-> Null]
    /\ wish = [number |-> 0, content |-> Null, open |-> FALSE, disturbed |-> {}]

Stored == {d \in Drafts : drafts[d] \in Contents}
FreshKey(k) ==
    /\ \A m \in Mounts : retry[m] # Null => retry[m].key # k
    /\ \A r \in posted : r.key # k
    /\ \A s \in FormCalls : sent[s] # Null => sent[s].key # k

(* A request: "then" says what its handler does after it (save("draft") or *)
(* save("post")), "heard" whether the page still waits for the answer.     *)
Request(op, then, draft, content, key, number) ==
    [op |-> op, then |-> then, draft |-> draft, content |-> content, key |-> key,
     mount |-> form.mount, number |-> number, is |-> "sent", heard |-> TRUE]

Send(s, request) == sent[s] = Null /\ sent' = [sent EXCEPT ![s] = request]

-----------------------------------------------------------------------------
(* What the user does.                                                     *)
Prepare(c) ==
    /\ form.summary = Null
    /\ form' = [form EXCEPT !.summary = c]
    /\ UNCHANGED <<drafts, posted, retry, sent, wish>>

BackToEdit ==
    /\ form.summary # Null
    /\ form' = [form EXCEPT !.summary = Null]
    /\ UNCHANGED <<drafts, posted, retry, sent, wish>>

(* A form has the id of its draft for a key: another one is a new mount.   *)
Mounted(editing) ==
    /\ form.mount < MaxMounts
    /\ form' = InForm(form.mount + 1, editing, Null)
    /\ wish' = [wish EXCEPT !.open = FALSE]

(* Any draft the list has ever shown: lists come late and in any order.    *)
Edit(d) ==
    /\ drafts[d] # "none" /\ form.editing # d
    /\ Mounted(d)
    /\ UNCHANGED <<drafts, posted, retry, sent>>

(* Another page, or a list that could not be loaded, and back; or cancel.  *)
Leave ==
    /\ Mounted(Null)
    /\ UNCHANGED <<drafts, posted, retry, sent>>

(* The same movement as before, or a new one.                              *)
Wished(c) ==
    IF wish.open /\ wish.content = c THEN wish
    ELSE [wish EXCEPT !.number = @ + 1, !.content = c, !.open = TRUE]

(* The key of the ref while the signature is the same, else a new one.     *)
KeyFor(k) ==
    LET ref == retry[form.mount]
    IN  IF ref # Null /\ ref.signature = form.summary THEN k = ref.key ELSE FreshKey(k)

ClickPost(s, k) ==
    /\ form.summary # Null
    /\ Wished(form.summary).number <= MaxIntents
    /\ KeyFor(k)
    /\ retry' = [retry EXCEPT ![form.mount] = [signature |-> form.summary, key |-> k]]
    /\ wish' = Wished(form.summary)
    /\ Send(s, Request(IF form.editing = Null THEN "post" ELSE "update_draft", "post",
                       form.editing, form.summary, IF form.editing = Null THEN k ELSE Null,
                       wish'.number))
    /\ UNCHANGED <<drafts, posted, form>>

ClickSaveDraft(s) ==
    /\ form.summary # Null
    /\ Send(s, Request(IF form.editing = Null THEN "create_draft" ELSE "update_draft", "draft",
                       form.editing, form.summary, Null, 0))
    /\ UNCHANGED <<drafts, posted, form, retry, wish>>

Discard(s, d) ==
    /\ drafts[d] # "none"
    /\ Send(s, Request("discard_draft", "draft", d, Null, Null, 0))
    /\ UNCHANGED <<drafts, posted, form, retry, wish>>

-----------------------------------------------------------------------------
(* What the ledger does with a request; "done" is its success.             *)
Answered(s, is) ==
    sent' = [sent EXCEPT ![s] = IF sent[s].heard THEN [sent[s] EXCEPT !.is = is] ELSE Null]

ServeDraft(s) ==
    LET r == sent[s] IN
    /\ r # Null /\ r.is = "sent"
    /\ \/ /\ r.op = "create_draft"
          /\ \E d \in Drafts : drafts[d] = "none" /\ drafts' = [drafts EXCEPT ![d] = r.content]
       \/ /\ r.op = "update_draft" /\ r.draft \in Stored
          /\ drafts' = [drafts EXCEPT ![r.draft] = r.content]
       \/ /\ r.op = "discard_draft" /\ r.draft \in Stored
          /\ drafts' = [drafts EXCEPT ![r.draft] = "gone"]
    /\ Answered(s, "done")
    /\ UNCHANGED <<posted, form, retry, wish>>

(* A key that is taken answers what it did, to the same command only.      *)
ServePosting(s) ==
    LET r == sent[s]
        taken == {p \in posted : p.key = r.key}
        says == IF r.op = "post" THEN r.content ELSE drafts[r.draft]
    IN  /\ r # Null /\ r.is = "sent" /\ r.op \in {"post", "post_draft"}
        /\ IF taken # {}
           THEN /\ \A p \in taken : p.draft = r.draft /\ (r.op = "post" => p.content = r.content)
                /\ UNCHANGED <<drafts, posted>>
           ELSE /\ r.op = "post_draft" => r.draft \in Stored
                /\ posted' = posted \cup
                     {[key |-> r.key, draft |-> r.draft, content |-> says, number |-> r.number]}
                /\ drafts' = IF r.op = "post" THEN drafts ELSE [drafts EXCEPT ![r.draft] = "gone"]
        /\ Answered(s, "done")
        /\ UNCHANGED <<form, retry, wish>>

(* The request or its answer is lost, or the ledger refuses it.            *)
FailRequest(s) ==
    /\ sent[s] # Null /\ sent[s].is \in {"sent", "done"}
    /\ Answered(s, "failed")
    /\ UNCHANGED <<drafts, posted, form, retry, wish>>

(* The page gives an error while the request is still on its way.          *)
Disconnect(s) ==
    /\ sent[s] # Null /\ sent[s].is = "sent" /\ sent[s].heard
    /\ sent' = [sent EXCEPT ![s].heard = FALSE]
    /\ UNCHANGED <<drafts, posted, form, retry, wish>>

-----------------------------------------------------------------------------
(* The handlers of save().                                                 *)

(* An error leaves summary and key for the next click; a discard is        *)
(* followed by a list only.                                                *)
HandleOther(s) ==
    /\ sent[s] # Null
    /\ sent[s].is = "failed" \/ (sent[s].is = "done" /\ sent[s].op = "discard_draft")
    /\ sent' = [sent EXCEPT ![s] = Null]
    /\ UNCHANGED <<drafts, posted, form, retry, wish>>

(* After the update of its draft save("post") posts it, under the key the  *)
(* ref of its mount has by then; with none left it throws.                 *)
HandleUpdated(s) ==
    LET r == sent[s] IN
    /\ r # Null /\ r.is = "done" /\ r.op = "update_draft" /\ r.then = "post"
    /\ sent' = [sent EXCEPT ![s] =
                   IF retry[r.mount] = Null THEN Null
                   ELSE [r EXCEPT !.op = "post_draft", !.key = retry[r.mount].key, !.is = "sent"]]
    /\ UNCHANGED <<drafts, posted, form, retry, wish>>

(* onSaved: the page edits nothing any more; a form that edited a draft is *)
(* replaced by a new one, and its state with it.                           *)
Saved(mine) ==
    IF form.editing # Null THEN InForm(form.mount + 1, Null, Null)
    ELSE IF mine THEN [form EXCEPT !.summary = Null] ELSE form

HandleDraftSaved(s) ==
    LET r == sent[s] IN
    /\ r # Null /\ r.is = "done" /\ r.then = "draft" /\ r.op # "discard_draft"
    /\ form.editing # Null => form.mount < MaxMounts
    /\ form' = Saved(r.mount = form.mount)
    /\ wish' = [wish EXCEPT !.open = @ /\ form.editing = Null]
    /\ sent' = [sent EXCEPT ![s] = Null]
    /\ UNCHANGED <<drafts, posted, retry>>

(* A success that comes while the user is posting another movement takes   *)
(* the key of that one away: it is "disturbed".                            *)
Resolved(r) ==
    [wish EXCEPT !.open = @ /\ form.editing = Null /\ r.number # wish.number,
                 !.disturbed =
                    IF wish.open /\ r.number # wish.number /\ r.mount = form.mount
                    THEN @ \cup {wish.number} ELSE @]

(* Fault: the key is forgotten with every answer. *)
HandleAnyPosted(s) ==
    LET r == sent[s] IN
    /\ r # Null /\ r.is \in {"done", "failed"} /\ r.op \in {"post", "post_draft"}
    /\ retry' = [retry EXCEPT ![r.mount] = Null]
    /\ form.editing # Null => form.mount < MaxMounts
    /\ form' = IF r.is = "done" THEN Saved(r.mount = form.mount) ELSE form
    /\ wish' = IF r.is = "done" THEN Resolved(r) ELSE wish
    /\ sent' = [sent EXCEPT ![s] = Null]
    /\ UNCHANGED <<drafts, posted>>

HandlePosted(s) ==
    LET r == sent[s] IN
    /\ r # Null /\ r.is = "done" /\ r.op \in {"post", "post_draft"}
    /\ form.editing # Null => form.mount < MaxMounts
    /\ retry' = [retry EXCEPT ![r.mount] = Null]
    /\ form' = Saved(r.mount = form.mount)
    /\ wish' = Resolved(r)
    /\ sent' = [sent EXCEPT ![s] = Null]
    /\ UNCHANGED <<drafts, posted>>

FormNext ==
    \/ \E c \in Contents : Prepare(c)
    \/ BackToEdit \/ Leave
    \/ \E d \in Drafts : Edit(d)
    \/ \E s \in FormCalls :
         \/ \E k \in FormKeys : ClickPost(s, k)
         \/ ClickSaveDraft(s) \/ \E d \in Drafts : Discard(s, d)
         \/ ServeDraft(s) \/ ServePosting(s) \/ FailRequest(s) \/ Disconnect(s)
         \/ HandleOther(s) \/ HandleUpdated(s) \/ HandleDraftSaved(s) \/ HandlePosted(s)

FormSpec == FormInit /\ [][FormNext]_formVars

-----------------------------------------------------------------------------
(* Spec, risks ("Duplicación por reintentos"); AC-005.4: a movement the    *)
(* user confirms again and again until it is heard of - after errors, lost *)
(* answers, doubled clicks, a way back through the form - is posted once.  *)
(* The exception: while it was under way, the late success of another one  *)
(* came to the same form and took its key (form.tsx:162).                  *)
RetriedMovementPostsOnce ==
    \A n \in 1..MaxIntents \ wish.disturbed :
        Cardinality({p \in posted : p.number = n}) <= 1
=============================================================================
