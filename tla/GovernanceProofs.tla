--------------------------- MODULE GovernanceProofs ---------------------------
(***************************************************************************)
(* What is proved of the governance framework, for every number of         *)
(* sessions, hooks, other writers, servers, specs and command lines: how   *)
(* often the Stop hook blocks, what the chain of events may hold, whom the *)
(* hook around MCP servers refuses, which numbers specs have and when the  *)
(* slot of the active spec is cleared, and how often evidence counts.      *)
(***************************************************************************)
EXTENDS StopLoop, EventChain, McpHealth, SpecLifecycle, Instincts, FiniteSetTheorems,
        WellFoundedInduction, TLAPS

(***************************************************************************)
(* StopLoop.  While calls of the hook come one after the other, the file   *)
(* counts at least the blocks, and a call that is about to block is still  *)
(* below the limit.                                                        *)
(***************************************************************************)
Budgets == [kind : {"none", "torn", "file"}, retries : Nat, active : BOOLEAN]
StopPoints == {"working", "bumping", "clearing", "emptying", "filling", "checking",
               "counting", "raising", "deleting"}
Turns == [pc : StopPoints, failed : BOOLEAN, again : BOOLEAN,
          next : {"working", "checking", "blocking"}, text : Budgets]

StopTypeOK ==
    /\ disturbed \in BOOLEAN /\ blocks \in Nat
    /\ budget \in Budgets
    /\ stops \in [Sessions -> Turns]

CallWithin(turn) ==
    /\ turn.pc \in {"emptying", "filling"} =>
         /\ blocks <= Retries(turn.text)
         /\ turn.next # "checking" => blocks < Retries(turn.text) /\ blocks < MaxRetries
    /\ turn.pc \in {"bumping", "clearing", "checking", "counting", "raising"} =>
         blocks <= Retries(budget)
    /\ turn.pc = "raising" => blocks < MaxRetries

OneCall == \A s, t \in Sessions : InHook(s) /\ InHook(t) => s = t
Covered == (\A s \in Sessions : ~InHook(s)) => blocks <= Retries(budget)

StopInv ==
    /\ StopTypeOK
    /\ BlocksWithinBudget
    /\ ~disturbed => OneCall /\ Covered /\ \A s \in Sessions : CallWithin(stops[s])

-----------------------------------------------------------------------------
\* What a budget's text counts is a number, and one more once it is raised.
LEMMA RetriesAreCounted ==
    ASSUME NEW text \in Budgets
    PROVE  /\ Retries(text) \in Nat
           /\ Spent(text) \in Budgets /\ Retries(Spent(text)) = Retries(text) + 1
           /\ text.kind = "file" => Retries([text EXCEPT !.active = FALSE]) = Retries(text)
           /\ [text EXCEPT !.active = FALSE] \in Budgets
           /\ NoFile \in Budgets /\ TornFile \in Budgets
<1>1. Retries(text) \in Nat
  BY DEF Budgets, Retries
<1>2. (Retries(text) + 1 < MaxRetries) \in BOOLEAN
  OBVIOUS
<1>3. Spent(text) = [kind |-> "file", retries |-> Retries(text) + 1,
                     active |-> Retries(text) + 1 < MaxRetries]
  BY DEF Spent, File
<1>4. Spent(text) \in Budgets /\ Retries(Spent(text)) = Retries(text) + 1
  <2>1. PICK up \in BOOLEAN : Spent(text) = [kind |-> "file", retries |-> Retries(text) + 1,
                                            active |-> up]
    BY <1>2, <1>3
  <2> QED
    BY <1>1, <2>1 DEF Budgets, Retries
<1>5. /\ [text EXCEPT !.active = FALSE] \in Budgets
      /\ text.kind = "file" => Retries([text EXCEPT !.active = FALSE]) = Retries(text)
  BY DEF Budgets, Retries
<1>6. NoFile \in Budgets /\ TornFile \in Budgets
  BY DEF Budgets, NoFile, TornFile
<1> QED
  BY <1>1, <1>4, <1>5, <1>6

\* The end of a call leaves a turn that is not in the hook.
LEMMA EndsAreTurns ==
    ASSUME NEW turn \in Turns
    PROVE  /\ Released(turn) \in Turns /\ Released(turn).pc = "working"
           /\ Blocked(turn) \in Turns /\ Blocked(turn).pc = "working"
BY DEF Turns, Released, Blocked, Turn, NoFile, Budgets, StopPoints

\* A step of one session's call keeps what the calls rely on: it reaches a
\* turn that may go on from there, or the last turn of the only call.
LEMMA OneTurnKeeps ==
    ASSUME StopInv, NEW s \in Sessions, InHook(s), NEW turn \in Turns, Becomes(s, turn),
           budget' \in Budgets, blocks' \in Nat, disturbed' = disturbed,
           ~disturbed => /\ turn.pc # "working" => CallWithin(turn)'
                         /\ turn.pc = "working" => blocks' <= Retries(budget')
                         /\ blocks' <= MaxRetries
    PROVE  StopInv'
<1>1. stops' = [stops EXCEPT ![s] = turn] /\ stops' \in [Sessions -> Turns]
  BY DEF StopInv, StopTypeOK, Becomes
<1>2. StopTypeOK'
  BY <1>1 DEF StopInv, StopTypeOK
<1>3. BlocksWithinBudget'
  BY DEF BlocksWithinBudget
<1>4. ASSUME ~disturbed'
      PROVE  OneCall' /\ Covered' /\ \A t \in Sessions : CallWithin(stops[t])'
  <2>1. \A t \in Sessions \ {s} : ~InHook(t) /\ stops'[t] = stops[t]
    BY <1>1, <1>4 DEF StopInv, OneCall, StopTypeOK
  <2>2. \A t \in Sessions \ {s} : ~InHook(t)' /\ stops'[t].pc = "working"
    BY <2>1 DEF InHook
  <2>3. stops'[s] = turn
    BY <1>1 DEF StopInv, StopTypeOK
  <2>4. OneCall'
    BY <2>2 DEF OneCall
  <2>5. Covered'
    BY <1>4, <2>3 DEF Covered, InHook
  <2>6. \A t \in Sessions \ {s} : CallWithin(stops[t])'
    BY <2>2 DEF CallWithin
  <2>7. CallWithin(stops[s])'
    <3>1. CASE turn.pc = "working"
      BY <3>1, <2>3 DEF CallWithin
    <3>2. CASE turn.pc # "working"
      BY <3>2, <1>4, <2>3 DEF CallWithin
    <3> QED
      BY <3>1, <3>2
  <2> QED
    BY <2>4, <2>5, <2>6, <2>7
<1> QED
  BY <1>2, <1>3, <1>4 DEF StopInv

\* A turn that is not in the hook begins a call, or changes its mind.
LEMMA OutsideKeeps ==
    ASSUME StopInv, NEW s \in Sessions, UseTool(s) \/ Stop(s)
    PROVE  StopInv'
<1>1. stops \in [Sessions -> Turns] /\ stops[s] \in Turns /\ stops[s].pc = "working"
  BY DEF StopInv, StopTypeOK, UseTool, Stop
<1>2. CASE UseTool(s)
  <2>1. PICK failed \in BOOLEAN : stops' = [stops EXCEPT ![s] = [stops[s] EXCEPT !.failed = failed]]
    BY <1>2 DEF UseTool, Becomes, AfterTool
  <2>2. /\ stops' \in [Sessions -> Turns]
        /\ \A t \in Sessions : stops'[t].pc = stops[t].pc /\ stops'[t].next = stops[t].next
                               /\ stops'[t].text = stops[t].text
    BY <1>1, <2>1 DEF Turns
  <2>3. budget' = budget /\ blocks' = blocks /\ disturbed' = disturbed
    BY <1>2 DEF UseTool
  <2>4. \A t \in Sessions : InHook(t)' <=> InHook(t)
    BY <2>2 DEF InHook
  <2>5. StopTypeOK' /\ BlocksWithinBudget'
    BY <2>2, <2>3 DEF StopInv, StopTypeOK, BlocksWithinBudget
  <2>6. ~disturbed => OneCall' /\ Covered'
    BY <2>3, <2>4 DEF StopInv, OneCall, Covered
  <2>7. ~disturbed => \A t \in Sessions : CallWithin(stops[t])'
    BY <2>2, <2>3 DEF StopInv, CallWithin
  <2> QED
    BY <2>3, <2>5, <2>6, <2>7 DEF StopInv
<1>3. CASE Stop(s)
  <2>1. PICK turn \in Turns :
            /\ stops' = [stops EXCEPT ![s] = turn]
            /\ turn.pc \in {"working", "bumping", "clearing"}
    <3>1. CASE stops[s].again
      BY <1>1, <1>3, <3>1, EndsAreTurns DEF Stop, Becomes
    <3>2. CASE ~stops[s].again
      <4>1. PICK pc \in {"bumping", "clearing"} :
                stops' = [stops EXCEPT ![s] = [stops[s] EXCEPT !.pc = pc]]
        BY <1>3, <3>2 DEF Stop, Becomes
      <4>2. /\ [stops[s] EXCEPT !.pc = pc] \in Turns
            /\ [stops[s] EXCEPT !.pc = pc].pc = pc
        BY <1>1 DEF Turns, StopPoints
      <4> QED
        BY <4>1, <4>2, Zenon
    <3> QED
      BY <3>1, <3>2
  <2>2. budget' = budget
    BY <1>3 DEF Stop
  <2>3. /\ stops' \in [Sessions -> Turns] /\ stops'[s] = turn
        /\ \A t \in Sessions \ {s} : stops'[t] = stops[t]
    BY <1>1, <2>1
  <2>4. ASSUME disturbed' PROVE StopInv'
    <3>1. blocks' \in Nat /\ disturbed' \in BOOLEAN
      <4>1. Disturbs \/ (blocks' = blocks /\ disturbed' = disturbed)
        BY <1>3 DEF Stop
      <4>2. CASE Disturbs
        BY <4>2 DEF Disturbs
      <4>3. CASE blocks' = blocks /\ disturbed' = disturbed
        BY <4>3 DEF StopInv, StopTypeOK
      <4> QED
        BY <4>1, <4>2, <4>3
    <3> QED
      BY <2>2, <2>3, <2>4, <3>1 DEF StopInv, StopTypeOK, BlocksWithinBudget
  <2>5. ASSUME ~disturbed' PROVE StopInv'
    <3>1. disturbed' = disturbed /\ blocks' = blocks /\ ~disturbed
      BY <1>3, <2>5 DEF Stop, Disturbs
    <3>2. /\ StopTypeOK' /\ BlocksWithinBudget'
          /\ OneCall /\ Covered /\ \A t \in Sessions : CallWithin(stops[t])
      BY <2>2, <2>3, <3>1 DEF StopInv, StopTypeOK, BlocksWithinBudget
    <3>3. CASE turn.pc = "working"
      \* The turn was over already: nothing enters the hook.
      <4>1. \A t \in Sessions : /\ InHook(t)' <=> InHook(t)
                                /\ t # s => CallWithin(stops[t])'
        BY <1>1, <2>2, <2>3, <3>1, <3>2, <3>3 DEF InHook, CallWithin
      <4>2. CallWithin(stops[s])'
        BY <2>3, <3>3 DEF CallWithin
      <4> QED
        BY <2>2, <3>1, <3>2, <4>1, <4>2 DEF StopInv, OneCall, Covered
    <3>4. CASE turn.pc # "working"
      <4>1. ~stops[s].again
        <5>1. SUFFICES ASSUME stops[s].again PROVE FALSE
          OBVIOUS
        <5>2. stops'[s] = Released(stops[s])
          BY <1>1, <1>3, <5>1 DEF Stop, Becomes
        <5> QED
          BY <1>1, <2>3, <3>4, <5>2, EndsAreTurns
      <4>2. \A t \in Sessions : ~InHook(t)
        BY <1>1, <1>3, <2>5, <4>1 DEF Stop, Disturbs, InHook
      <4>3. \A t \in Sessions \ {s} : ~InHook(t)' /\ CallWithin(stops[t])'
        BY <2>3, <4>2 DEF InHook, CallWithin
      <4>4. CallWithin(stops[s])'
        BY <2>1, <2>2, <2>3, <3>1, <3>2, <4>2 DEF CallWithin, Covered
      <4>5. OneCall'
        BY <4>3 DEF OneCall
      <4>6. Covered'
        BY <2>3, <3>4 DEF Covered, InHook
      <4> QED
        BY <3>1, <3>2, <4>3, <4>4, <4>5, <4>6 DEF StopInv
    <3> QED
      BY <3>3, <3>4
  <2> QED
    BY <2>4, <2>5
<1> QED
  BY <1>2, <1>3

\* A call that goes on, raises the count, gives it up or lets the agent go
\* leaves a turn that may go on from there.
LEMMA InsideKeeps ==
    ASSUME StopInv, NEW s \in Sessions,
           Bump(s) \/ Clear(s) \/ Empty(s) \/ Fill(s) \/ Skip(s) \/ Check(s) \/ Count(s)
             \/ Raise(s) \/ Delete(s)
    PROVE  StopInv'
<1> DEFINE turn == stops[s]
<1>1. /\ stops \in [Sessions -> Turns] /\ turn \in Turns /\ budget \in Budgets
      /\ blocks \in Nat /\ MaxRetries \in Nat /\ disturbed \in BOOLEAN
      /\ turn.text \in Budgets
  BY StopAssumption DEF StopInv, StopTypeOK, Turns
<1>2. InHook(s)
  BY DEF InHook, Bump, Clear, Empty, Fill, Skip, Check, Count, Raise, Delete
<1>3. /\ Retries(budget) \in Nat /\ Spent(budget) \in Budgets
      /\ Retries(Spent(budget)) = Retries(budget) + 1
      /\ Retries(turn.text) \in Nat /\ NoFile \in Budgets /\ TornFile \in Budgets
      /\ [budget EXCEPT !.active = FALSE] \in Budgets
      /\ budget.kind = "file" => Retries([budget EXCEPT !.active = FALSE]) = Retries(budget)
  BY <1>1, RetriesAreCounted
<1>4. ~disturbed => blocks <= MaxRetries /\ CallWithin(turn)
  BY DEF StopInv, BlocksWithinBudget
<1>5. \A text \in Budgets, next \in {"checking", "blocking"} :
        /\ [turn EXCEPT !.pc = "emptying", !.text = text, !.next = next] \in Turns
        /\ [turn EXCEPT !.pc = "emptying", !.text = text, !.next = next].pc = "emptying"
        /\ [turn EXCEPT !.pc = "emptying", !.text = text, !.next = next].text = text
        /\ [turn EXCEPT !.pc = "emptying", !.text = text, !.next = next].next = next
  BY <1>1 DEF Turns, StopPoints
<1>6. \A pc \in StopPoints :
        /\ [turn EXCEPT !.pc = pc] \in Turns /\ [turn EXCEPT !.pc = pc].pc = pc
        /\ [turn EXCEPT !.pc = pc].text = turn.text /\ [turn EXCEPT !.pc = pc].next = turn.next
  BY <1>1 DEF Turns
<1>7. /\ Released(turn) \in Turns /\ Released(turn).pc = "working"
      /\ Blocked(turn) \in Turns /\ Blocked(turn).pc = "working"
  BY <1>1, EndsAreTurns
<1>8. ASSUME UNCHANGED <<budget, blocks, disturbed>>,
             NEW next \in Turns, Becomes(s, next),
             ~disturbed => IF next.pc = "working" THEN blocks <= Retries(budget)
                           ELSE CallWithin(next)
      PROVE  StopInv'
  <2>1. ~disturbed /\ next.pc # "working" => CallWithin(next)'
    BY <1>8 DEF CallWithin
  <2> QED
    BY <1>1, <1>2, <1>4, <1>8, <2>1, OneTurnKeeps
<1>9. CASE Bump(s) \/ Raise(s)
  <2>1. PICK next \in {"checking", "blocking"} :
          /\ Writes(s, Spent(budget), next) /\ UNCHANGED <<budget, blocks, disturbed>>
          /\ ~disturbed /\ next # "checking" => blocks < MaxRetries
          /\ ~disturbed => blocks <= Retries(budget)
    BY <1>4, <1>9 DEF Bump, Raise, CallWithin
  <2>2. Becomes(s, [turn EXCEPT !.pc = "emptying", !.text = Spent(budget), !.next = next])
    BY <2>1 DEF Writes
  <2>3. PICK after \in Turns :
          /\ after.pc = "emptying" /\ after.text = Spent(budget) /\ after.next = next
          /\ Becomes(s, after)
    <3>1. PICK text \in Budgets : text = Spent(budget)
      BY <1>3
    <3> DEFINE raised == [turn EXCEPT !.pc = "emptying", !.text = text, !.next = next]
    <3>2. /\ raised \in Turns /\ raised.pc = "emptying" /\ raised.text = text
          /\ raised.next = next
      BY <1>1, <2>1, <3>1 DEF Turns, StopPoints
    <3>3. Becomes(s, raised)
      BY <2>2, <3>1
    <3> HIDE DEF raised
    <3> QED
      BY <3>1, <3>2, <3>3
  <2>4. ~disturbed => CallWithin(after)
    BY <1>1, <1>3, <2>1, <2>3 DEF CallWithin
  <2> QED
    BY <1>8, <2>1, <2>3, <2>4
<1>10. CASE Clear(s)
  <2>1. /\ UNCHANGED <<budget, blocks, disturbed>>
        /\ ~disturbed => blocks <= Retries(budget)
    BY <1>4, <1>10 DEF Clear, CallWithin
  <2>2. CASE budget.kind = "file" /\ budget.active
    <3> DEFINE text == [budget EXCEPT !.active = FALSE]
               after == [turn EXCEPT !.pc = "emptying", !.text = text, !.next = "checking"]
    <3>1. /\ after \in Turns /\ after.pc = "emptying" /\ after.text = text
          /\ after.next = "checking"
      BY <1>3, <1>5
    <3>2. Becomes(s, after)
      BY <1>10, <2>2 DEF Clear, Writes
    <3>3. Retries(text) = Retries(budget)
      BY <1>3, <2>2
    <3> HIDE DEF after, text
    <3>4. ~disturbed => CallWithin(after)
      BY <1>1, <1>3, <2>1, <3>1, <3>3 DEF CallWithin
    <3> QED
      BY <1>8, <2>1, <3>1, <3>2, <3>4
  <2>3. CASE ~(budget.kind = "file" /\ budget.active)
    <3> DEFINE after == [turn EXCEPT !.pc = "checking"]
    <3>1. after \in Turns /\ after.pc = "checking"
      BY <1>6 DEF StopPoints
    <3>2. Becomes(s, after)
      BY <1>10, <2>3 DEF Clear
    <3> HIDE DEF after
    <3>3. ~disturbed => CallWithin(after)
      BY <2>1, <3>1 DEF CallWithin
    <3> QED
      BY <1>8, <2>1, <3>1, <3>2, <3>3
  <2> QED
    BY <2>2, <2>3
<1>11. CASE Empty(s)
  <2>1. PICK after \in Turns :
          /\ after.pc = "filling" /\ after.text = turn.text /\ after.next = turn.next
          /\ Becomes(s, after)
    BY <1>6, <1>11 DEF StopPoints, Empty
  <2>2. /\ UNCHANGED <<blocks, disturbed>> /\ turn.pc = "emptying" /\ budget' \in Budgets
    BY <1>3, <1>11 DEF Empty
  <2>3. ~disturbed => CallWithin(after)'
    BY <1>4, <2>1, <2>2 DEF CallWithin
  <2> QED
    BY <1>1, <1>2, <1>4, <2>1, <2>2, <2>3, OneTurnKeeps
<1>12. CASE Fill(s)
  <2>1. /\ turn.pc = "filling" /\ budget' = turn.text /\ budget' \in Budgets
        /\ disturbed' = disturbed
    BY <1>1, <1>12 DEF Fill
  <2>2. CASE turn.next = "checking"
    <3>1. PICK after \in Turns : after.pc = "checking" /\ Becomes(s, after)
      <4>1. /\ [turn EXCEPT !.pc = "checking", !.text = NoFile] \in Turns
            /\ [turn EXCEPT !.pc = "checking", !.text = NoFile].pc = "checking"
        BY <1>1, <1>3 DEF Turns, StopPoints
      <4>2. Becomes(s, [turn EXCEPT !.pc = "checking", !.text = NoFile])
        BY <1>12, <2>2 DEF Fill
      <4> QED
        BY <4>1, <4>2
    <3>2. blocks' = blocks
      BY <1>12, <2>2 DEF Fill
    <3>3. Retries(budget') = Retries(turn.text)
      BY <2>1
    <3>4. ~disturbed => CallWithin(after)'
      BY <1>4, <2>1, <3>1, <3>2, <3>3 DEF CallWithin
    <3> QED
      BY <1>1, <1>2, <1>4, <2>1, <3>1, <3>2, <3>4, OneTurnKeeps
  <2>3. CASE turn.next # "checking"
    <3>1. ~disturbed => blocks < Retries(turn.text) /\ blocks < MaxRetries
      BY <1>4, <2>1, <2>3 DEF CallWithin
    <3>2. Retries(budget') = Retries(turn.text)
      BY <2>1
    <3>3. CASE Blocking
      <4>1. Becomes(s, Blocked(turn)) /\ blocks' = IF disturbed THEN 0 ELSE blocks + 1
        BY <1>12, <2>3, <3>3 DEF Fill
      <4>2. /\ blocks' \in Nat
            /\ ~disturbed => blocks' <= Retries(budget') /\ blocks' <= MaxRetries
        BY <1>1, <1>3, <3>1, <3>2, <4>1
      <4> QED
        BY <1>2, <1>7, <2>1, <4>1, <4>2, OneTurnKeeps
    <3>4. CASE ~Blocking
      <4>1. Becomes(s, Released(turn)) /\ blocks' = blocks
        BY <1>12, <2>3, <3>4 DEF Fill
      <4>2. ~disturbed => blocks' <= Retries(budget') /\ blocks' <= MaxRetries
        BY <1>1, <1>3, <3>1, <3>2, <4>1
      <4> QED
        BY <1>1, <1>2, <1>7, <2>1, <4>1, <4>2, OneTurnKeeps
    <3> QED
      BY <3>3, <3>4
  <2> QED
    BY <2>2, <2>3
<1>13. CASE Skip(s)
  <2>1. /\ UNCHANGED <<budget, blocks, disturbed>> /\ Becomes(s, Released(turn))
        /\ ~disturbed => blocks <= Retries(budget)
    BY <1>4, <1>13 DEF Skip, CallWithin
  <2> QED
    BY <1>7, <1>8, <2>1
<1>14. CASE Check(s) \/ Count(s)
  <2>1. PICK pc \in {"deleting", "counting", "raising"} :
          /\ Becomes(s, [turn EXCEPT !.pc = pc]) /\ UNCHANGED <<budget, blocks, disturbed>>
          /\ pc = "raising" => ~(Retries(budget) >= MaxRetries)
          /\ ~disturbed => blocks <= Retries(budget)
    BY <1>4, <1>14 DEF Check, Count, CallWithin
  <2> DEFINE after == [turn EXCEPT !.pc = pc]
  <2>2. after \in Turns /\ after.pc = pc
    BY <1>6 DEF StopPoints
  <2> HIDE DEF after
  <2>3. ~disturbed => CallWithin(after)
    BY <1>1, <1>3, <2>1, <2>2 DEF CallWithin
  <2> QED
    BY <1>8, <2>1, <2>2, <2>3 DEF after
<1>15. CASE Delete(s)
  <2>1. /\ budget' = NoFile /\ blocks' = 0 /\ disturbed' = disturbed
        /\ Becomes(s, Released(turn))
    BY <1>15 DEF Delete
  <2>2. Retries(budget') = 0
    BY <2>1 DEF Retries, NoFile
  <2> QED
    BY <1>1, <1>2, <1>3, <1>7, <2>1, <2>2, OneTurnKeeps
<1> QED
  BY <1>9, <1>10, <1>11, <1>12, <1>13, <1>14, <1>15

\* No step of any session leads out of the invariant.
LEMMA StopInvHolds == StopSpec => []StopInv
<1>1. StopInit => StopInv
  <2> SUFFICES ASSUME StopInit PROVE StopInv
    OBVIOUS
  <2>1. /\ budget = NoFile /\ blocks = 0 /\ disturbed = FALSE
        /\ \A s \in Sessions : stops[s] = Turn
        /\ stops = [s \in Sessions |-> Turn]
    BY DEF StopInit
  <2>2. Turn \in Turns /\ Turn.pc = "working" /\ NoFile \in Budgets
    BY DEF Turn, Turns, NoFile, Budgets, StopPoints
  <2>3. StopTypeOK
    BY <2>1, <2>2 DEF StopTypeOK
  <2>4. \A s \in Sessions : ~InHook(s) /\ CallWithin(stops[s])
    BY <2>1, <2>2 DEF InHook, CallWithin
  <2>5. blocks <= Retries(budget) /\ blocks <= MaxRetries
    BY <2>1, StopAssumption DEF Retries, NoFile
  <2> QED
    BY <2>3, <2>4, <2>5 DEF StopInv, OneCall, Covered, BlocksWithinBudget
<1>2. StopInv /\ [StopNext]_stopVars => StopInv'
  <2> SUFFICES ASSUME StopInv, [StopNext]_stopVars PROVE StopInv'
    OBVIOUS
  <2>1. CASE TimePasses \/ UNCHANGED stopVars
    <3>1. UNCHANGED <<budget, stops, blocks, disturbed>>
      BY <2>1 DEF TimePasses, stopVars
    <3> QED
      BY <3>1 DEF StopInv, StopTypeOK, BlocksWithinBudget, OneCall, Covered, CallWithin, InHook
  <2>2. ASSUME NEW s \in Sessions, UseTool(s) \/ Stop(s) PROVE StopInv'
    BY <2>2, OutsideKeeps
  <2>3. ASSUME NEW s \in Sessions,
               Bump(s) \/ Clear(s) \/ Empty(s) \/ Fill(s) \/ Skip(s) \/ Check(s) \/ Count(s)
                 \/ Raise(s) \/ Delete(s)
        PROVE  StopInv'
    BY <2>3, InsideKeeps
  <2>4. ASSUME NEW s \in Sessions, BreakOff(s) PROVE StopInv'
    <3>1. Released(stops[s]) \in Turns
      BY <2>4, EndsAreTurns DEF StopInv, StopTypeOK
    <3>2. stops' \in [Sessions -> Turns] /\ budget' = budget /\ blocks' = 0 /\ disturbed' = TRUE
      BY <2>4, <3>1 DEF BreakOff, Becomes, Disturbs, StopInv, StopTypeOK
    <3> QED
      BY <3>2 DEF StopInv, StopTypeOK, BlocksWithinBudget
  <2> QED
    BY <2>1, <2>2, <2>3, <2>4 DEF StopNext
<1> QED
  BY <1>1, <1>2, PTL DEF StopSpec

(* For every number of sessions and every limit: while calls come one      *)
(* after the other and to their end, the agents of a project are sent back *)
(* to work at most AIENG_RALPH_MAX_RETRIES times before one is let go for  *)
(* good.                                                                   *)
THEOREM BudgetBoundsTheBlocks == StopSpec => []BlocksWithinBudget
<1>1. StopInv => BlocksWithinBudget
  BY DEF StopInv
<1> QED
  BY <1>1, StopInvHolds, PTL

-----------------------------------------------------------------------------
(***************************************************************************)
(* EventChain.  A hook that holds the lock and has read its pointer points *)
(* at a line with no line of another holder after it, and the lines of the *)
(* log do likewise.                                                        *)
(***************************************************************************)
Runs == [pc : {"off", "main", "asking", "reading", "appending", "ended"}, stage : Stages,
         locked : BOOLEAN, prev : Nat, raised : BOOLEAN, left : Nat]

EventTypeOK ==
    /\ log \in Seq(Line) /\ holder \in SUBSET Writers
    /\ writers \in [Writers -> Runs]

PointsAt(lines, last, prev) ==
    \E j \in 0..last :
      /\ \A k \in j + 1..last : ~lines[k].locked
      /\ prev \in {j, 0}
      /\ prev = 0 => j = 0 \/ ~lines[j].whole

Chained(lines) ==
    \A i \in 1..Len(lines) :
        lines[i].stamped /\ lines[i].locked => PointsAt(lines, i - 1, lines[i].prev)

HolderOK(w) ==
    LET run == writers[w] IN
    run.locked =>
      /\ holder = {w} /\ run.pc \in {"reading", "appending"}
      /\ w \in Hooks /\ run.pc = "appending" => PointsAt(log, Len(log), run.prev)

EventInv == EventTypeOK /\ Chained(log) /\ \A w \in Writers : HolderOK(w)

-----------------------------------------------------------------------------
(* A log goes on: no line of a holder is new, no broken line is whole.     *)
GoesOn(lines, last, after, end) ==
    /\ last \in Nat /\ end \in Nat /\ last <= end
    /\ \A k \in 1..last : /\ after[k].locked => lines[k].locked
                          /\ after[k].whole => lines[k].whole
    /\ \A k \in last + 1..end : ~after[k].locked

\* Lines further on, and a break of the line pointed at, leave a pointer
\* what it was, as long as no line of a holder comes in between.
LEMMA PointerStays ==
    ASSUME NEW lines, NEW last, NEW after, NEW end, NEW prev,
           GoesOn(lines, last, after, end), PointsAt(lines, last, prev)
    PROVE  PointsAt(after, end, prev)
<1>0. /\ last \in Nat /\ end \in Nat /\ last <= end
      /\ \A k \in 1..last : /\ after[k].locked => lines[k].locked
                            /\ after[k].whole => lines[k].whole
      /\ \A k \in last + 1..end : ~after[k].locked
  BY DEF GoesOn
<1>1. PICK j \in 0..last : /\ \A k \in j + 1..last : ~lines[k].locked
                           /\ prev \in {j, 0}
                           /\ prev = 0 => j = 0 \/ ~lines[j].whole
  BY DEF PointsAt
<1>2. j \in 0..end /\ j \in Nat
  BY <1>0, <1>1
<1>3. \A k \in j + 1..end : ~after[k].locked
  <2> TAKE k \in j + 1..end
  <2>1. CASE k <= last
    <3>1. k \in 1..last /\ k \in j + 1..last
      BY <1>0, <1>2, <2>1
    <3> QED
      BY <1>0, <1>1, <3>1, Zenon
  <2>2. CASE ~(k <= last)
    BY <1>0, <1>1, <1>2, <2>2
  <2> QED
    BY <2>1, <2>2
<1>4. prev = 0 => j = 0 \/ ~after[j].whole
  <2>1. j = 0 \/ j \in 1..last
    BY <1>0, <1>2
  <2> QED
    BY <1>0, <1>1, <2>1, Zenon
<1> QED
  BY <1>1, <1>2, <1>3, <1>4 DEF PointsAt

\* A line is appended, or breaks the last one that has no end: what pointed
\* well still does, and so does the new line when it did before.
LEMMA AppendedKeeps ==
    ASSUME NEW lines \in Seq(Line), NEW line \in Line, Chained(lines),
           line.stamped /\ line.locked => PointsAt(lines, Len(lines), line.prev)
    PROVE  /\ Appended(lines, line) \in Seq(Line)
           /\ Chained(Appended(lines, line))
           /\ ~line.locked => \A prev \in Nat :
                 PointsAt(lines, Len(lines), prev)
                   => PointsAt(Appended(lines, line), Len(Appended(lines, line)), prev)
<1> DEFINE after == Appended(lines, line)
<1>1. Len(lines) \in Nat /\ \A k \in 1..Len(lines) : lines[k] \in Line
  OBVIOUS
<1>2. CASE Torn(lines)
  <2> DEFINE n == Len(lines)
             partial == [line EXCEPT !.stamped = FALSE, !.whole = FALSE,
                                    !.locked = @ /\ lines[n].locked]
  <2>1. n \in 1..n /\ lines[n] \in Line
    BY <1>1, <1>2 DEF Torn
  <2>2. PICK locked \in BOOLEAN : locked <=> line.locked /\ lines[n].locked
    OBVIOUS
  <2>3. /\ line.locked \in BOOLEAN /\ lines[n].locked \in BOOLEAN
        /\ locked = (line.locked /\ lines[n].locked)
    BY <2>1, <2>2 DEF Line
  <2>4. partial = [line EXCEPT !.stamped = FALSE, !.whole = FALSE, !.locked = locked]
    BY <2>3
  <2>5. /\ partial \in Line /\ ~partial.stamped /\ ~partial.whole
        /\ partial.locked => line.locked /\ lines[n].locked
    BY <2>2, <2>4 DEF Line
  <2>6. after = [lines EXCEPT ![n] = partial]
    BY <1>2 DEF Appended
  <2> HIDE DEF partial
  <2>7. /\ after \in Seq(Line) /\ Len(after) = n
        /\ after[n] = partial /\ \A k \in 1..n : k # n => after[k] = lines[k]
    BY <2>1, <2>5, <2>6
  <2>8. \A k \in 1..n : /\ after[k].locked => lines[k].locked
                        /\ after[k].whole => lines[k].whole
    BY <2>5, <2>7
  <2> HIDE DEF after
  <2>9. Chained(after)
    <3> SUFFICES ASSUME NEW i \in 1..n, after[i].stamped, after[i].locked
                 PROVE  PointsAt(after, i - 1, after[i].prev)
      BY <2>7 DEF Chained
    <3>1. i # n /\ after[i] = lines[i]
      BY <2>5, <2>7
    <3>2. PointsAt(lines, i - 1, lines[i].prev) /\ lines[i].prev \in Nat
      BY <1>1, <3>1 DEF Chained, Line
    <3>3. GoesOn(lines, i - 1, after, i - 1)
      BY <1>1, <2>8 DEF GoesOn
    <3> QED
      BY <3>1, <3>2, <3>3, PointerStays
  <2>10. ASSUME NEW prev \in Nat, PointsAt(lines, n, prev) PROVE PointsAt(after, Len(after), prev)
    <3>1. GoesOn(lines, n, after, n)
      BY <1>1, <2>8 DEF GoesOn
    <3>2. PointsAt(after, n, prev)
      BY <2>10, <3>1, PointerStays
    <3> QED
      BY <2>7, <3>2
  <2> QED
    BY <2>7, <2>9, <2>10 DEF after
<1>3. CASE ~Torn(lines)
  <2>1. after = Append(lines, line)
    BY <1>3 DEF Appended
  <2>2. /\ after \in Seq(Line) /\ Len(after) = Len(lines) + 1
        /\ after[Len(lines) + 1] = line /\ \A k \in 1..Len(lines) : after[k] = lines[k]
    BY <2>1
  <2> HIDE DEF after
  <2>3. Chained(after)
    <3> SUFFICES ASSUME NEW i \in 1..Len(lines) + 1, after[i].stamped, after[i].locked
                 PROVE  PointsAt(after, i - 1, after[i].prev)
      BY <2>2 DEF Chained
    <3>1. PointsAt(lines, i - 1, after[i].prev) /\ after[i].prev \in Nat
      <4>1. CASE i = Len(lines) + 1
        <5>1. i - 1 = Len(lines) /\ after[i] = line
          BY <1>1, <2>2, <4>1
        <5> QED
          BY <5>1 DEF Line
      <4>2. CASE i # Len(lines) + 1
        <5>1. i \in 1..Len(lines) /\ after[i] = lines[i]
          BY <1>1, <2>2, <4>2
        <5> QED
          BY <1>1, <5>1 DEF Chained, Line
      <4> QED
        BY <4>1, <4>2
    <3>2. GoesOn(lines, i - 1, after, i - 1)
      BY <1>1, <2>2 DEF GoesOn
    <3> QED
      BY <3>1, <3>2, PointerStays
  <2>4. ASSUME ~line.locked, NEW prev \in Nat, PointsAt(lines, Len(lines), prev)
        PROVE  PointsAt(after, Len(after), prev)
    <3>1. GoesOn(lines, Len(lines), after, Len(lines) + 1)
      BY <1>1, <2>2, <2>4 DEF GoesOn
    <3>2. PointsAt(after, Len(lines) + 1, prev)
      BY <2>4, <3>1, PointerStays
    <3> QED
      BY <2>2, <3>2
  <2> QED
    BY <2>2, <2>3, <2>4 DEF after
<1> QED
  BY <1>2, <1>3

\* What follows an emission, a return and an end is a run that waits, works
\* or is over, without the lock.
LEMMA RunsGoOn ==
    ASSUME NEW run \in Runs
    PROVE  /\ \A failed \in BOOLEAN : AfterEmission(run, failed) \in Runs
                                      /\ ~AfterEmission(run, failed).locked
           /\ InMain(run) \in Runs /\ ~InMain(run).locked
           /\ \A stage \in Stages : Asking(run, stage) \in Runs /\ ~Asking(run, stage).locked
           /\ Ended \in Runs /\ ~Ended.locked /\ NotStarted \in Runs /\ ~NotStarted.locked
<1>1. /\ InMain(run) \in Runs /\ ~InMain(run).locked
      /\ \A stage \in Stages : /\ Asking(run, stage) \in Runs /\ ~Asking(run, stage).locked
                               /\ [Asking(run, stage) EXCEPT !.raised = TRUE] \in Runs
                               /\ ~[Asking(run, stage) EXCEPT !.raised = TRUE].locked
  BY DEF Runs, InMain, Asking
<1>2. Ended \in Runs /\ ~Ended.locked /\ NotStarted \in Runs /\ ~NotStarted.locked
  BY EventsAssumption DEF Runs, Ended, NotStarted, Stages
<1>3. {"heartbeat", "error"} \subseteq Stages
  BY DEF Stages
<1>4. ASSUME NEW failed \in BOOLEAN
      PROVE  AfterEmission(run, failed) \in Runs /\ ~AfterEmission(run, failed).locked
  <2>1. \/ AfterEmission(run, failed) = InMain(run)
        \/ AfterEmission(run, failed) = Ended
        \/ AfterEmission(run, failed) = Asking(run, "error")
        \/ AfterEmission(run, failed) = [Asking(run, "heartbeat") EXCEPT !.raised = TRUE]
    <3>1. run.stage \in Stages
      BY DEF Runs
    <3> QED
      BY <3>1 DEF AfterEmission, Stages
  <2> QED
    BY <1>1, <1>2, <1>3, <2>1
<1> QED
  BY <1>1, <1>2, <1>4

\* A writer's line, or what is left of it, keeps the chain and the pointers
\* of the others; the writer gives the lock back.
LEMMA LineKeeps ==
    ASSUME EventInv, NEW w \in Writers, NEW line \in Line,
           line.locked => writers[w].locked, line.stamped => w \in Hooks,
           line.prev = writers[w].prev, writers[w].pc = "appending" \/ ~writers[w].locked,
           log' = log \/ log' = Appended(log, line),
           holder' = holder \ {w} \/ (holder' = holder /\ ~writers[w].locked),
           NEW run \in Runs, ~run.locked, writers' = [writers EXCEPT ![w] = run]
    PROVE  EventInv'
<1>1. /\ log \in Seq(Line) /\ writers \in [Writers -> Runs] /\ holder \in SUBSET Writers
      /\ Chained(log) /\ \A v \in Writers : HolderOK(v)
  BY DEF EventInv, EventTypeOK
<1>2. line.stamped /\ line.locked => PointsAt(log, Len(log), line.prev)
  BY <1>1 DEF HolderOK
<1>3. log' \in Seq(Line) /\ Chained(log')
  BY <1>1, <1>2, AppendedKeeps
<1>4. EventTypeOK'
  BY <1>1, <1>3 DEF EventTypeOK
<1>5. ASSUME NEW v \in Writers PROVE HolderOK(v)'
  <2>1. CASE v = w
    BY <1>1, <2>1 DEF HolderOK
  <2>2. CASE v # w
    <3>1. writers'[v] = writers[v] /\ writers[v] \in Runs
      BY <1>1, <2>2
    <3>2. SUFFICES ASSUME writers[v].locked
                   PROVE  /\ holder' = {v} /\ writers[v].pc \in {"reading", "appending"}
                          /\ v \in Hooks /\ writers[v].pc = "appending"
                               => PointsAt(log', Len(log'), writers[v].prev)
      BY <3>1 DEF HolderOK
    <3>3. HolderOK(v) /\ holder = {v}
      BY <1>1, <3>2 DEF HolderOK
    <3>4. ~writers[w].locked
      BY <1>1, <2>2, <3>3 DEF HolderOK
    <3>5. holder' = {v} /\ ~line.locked /\ writers[v].prev \in Nat
      BY <2>2, <3>1, <3>3, <3>4 DEF Runs
    <3>6. PointsAt(log, Len(log), writers[v].prev)
            => PointsAt(log', Len(log'), writers[v].prev)
      BY <1>1, <1>2, <3>5, AppendedKeeps
    <3> QED
      BY <3>2, <3>3, <3>5, <3>6 DEF HolderOK
  <2> QED
    BY <2>1, <2>2
<1> QED
  BY <1>3, <1>4, <1>5 DEF EventInv

\* A step that touches no line keeps them all.
LEMMA QuietKeeps ==
    ASSUME EventInv, NEW w \in Writers, NEW run \in Runs,
           writers' = [writers EXCEPT ![w] = run], log' = log,
           \/ holder' = holder /\ ~run.locked /\ ~writers[w].locked
           \/ holder = {} /\ holder' = {w} /\ run.pc \in {"reading", "appending"}
              /\ (w \in Hooks => run.pc = "reading")
           \/ holder' = holder /\ run.locked = writers[w].locked /\ run.pc = "appending"
              /\ writers[w].pc = "reading" /\ PointsAt(log, Len(log), run.prev)
    PROVE  EventInv'
<1>1. /\ log \in Seq(Line) /\ writers \in [Writers -> Runs] /\ holder \in SUBSET Writers
      /\ \A v \in Writers : HolderOK(v)
  BY DEF EventInv, EventTypeOK
<1>2. /\ writers'[w] = run /\ writers' \in [Writers -> Runs]
      /\ \A v \in Writers : v # w => writers'[v] = writers[v]
  BY <1>1
<1>3. HolderOK(w)'
  BY <1>1, <1>2 DEF HolderOK
<1>4. \A v \in Writers : v # w => HolderOK(v)'
  BY <1>1, <1>2 DEF HolderOK
<1>5. EventTypeOK' /\ Chained(log)'
  BY <1>1, <1>2 DEF EventInv, EventTypeOK
<1> QED
  BY <1>3, <1>4, <1>5 DEF EventInv

\* A writer's line, and what a partial write leaves of it.
LEMMA LinesAreLines ==
    ASSUME EventInv, NEW w \in Writers
    PROVE  /\ LineOf(w) \in Line /\ LineOf(w).prev = writers[w].prev
           /\ LineOf(w).locked <=> writers[w].locked
           /\ LineOf(w).stamped <=> w \in Hooks
           /\ \A lines \in Remains(w) :
                lines = log \/ \E line \in Line :
                   /\ lines = Appended(log, line) /\ line.prev = writers[w].prev
                   /\ line.locked => writers[w].locked
                   /\ line.stamped => w \in Hooks
<1>1. writers[w] \in Runs
  BY DEF EventInv, EventTypeOK
<1>2. (w \in Hooks) \in BOOLEAN
  OBVIOUS
<1>3. /\ LineOf(w) \in Line /\ LineOf(w).prev = writers[w].prev
      /\ LineOf(w).locked = writers[w].locked /\ LineOf(w).stamped = (w \in Hooks)
  BY <1>1, <1>2 DEF Line, Runs, LineOf
<1>4. PICK whole_line \in Line : whole_line = LineOf(w)
  BY <1>3
<1>5. ASSUME NEW lines \in Remains(w), lines # log
      PROVE  \E line \in Line : /\ lines = Appended(log, line) /\ line.prev = writers[w].prev
                                /\ line.locked => writers[w].locked
                                /\ line.stamped => w \in Hooks
  <2>1. PICK whole \in BOOLEAN :
            lines = Appended(log, [whole_line EXCEPT !.whole = whole, !.ended = FALSE,
                                                     !.stamped = @ /\ whole])
    BY <1>4, <1>5 DEF Remains
  <2>2. PICK first \in BOOLEAN : first = (whole_line.stamped /\ whole)
    BY <1>2, <2>1
  <2> DEFINE line == [whole_line EXCEPT !.whole = whole, !.ended = FALSE, !.stamped = first]
  <2>3. lines = Appended(log, line)
    BY <2>1, <2>2
  <2>4. /\ line \in Line /\ line.prev = whole_line.prev /\ line.locked = whole_line.locked
        /\ line.stamped = first
    BY <2>1, <2>2 DEF Line
  <2>5. line.stamped => w \in Hooks
    BY <1>3, <1>4, <2>2, <2>4
  <2> HIDE DEF line
  <2> QED
    BY <1>3, <1>4, <2>3, <2>4, <2>5
<1> QED
  BY <1>3, <1>5

\* A line written, whole or in part, by one that may write keeps it all.
LEMMA WrittenKeeps ==
    ASSUME EventInv, NEW w \in Writers, writers[w].pc = "appending" \/ ~writers[w].locked,
           log' = Appended(log, LineOf(w)) \/ log' \in Remains(w),
           holder' = holder \ {w} \/ (holder' = holder /\ ~writers[w].locked),
           NEW run \in Runs, ~run.locked, writers' = [writers EXCEPT ![w] = run]
    PROVE  EventInv'
<1>1. PICK line \in Line : /\ log' = log \/ log' = Appended(log, line)
                           /\ line.prev = writers[w].prev
                           /\ line.locked => writers[w].locked
                           /\ line.stamped => w \in Hooks
  <2>1. CASE log' = log
    BY <2>1, LinesAreLines
  <2>2. CASE log' # log
    BY <2>2, LinesAreLines
  <2> QED
    BY <2>1, <2>2
<1> QED
  BY <1>1, LineKeeps

\* No step of any writer breaks the chain.
LEMMA EventInvHolds == EventsSpec => []EventInv
<1>1. EventsInit => EventInv
  <2> SUFFICES ASSUME EventsInit PROVE EventInv
    OBVIOUS
  <2>1. log = <<>> /\ holder = {}
    BY DEF EventsInit
  <2>2. PICK crowd : writers = [w \in Writers |-> IF w \in crowd THEN NotStarted ELSE Ended]
    BY DEF EventsInit
  <2>3. /\ writers \in [Writers -> Runs]
        /\ \A w \in Writers : ~writers[w].locked
    <3>1. NotStarted \in Runs /\ Ended \in Runs /\ ~NotStarted.locked /\ ~Ended.locked
      BY EventsAssumption DEF Runs, Ended, NotStarted, Stages
    <3> QED
      BY <2>2, <3>1
  <2>4. Chained(log)
    BY <2>1 DEF Chained
  <2>5. log \in Seq(Line)
    BY <2>1
  <2> QED
    BY <2>1, <2>3, <2>4, <2>5 DEF EventInv, EventTypeOK, HolderOK
<1>2. EventInv /\ [EventsNext]_eventVars => EventInv'
  <2> SUFFICES ASSUME EventInv, [EventsNext]_eventVars PROVE EventInv'
    OBVIOUS
  <2>1. /\ \A w \in Writers : writers[w] \in Runs /\ HolderOK(w)
        /\ log \in Seq(Line)
    BY DEF EventInv, EventTypeOK
  <2>2. ASSUME NEW h \in Hooks,
               Verify(h) \/ Emit(h) \/ EmitQuietly(h) \/ Return(h) \/ Exit(h)
        PROVE  EventInv'
    <3>1. h \in Writers /\ writers[h] \in Runs /\ ~writers[h].locked
      BY <2>1, <2>2 DEF Writers, HolderOK, Verify, Emit, EmitQuietly, Emits, Return, Exit
    <3>2. log' = log /\ holder' = holder
      BY <2>2 DEF Verify, Emit, EmitQuietly, Emits, Return, Exit
    <3>3. PICK run \in Runs : writers' = [writers EXCEPT ![h] = run] /\ ~run.locked
      <4>1. {"violation", "refusal", "main", "quiet", "heartbeat"} \subseteq Stages
        BY DEF Stages
      <4>2. CASE Verify(h)
        BY <3>1, <4>1, <4>2, RunsGoOn DEF Verify, Verified, Continues
      <4>3. CASE Emit(h) \/ EmitQuietly(h)
        <5> PICK stage \in {"main", "quiet"} : Emits(h, stage)
          BY <4>3 DEF Emit, EmitQuietly
        <5>1. /\ Asking(writers[h], stage) \in Runs /\ ~Asking(writers[h], stage).locked
              /\ Asking(writers[h], stage).left - 1 \in Nat
          <6>1. Asking(writers[h], stage).left = writers[h].left
            BY <3>1 DEF Asking, Runs
          <6>2. writers[h].left > 0 /\ writers[h].left \in Nat
            BY <3>1 DEF Emits, Runs
          <6>3. writers[h].left - 1 \in Nat
            BY <6>2
          <6> QED
            BY <3>1, <4>1, <6>1, <6>3, RunsGoOn
        <5>2. PICK asking \in Runs : asking = Asking(writers[h], stage)
          BY <5>1
        <5>3. /\ [asking EXCEPT !.left = @ - 1] \in Runs
              /\ ~[asking EXCEPT !.left = @ - 1].locked
          BY <5>1, <5>2 DEF Runs
        <5>4. Continues(h, [asking EXCEPT !.left = @ - 1])
          BY <5>2 DEF Emits
        <5> QED
          BY <5>3, <5>4 DEF Continues
      <4>4. CASE Return(h)
        <5>1. /\ Asking(writers[h], "heartbeat") \in Runs
              /\ ~Asking(writers[h], "heartbeat").locked
          BY <3>1, <4>1, RunsGoOn
        <5>2. PICK raised \in BOOLEAN :
                Continues(h, [Asking(writers[h], "heartbeat") EXCEPT !.raised = raised])
          BY <4>4 DEF Return
        <5>3. /\ [Asking(writers[h], "heartbeat") EXCEPT !.raised = raised] \in Runs
              /\ ~[Asking(writers[h], "heartbeat") EXCEPT !.raised = raised].locked
          BY <5>1 DEF Runs
        <5> QED
          BY <5>2, <5>3 DEF Continues
      <4>5. CASE Exit(h)
        BY <3>1, <4>5, RunsGoOn DEF Exit, Continues
      <4> QED
        BY <2>2, <4>2, <4>3, <4>4, <4>5
    <3> QED
      BY <3>1, <3>2, <3>3, QuietKeeps
  <2>3. ASSUME NEW h \in Hooks, ReadTail(h) PROVE EventInv'
    <3>1. h \in Writers /\ writers[h] \in Runs /\ writers[h].pc = "reading"
      BY <2>1, <2>3 DEF Writers, ReadTail
    <3>2. /\ log' = log /\ holder' = holder /\ Pointer(log) \in Nat
          /\ PointsAt(log, Len(log), Pointer(log))
      <4>1. Len(log) \in Nat /\ log' = log /\ holder' = holder
        BY <2>1, <2>3 DEF ReadTail
      <4>2. Pointer(log) \in {Len(log), 0} /\ Pointer(log) \in Nat
        BY <4>1 DEF Pointer
      <4>3. Pointer(log) = 0 => Len(log) = 0 \/ ~log[Len(log)].whole
        BY <2>1, <4>1 DEF Pointer
      <4>4. \A k \in Len(log) + 1..Len(log) : ~log[k].locked
        BY <4>1
      <4> QED
        BY <4>1, <4>2, <4>3, <4>4 DEF PointsAt
    <3>3. PICK run \in Runs :
            /\ writers' = [writers EXCEPT ![h] = run] /\ run.locked = writers[h].locked
            /\ run.pc = "appending" /\ run.prev = Pointer(log)
      <4>1. LET run == [writers[h] EXCEPT !.pc = "appending", !.prev = Pointer(log)] IN
            /\ run \in Runs /\ run.locked = writers[h].locked
            /\ run.pc = "appending" /\ run.prev = Pointer(log)
        BY <3>1, <3>2 DEF Runs
      <4> QED
        BY <2>3, <4>1 DEF ReadTail, Continues
    <3> QED
      BY <3>1, <3>2, <3>3, QuietKeeps
  <2>4. ASSUME NEW v \in Verbs, StartVerb(v) PROVE EventInv'
    <3>1. v \in Writers /\ writers[v] \in Runs /\ ~writers[v].locked
      BY <2>1, <2>4 DEF Writers, HolderOK, StartVerb
    <3>2. Asking(writers[v], "operation") \in Runs /\ ~Asking(writers[v], "operation").locked
      BY <3>1, RunsGoOn DEF Stages
    <3> QED
      BY <2>4, <3>1, <3>2, QuietKeeps DEF StartVerb, Continues
  <2>5. ASSUME NEW r \in Rotations, Rotate(r) PROVE EventInv'
    <3>1. /\ r \in Writers /\ writers[r] \in Runs /\ ~writers[r].locked
          /\ Ended \in Runs /\ ~Ended.locked /\ holder' = holder
          /\ writers' = [writers EXCEPT ![r] = Ended]
      BY <2>1, <2>5, RunsGoOn DEF Writers, HolderOK, Rotate, Continues
    <3>2. \/ log' = Appended(log, LineOf(r))
          \/ log' \in Remains(r)
      BY <2>5 DEF Rotate
    <3> QED
      BY <3>1, <3>2, WrittenKeeps
  <2>6. ASSUME NEW w \in Writers, Acquire(w) PROVE EventInv'
    <3>1. /\ writers[w] \in Runs /\ holder = {} /\ holder' = {w} /\ log' = log
      BY <2>1, <2>6 DEF Acquire
    <3>2. PICK pc \in {"reading", "appending"} :
            /\ writers' = [writers EXCEPT ![w] = [writers[w] EXCEPT !.pc = pc, !.locked = TRUE]]
            /\ w \in Hooks => pc = "reading"
      BY <2>6 DEF Acquire, Continues
    <3>3. /\ [writers[w] EXCEPT !.pc = pc, !.locked = TRUE] \in Runs
          /\ [writers[w] EXCEPT !.pc = pc, !.locked = TRUE].pc = pc
      BY <3>1, <3>2 DEF Runs
    <3> QED
      BY <3>1, <3>2, <3>3, QuietKeeps
  <2>7. ASSUME NEW w \in Writers, FallOpen(w) PROVE EventInv'
    <3>1. /\ writers[w] \in Runs /\ ~writers[w].locked /\ log' = log /\ holder' = holder
      BY <2>1, <2>7 DEF FallOpen, HolderOK
    <3>2. /\ [writers[w] EXCEPT !.pc = "reading"] \in Runs
          /\ ~[writers[w] EXCEPT !.pc = "reading"].locked
          /\ Ended \in Runs /\ ~Ended.locked
      BY <3>1, RunsGoOn DEF Runs
    <3>3. PICK run \in Runs : writers' = [writers EXCEPT ![w] = run] /\ ~run.locked
      BY <2>7, <3>2 DEF FallOpen, Continues
    <3> QED
      BY <3>1, <3>3, QuietKeeps
  <2>8. ASSUME NEW w \in Writers, AppendLine(w) \/ AppendFails(w) PROVE EventInv'
    <3>1. PICK failed \in BOOLEAN : writers' = [writers EXCEPT ![w] = AfterEmission(writers[w], failed)]
      BY <2>8 DEF AppendLine, AppendFails, Continues
    <3>2. /\ AfterEmission(writers[w], failed) \in Runs
          /\ ~AfterEmission(writers[w], failed).locked
      BY <2>1, <3>1, RunsGoOn
    <3>3. /\ writers[w].pc = "appending" /\ holder' = holder \ {w}
          /\ log' = Appended(log, LineOf(w)) \/ log' \in Remains(w)
      BY <2>8 DEF AppendLine, AppendFails
    <3> QED
      BY <3>1, <3>2, <3>3, WrittenKeeps
  <2>9. ASSUME NEW w \in Writers, Kill(w) PROVE EventInv'
    <3>1. /\ writers' = [writers EXCEPT ![w] = Ended] /\ holder' = holder \ {w}
          /\ Ended \in Runs /\ ~Ended.locked /\ writers[w] \in Runs
      BY <2>1, <2>9, RunsGoOn DEF Kill, Continues
    <3>2. CASE writers[w].pc = "appending"
      BY <2>9, <3>1, <3>2, WrittenKeeps DEF Kill
    <3>3. CASE writers[w].pc # "appending"
      \* Not a letter of the line has been written.
      <4>1. log' = log
        BY <2>9, <3>3 DEF Kill
      <4>2. \A v \in Writers : v # w /\ writers[v].locked => holder' = {v}
        BY <2>1, <3>1 DEF HolderOK
      <4>3. /\ writers' \in [Writers -> Runs] /\ writers'[w] = Ended
            /\ \A v \in Writers : v # w => writers'[v] = writers[v]
        BY <3>1 DEF EventInv, EventTypeOK
      <4>4. \A v \in Writers : HolderOK(v)'
        BY <2>1, <3>1, <4>1, <4>2, <4>3 DEF HolderOK
      <4>5. holder' \in SUBSET Writers
        BY <3>1 DEF EventInv, EventTypeOK
      <4> QED
        BY <4>1, <4>3, <4>4, <4>5 DEF EventInv, EventTypeOK
    <3> QED
      BY <3>2, <3>3
  <2>10. CASE UNCHANGED eventVars
    BY <2>10 DEF eventVars, EventInv, EventTypeOK, HolderOK
  <2> QED
    BY <2>2, <2>3, <2>4, <2>5, <2>6, <2>7, <2>8, <2>9, <2>10 DEF EventsNext
<1> QED
  BY <1>1, <1>2, PTL DEF EventsSpec

(* For every number of hooks, verbs and rotations, and whatever fails: an  *)
(* event appended under the lock "framework-events" points at the line     *)
(* that was last, so that only a writer without the lock forks the chain.  *)
THEOREM LockedEventsFormAChain == EventsSpec => []ChainForksOnlyUnlocked
<1>1. EventInv => ChainForksOnlyUnlocked
  BY DEF EventInv, Chained, PointsAt, ChainForksOnlyUnlocked
<1> QED
  BY <1>1, EventInvHolds, PTL

-----------------------------------------------------------------------------
(***************************************************************************)
(* McpHealth.  Whatever text the file is rewritten with, an entry that     *)
(* calls a server unhealthy pauses it no longer than _BACKOFF_MAX after    *)
(* its last failure; and while runs of the hook come one after the other,  *)
(* what a run holds, and the file between two runs, say what was last      *)
(* heard.                                                                  *)
(***************************************************************************)
Statuses == {"healthy", "unhealthy"}
Entries == [known : BOOLEAN, status : Statuses, expires : Int, failures : Nat, retry : Int]
GuardRuns == [pc : {"off", "done", "probing", "emptying", "filling", "reconnecting"},
              server : Servers \cup {"none"}, at : Nat, state : [Servers -> Entries],
              next : {"done", "pass", "block", "reconnect"}]

EntryOK(entry, failed) ==
    /\ ~entry.known => entry.status = "healthy"
    /\ entry.status = "unhealthy" => failed > 0 /\ entry.retry <= failed + Longest

StateOK(state, failed) ==
    /\ state \in [Servers -> Entries]
    /\ \A s \in Servers : EntryOK(state[s], failed[s])

Running(run) == run.pc \notin {"off", "done"}

RunOK(run, failed, time) ==
    /\ run \in GuardRuns /\ StateOK(run.state, failed)
    /\ Running(run) => run.server \in Servers /\ run.at <= time /\ Entry(run).known
    /\ run.pc \in {"emptying", "filling"} =>
         /\ run.next = "pass" => Entry(run).status = "healthy"
         /\ run.next = "block" => Entry(run).status = "unhealthy"

Agrees(state, words) == \A s \in Servers : state[s].status = words[s]

CallAgrees(run, file, words) ==
    IF Running(run)
    THEN /\ Agrees(run.state, words)
         /\ run.pc = "filling" => file.text = "empty"
         /\ run.pc = "reconnecting" => Agrees(file.servers, words)
    ELSE Agrees(file.servers, words)

HealthTypes(time, failed, words, mix) ==
    /\ time \in Nat \ {0} /\ mix \in BOOLEAN
    /\ failed \in [Servers -> Nat] /\ \A s \in Servers : failed[s] <= time
    /\ words \in [Servers -> Statuses]

VerdictOK(word, failed, words, mix) ==
    /\ word.call = "is refused" =>
         /\ failed[word.server] > 0 /\ word.retry <= failed[word.server] + Longest
         /\ mix \/ words[word.server] = "unhealthy"
    /\ word.call = "passes" => FailOpen \/ mix \/ words[word.server] = "healthy"

HealthInv ==
    /\ HealthTypes(now, failedAt, lastWord, mixed)
    /\ StateOK(health.servers, failedAt)
    /\ guards \in [Guards -> GuardRuns]
    /\ \A g \in Guards : RunOK(guards[g], failedAt, now)
    /\ ~mixed =>
         /\ \A g, h \in Guards : Under(g) /\ Under(h) => g = h
         /\ (\A g \in Guards : ~Under(g)) => Agrees(health.servers, lastWord)
         /\ \A g \in Guards : Under(g) => CallAgrees(guards[g], health, lastWord)
    /\ VerdictOK(verdict, failedAt, lastWord, mixed)

-----------------------------------------------------------------------------
\* A pause is never longer than _BACKOFF_MAX.
LEMMA BackoffIsCapped ==
    ASSUME NEW failures \in Nat \ {0}
    PROVE  Backoff(failures) \in Int /\ Backoff(failures) <= Longest
<1>1. Base \in Nat /\ Longest \in Nat
  BY HealthAssumption
<1>2. failures - 1 \in Nat /\ ~(failures <= 0)
  OBVIOUS
<1>3. 2 ^ (failures - 1) \in Int
  BY <1>2, SMT
<1>4. PICK pause \in Int : pause = Base * 2 ^ (failures - 1)
  BY <1>1, <1>3
<1>5. Backoff(failures) = IF pause <= Longest THEN pause ELSE Longest
  BY <1>2, <1>4 DEF Backoff
<1> QED
  BY <1>1, <1>4, <1>5

\* What a failure, a recovery and a renewal make of an entry.
LEMMA EntriesAreEntries ==
    ASSUME NEW entry \in Entries, NEW at \in Nat
    PROVE  /\ Failed(entry, at) \in Entries /\ Failed(entry, at).known = entry.known
           /\ Failed(entry, at).status = "unhealthy" /\ Failed(entry, at).retry <= at + Longest
           /\ Recovered(entry, at) \in Entries /\ Recovered(entry, at).known = entry.known
           /\ Recovered(entry, at).status = "healthy"
           /\ Renewed(entry, at) \in Entries /\ Renewed(entry, at).known = entry.known
           /\ Renewed(entry, at).status = entry.status
<1>1. /\ entry.failures + 1 \in Nat \ {0} /\ Longest \in Nat /\ at + Lifetime \in Int
      /\ entry = [known |-> entry.known, status |-> entry.status, expires |-> entry.expires,
                  failures |-> entry.failures, retry |-> entry.retry]
  BY HealthAssumption DEF Entries
<1>2. PICK pause \in Int : pause = Backoff(entry.failures + 1) /\ pause <= Longest
  BY <1>1, BackoffIsCapped
<1>3. at + pause \in Int /\ at + pause <= at + Longest
  BY <1>1, <1>2
<1>4. Failed(entry, at) = [entry EXCEPT !.status = "unhealthy", !.failures = @ + 1,
                                        !.retry = at + pause]
  BY <1>2 DEF Failed
<1>5. /\ Failed(entry, at) \in Entries /\ Failed(entry, at).known = entry.known
      /\ Failed(entry, at).status = "unhealthy" /\ Failed(entry, at).retry = at + pause
  BY <1>1, <1>3, <1>4 DEF Entries, Statuses
<1>6. /\ Recovered(entry, at) \in Entries /\ Recovered(entry, at).known = entry.known
      /\ Recovered(entry, at).status = "healthy"
  <2>1. PICK until \in Int, never \in Int, none \in Nat :
               until = at + Lifetime /\ never = 0 /\ none = 0
    BY <1>1
  <2>2. Recovered(entry, at) = [entry EXCEPT !.status = "healthy", !.failures = none,
                                             !.retry = never, !.expires = until]
    BY <2>1 DEF Recovered
  <2>3. [entry EXCEPT !.status = "healthy", !.failures = none, !.retry = never,
                      !.expires = until] \in Entries
    BY <2>1 DEF Entries, Statuses
  <2> QED
    BY <2>2, <2>3 DEF Entries
<1>7. /\ Renewed(entry, at) \in Entries /\ Renewed(entry, at).known = entry.known
      /\ Renewed(entry, at).status = entry.status
  <2>1. PICK until \in Int : until = at + Lifetime
    BY <1>1
  <2> QED
    BY <1>1, <2>1 DEF Renewed, Entries
<1> QED
  BY <1>3, <1>5, <1>6, <1>7

\* An entry noted in what a run has loaded leaves the other entries alone.
LEMMA NotedStates ==
    ASSUME NEW failed, NEW later, NEW run \in GuardRuns, run.server \in Servers,
           NEW entry \in Entries, StateOK(run.state, failed),
           failed \in [Servers -> Nat], later \in [Servers -> Nat],
           \A s \in Servers : failed[s] <= later[s],
           EntryOK(entry, later[run.server])
    PROVE  /\ Noting(run, entry) = [run EXCEPT !.state = [run.state EXCEPT ![run.server] = entry]]
           /\ [run.state EXCEPT ![run.server] = entry] \in [Servers -> Entries]
           /\ StateOK([run.state EXCEPT ![run.server] = entry], later)
<1>1. Noting(run, entry) = [run EXCEPT !.state = [run.state EXCEPT ![run.server] = entry]]
  BY DEF Noting
<1> DEFINE noted == [run.state EXCEPT ![run.server] = entry]
<1>2. /\ noted \in [Servers -> Entries] /\ noted[run.server] = entry
      /\ \A s \in Servers : s # run.server => noted[s] = run.state[s]
  BY DEF StateOK
<1>3. ASSUME NEW s \in Servers, s # run.server PROVE EntryOK(run.state[s], later[s])
  <2>1. /\ EntryOK(run.state[s], failed[s]) /\ run.state[s] \in Entries
        /\ failed[s] \in Nat /\ later[s] \in Nat /\ failed[s] <= later[s] /\ Longest \in Nat
    BY HealthAssumption DEF StateOK
  <2> QED
    BY <2>1 DEF EntryOK, Entries
<1>4. \A s \in Servers : EntryOK(noted[s], later[s])
  BY <1>2, <1>3
<1> QED
  BY <1>1, <1>2, <1>4 DEF StateOK

\* A server not known counts as healthy, which is what was last heard of it.
LEMMA LoadedStates ==
    ASSUME HealthInv, NEW s \in Servers
    PROVE  /\ StateOK(Loaded(s), failedAt) /\ Loaded(s)[s].known
           /\ Agrees(health.servers, lastWord) => Agrees(Loaded(s), lastWord)
<1>1. /\ StateOK(health.servers, failedAt) /\ health.servers \in [Servers -> Entries]
      /\ now \in Nat /\ Lifetime \in Nat
  BY HealthAssumption DEF HealthInv, HealthTypes, StateOK
<1>2. CASE health.servers[s].known
  BY <1>1, <1>2 DEF Loaded
<1>3. CASE ~health.servers[s].known
  <2>1. PICK new \in Entries :
          /\ new = [Unknown EXCEPT !.known = TRUE, !.expires = now + Lifetime]
          /\ new.known /\ new.status = "healthy"
    <3>1. PICK until \in Int, never \in Int : until = now + Lifetime /\ never = 0
      BY <1>1
    <3>2. Unknown = [known |-> FALSE, status |-> "healthy", expires |-> never, failures |-> 0,
                     retry |-> never]
      BY <3>1 DEF Unknown
    <3>3. /\ [Unknown EXCEPT !.known = TRUE, !.expires = until] \in Entries
          /\ [Unknown EXCEPT !.known = TRUE, !.expires = until].known
          /\ [Unknown EXCEPT !.known = TRUE, !.expires = until].status = "healthy"
      BY <3>1, <3>2 DEF Entries, Statuses
    <3> QED
      BY <3>1, <3>3
  <2>2. Loaded(s) = [health.servers EXCEPT ![s] = new]
    BY <1>3, <2>1 DEF Loaded
  <2>3. /\ Loaded(s) \in [Servers -> Entries] /\ Loaded(s)[s] = new
        /\ \A t \in Servers : t # s => Loaded(s)[t] = health.servers[t]
    BY <1>1, <2>2
  <2>4. health.servers[s].status = "healthy"
    BY <1>1, <1>3 DEF StateOK, EntryOK
  <2> QED
    BY <1>1, <2>1, <2>3, <2>4 DEF StateOK, EntryOK, Agrees
<1> QED
  BY <1>2, <1>3

\* A run of the hook that is heard of is alone, or nothing that was heard
\* counts any more.
LEMMA HeardAlone ==
    ASSUME HealthInv, NEW g \in Guards, NEW words \in [Servers -> Statuses], Hears(g, words)
    PROVE  /\ mixed' \in BOOLEAN /\ lastWord' \in [Servers -> Statuses]
           /\ ~mixed' => /\ ~mixed /\ lastWord' = words
                         /\ \A h \in Guards : h # g => ~Under(h)
<1>1. AllWell \in [Servers -> Statuses]
  BY DEF AllWell, Statuses
<1> QED
  BY <1>1 DEF Hears, Alone

\* A step of one run of the hook keeps the invariant, when what it leaves
\* behind is what the next step may find.
LEMMA GuardStepKeeps ==
    ASSUME HealthInv, NEW g \in Guards, NEW run, guards' = [guards EXCEPT ![g] = run],
           HealthTypes(now', failedAt', lastWord', mixed'), now <= now',
           \A s \in Servers : failedAt[s] <= failedAt'[s],
           StateOK(health'.servers, failedAt'), RunOK(run, failedAt', now'),
           ~mixed' => /\ ~mixed /\ \A h \in Guards : h # g => ~Under(h)
                      /\ CallAgrees(run, health', lastWord'),
           VerdictOK(verdict', failedAt', lastWord', mixed')
    PROVE  HealthInv'
<1>1. /\ run \in GuardRuns /\ guards \in [Guards -> GuardRuns]
      /\ guards' \in [Guards -> GuardRuns] /\ guards'[g] = run
      /\ \A h \in Guards : h # g => guards'[h] = guards[h]
  BY DEF HealthInv, RunOK
<1>2. ASSUME NEW h \in Guards PROVE RunOK(guards'[h], failedAt', now')
  <2>1. CASE h = g
    BY <1>1, <2>1
  <2>2. CASE h # g
    <3>1. guards'[h] = guards[h] /\ RunOK(guards[h], failedAt, now)
      BY <1>1, <2>2 DEF HealthInv
    <3>2. /\ Longest \in Nat /\ now \in Nat /\ now' \in Nat
          /\ failedAt \in [Servers -> Nat] /\ failedAt' \in [Servers -> Nat]
      BY HealthAssumption DEF HealthInv, HealthTypes
    <3>3. StateOK(guards[h].state, failedAt')
      <4>1. SUFFICES ASSUME NEW s \in Servers PROVE EntryOK(guards[h].state[s], failedAt'[s])
        BY <3>1 DEF RunOK, StateOK
      <4>2. /\ EntryOK(guards[h].state[s], failedAt[s]) /\ guards[h].state[s] \in Entries
            /\ failedAt[s] \in Nat /\ failedAt'[s] \in Nat /\ failedAt[s] <= failedAt'[s]
        BY <3>1, <3>2 DEF RunOK, StateOK
      <4> QED
        BY <3>2, <4>2 DEF EntryOK, Entries
    <3>4. guards[h].at \in Nat /\ (guards[h].at <= now => guards[h].at <= now')
      BY <1>1, <3>2 DEF GuardRuns
    <3> QED
      BY <3>1, <3>3, <3>4 DEF RunOK
  <2> QED
    BY <2>1, <2>2
<1>3. \A h \in Guards : /\ h # g => (Under(h)' <=> Under(h))
                        /\ Under(g)' <=> Running(run)
  BY <1>1 DEF Under, Running
<1>4. ASSUME ~mixed'
      PROVE  /\ \A f, h \in Guards : Under(f)' /\ Under(h)' => f = h
             /\ (\A h \in Guards : ~Under(h)') => Agrees(health'.servers, lastWord')
             /\ \A h \in Guards : Under(h)' => CallAgrees(guards'[h], health', lastWord')
  BY <1>1, <1>3, <1>4 DEF CallAgrees
<1> QED
  BY <1>1, <1>2, <1>4 DEF HealthInv

\* A run that is over holds nothing, and a run that begins what was loaded.
LEMMA FinishedRuns ==
    ASSUME NEW failed
    PROVE  /\ Unknown \in Entries /\ StateOK(NoneKnown, failed)
           /\ \A time : RunOK(Finished, failed, time) /\ RunOK(Unstarted, failed, time)
           /\ ~Running(Finished) /\ ~Running(Unstarted)
<1>1. Unknown \in Entries /\ ~Unknown.known /\ Unknown.status = "healthy"
  <2>1. PICK never \in Int, none \in Nat : never = 0 /\ none = 0
    OBVIOUS
  <2>2. Unknown = [known |-> FALSE, status |-> "healthy", expires |-> never, failures |-> none,
                   retry |-> never]
    BY <2>1 DEF Unknown
  <2> QED
    BY <2>1, <2>2 DEF Entries, Statuses
<1>2. StateOK(NoneKnown, failed) /\ NoneKnown \in [Servers -> Entries]
  BY <1>1 DEF StateOK, NoneKnown, EntryOK
<1>3. /\ Unstarted \in GuardRuns /\ Finished \in GuardRuns
      /\ Unstarted.state = NoneKnown /\ Finished.state = NoneKnown
      /\ Unstarted.pc = "off" /\ Finished.pc = "done"
  BY <1>2 DEF Unstarted, Finished, GuardRuns
<1> QED
  BY <1>1, <1>2, <1>3 DEF RunOK, Running

(* The runs that begin before a call, and after one that failed.           *)
Asks(s, time, state) ==
    [Unstarted EXCEPT !.pc = "probing", !.server = s, !.at = time, !.state = state]
Notes(s, time, state) ==
    [Unstarted EXCEPT !.pc = "emptying", !.server = s, !.at = time, !.state = state,
                      !.next = "reconnect"]

\* A run that begins is one that loaded the server's entry just now.
LEMMA BegunRuns ==
    ASSUME NEW s \in Servers, NEW state \in [Servers -> Entries], NEW time \in Nat
    PROVE  /\ \A run \in {Asks(s, time, state), Notes(s, time, state)} :
                /\ run \in GuardRuns /\ run.server = s /\ run.at = time /\ run.state = state
                /\ Entry(run) = state[s] /\ Running(run)
           /\ Asks(s, time, state).pc = "probing"
           /\ Notes(s, time, state).pc = "emptying" /\ Notes(s, time, state).next = "reconnect"
<1>1. Unstarted \in GuardRuns
  BY FinishedRuns DEF RunOK
<1>2. /\ Asks(s, time, state) \in GuardRuns /\ Notes(s, time, state) \in GuardRuns
      /\ Asks(s, time, state).server = s /\ Asks(s, time, state).at = time
      /\ Asks(s, time, state).state = state /\ Asks(s, time, state).pc = "probing"
      /\ Notes(s, time, state).server = s /\ Notes(s, time, state).at = time
      /\ Notes(s, time, state).state = state /\ Notes(s, time, state).pc = "emptying"
      /\ Notes(s, time, state).next = "reconnect"
  BY <1>1 DEF GuardRuns, Asks, Notes
<1> QED
  BY <1>2 DEF Entry, Running

\* Before a call: let through, refused, or probed first.
LEMMA BeforeCallKeeps ==
    ASSUME HealthInv, NEW g \in Guards, NEW s \in Servers, BeforeCall(g, s)
    PROVE  HealthInv'
<1>1. /\ HealthTypes(now, failedAt, lastWord, mixed) /\ now \in Nat /\ mixed \in BOOLEAN
      /\ failedAt \in [Servers -> Nat] /\ lastWord \in [Servers -> Statuses]
      /\ StateOK(health.servers, failedAt)
  BY DEF HealthInv, HealthTypes
<1>2. /\ now' = now /\ health' = health /\ failedAt' = failedAt /\ Hears(g, lastWord)
      /\ guards[g].pc = "off"
  BY DEF BeforeCall
<1>3. /\ mixed' \in BOOLEAN /\ lastWord' \in [Servers -> Statuses]
      /\ ~mixed' => /\ ~mixed /\ lastWord' = lastWord
                    /\ \A h \in Guards : h # g => ~Under(h)
  BY <1>1, <1>2, HeardAlone
<1>4. /\ StateOK(Loaded(s), failedAt) /\ Loaded(s)[s].known
      /\ Loaded(s) \in [Servers -> Entries]
      /\ Agrees(health.servers, lastWord) => Agrees(Loaded(s), lastWord)
  BY LoadedStates DEF StateOK
<1>5. ~mixed' => Agrees(health.servers, lastWord)
  <2>1. ~Under(g)
    BY <1>2 DEF Under
  <2> QED
    BY <1>3, <2>1 DEF HealthInv
<1> DEFINE run == Asks(s, now, Loaded(s))
<1>6. /\ run \in GuardRuns /\ run.pc = "probing" /\ run.server = s /\ run.at = now
      /\ run.state = Loaded(s) /\ Entry(run) = Loaded(s)[s] /\ Running(run)
  BY <1>1, <1>4, BegunRuns
<1>7. run = [Unstarted EXCEPT !.pc = "probing", !.server = s, !.at = now, !.state = Loaded(s)]
  BY DEF Asks
<1>8. IF Entry(run).status = "healthy" /\ now < Entry(run).expires THEN Ends(g, Passed(run))
      ELSE IF Entry(run).status = "unhealthy" /\ now < Entry(run).retry
      THEN Ends(g, Refused(run)) ELSE Advances(g, run)
  BY <1>7 DEF BeforeCall
<1> HIDE DEF run
<1>9. HealthTypes(now', failedAt', lastWord', mixed')
  BY <1>1, <1>2, <1>3 DEF HealthTypes
<1>10. /\ now <= now' /\ \A t \in Servers : failedAt[t] <= failedAt'[t]
  BY <1>1, <1>2
<1>11. /\ RunOK(Finished, failedAt', now') /\ ~Running(Finished)
  BY FinishedRuns
<1>12. CASE Entry(run).status = "healthy" /\ now < Entry(run).expires
  <2>1. guards' = [guards EXCEPT ![g] = Finished] /\ verdict' = Passed(run)
    BY <1>8, <1>12 DEF Ends
  <2>2. VerdictOK(verdict', failedAt', lastWord', mixed')
    BY <1>3, <1>4, <1>5, <1>6, <1>12, <2>1 DEF VerdictOK, Passed, Agrees
  <2> QED
    BY <1>1, <1>2, <1>3, <1>5, <1>9, <1>10, <1>11, <2>1, <2>2, GuardStepKeeps DEF CallAgrees
<1>13. CASE /\ ~(Entry(run).status = "healthy" /\ now < Entry(run).expires)
            /\ Entry(run).status = "unhealthy" /\ now < Entry(run).retry
  <2>1. guards' = [guards EXCEPT ![g] = Finished] /\ verdict' = Refused(run)
    BY <1>8, <1>13 DEF Ends
  <2>2. VerdictOK(verdict', failedAt', lastWord', mixed')
    <3>1. CASE FailOpen
      BY <2>1, <3>1 DEF VerdictOK, Refused, Passed
    <3>2. CASE ~FailOpen
      <4>1. verdict' = [server |-> s, call |-> "is refused", retry |-> Loaded(s)[s].retry]
        BY <1>6, <2>1, <3>2 DEF Refused
      <4>2. EntryOK(Loaded(s)[s], failedAt[s]) /\ Loaded(s)[s].status = "unhealthy"
        BY <1>4, <1>6, <1>13 DEF StateOK
      <4>3. mixed' \/ lastWord'[s] = "unhealthy"
        BY <1>3, <1>4, <1>5, <4>2 DEF Agrees
      <4> QED
        BY <1>2, <4>1, <4>2, <4>3 DEF VerdictOK, EntryOK
    <3> QED
      BY <3>1, <3>2
  <2> QED
    BY <1>1, <1>2, <1>3, <1>5, <1>9, <1>10, <1>11, <2>1, <2>2, GuardStepKeeps DEF CallAgrees
<1>14. CASE /\ ~(Entry(run).status = "healthy" /\ now < Entry(run).expires)
            /\ ~(Entry(run).status = "unhealthy" /\ now < Entry(run).retry)
  <2>1. guards' = [guards EXCEPT ![g] = run] /\ verdict' = NoVerdict
    BY <1>8, <1>14 DEF Advances
  <2>2. VerdictOK(verdict', failedAt', lastWord', mixed')
    BY <2>1 DEF VerdictOK, NoVerdict
  <2>3. RunOK(run, failedAt', now')
    BY <1>1, <1>2, <1>4, <1>6 DEF RunOK
  <2>4. ~mixed' => CallAgrees(run, health', lastWord')
    BY <1>3, <1>4, <1>5, <1>6 DEF CallAgrees
  <2> QED
    BY <1>1, <1>2, <1>3, <1>9, <1>10, <2>1, <2>2, <2>3, <2>4, GuardStepKeeps
<1> QED
  BY <1>12, <1>13, <1>14

(* A run that has noted something about its server and goes to write it.   *)
Noted(run, entry, next) == [Noting(run, entry) EXCEPT !.pc = "emptying", !.next = next]

\* Noting an entry changes the entry, and where the run goes on.
LEMMA NotedRuns ==
    ASSUME NEW run \in GuardRuns, run.server \in Servers, NEW entry \in Entries,
           NEW next \in {"done", "pass", "block", "reconnect"}
    PROVE  /\ Noted(run, entry, next) \in GuardRuns
           /\ Noted(run, entry, next).pc = "emptying" /\ Noted(run, entry, next).next = next
           /\ Noted(run, entry, next).server = run.server /\ Noted(run, entry, next).at = run.at
           /\ Noted(run, entry, next).state = [run.state EXCEPT ![run.server] = entry]
           /\ Entry(Noted(run, entry, next)) = entry
           /\ run.pc = "emptying" /\ run.next = next => Noting(run, entry) = Noted(run, entry, next)
<1>1. run.state \in [Servers -> Entries]
  BY DEF GuardRuns
<1>2. PICK state \in [Servers -> Entries] : state = [run.state EXCEPT ![run.server] = entry]
  BY <1>1
<1>3. Noting(run, entry) = [run EXCEPT !.state = state]
  BY <1>2 DEF Noting
<1>4. PICK noted \in GuardRuns :
        /\ noted = Noting(run, entry) /\ noted.pc = run.pc /\ noted.next = run.next
        /\ noted.server = run.server /\ noted.at = run.at /\ noted.state = state
  BY <1>2, <1>3 DEF GuardRuns
<1>5. Noted(run, entry, next) = [noted EXCEPT !.pc = "emptying", !.next = next]
  BY <1>4 DEF Noted
<1>6. /\ Noted(run, entry, next) \in GuardRuns
      /\ Noted(run, entry, next).pc = "emptying" /\ Noted(run, entry, next).next = next
      /\ Noted(run, entry, next).server = noted.server /\ Noted(run, entry, next).at = noted.at
      /\ Noted(run, entry, next).state = noted.state
  BY <1>4, <1>5 DEF GuardRuns
<1>7. state[run.server] = entry
  BY <1>1, <1>2
<1>8. ASSUME run.pc = "emptying", run.next = next
      PROVE  Noting(run, entry) = Noted(run, entry, next)
  <2>1. noted = [pc |-> noted.pc, server |-> noted.server, at |-> noted.at,
                 state |-> noted.state, next |-> noted.next]
    BY DEF GuardRuns
  <2>2. Noted(run, entry, next) = [pc |-> "emptying", server |-> noted.server, at |-> noted.at,
                                   state |-> noted.state, next |-> next]
    BY <1>5, <2>1
  <2> QED
    BY <1>4, <1>8, <2>1, <2>2
<1> QED
  BY <1>2, <1>4, <1>6, <1>7, <1>8 DEF Entry

\* What a run notes of its server, and hears at the same time, agrees.
LEMMA NotingKeeps ==
    ASSUME HealthInv, NEW g \in Guards, NEW run, run \in GuardRuns, run.server \in Servers,
           run.at <= now, StateOK(run.state, failedAt),
           NEW entry \in Entries, entry.known, EntryOK(entry, failedAt'[run.server]),
           NEW next \in {"done", "pass", "block", "reconnect"},
           next = "pass" => entry.status = "healthy",
           next = "block" => entry.status = "unhealthy",
           guards' = [guards EXCEPT ![g] = Noted(run, entry, next)], verdict' = NoVerdict,
           now' = now, health' = health, failedAt' \in [Servers -> Nat],
           \A s \in Servers : failedAt[s] <= failedAt'[s] /\ failedAt'[s] <= now,
           NEW words, words = [lastWord EXCEPT ![run.server] = entry.status], Hears(g, words),
           ~mixed /\ (\A h \in Guards : h # g => ~Under(h)) => Agrees(run.state, lastWord)
    PROVE  HealthInv'
<1>1. /\ now \in Nat \ {0} /\ lastWord \in [Servers -> Statuses]
      /\ failedAt \in [Servers -> Nat] /\ StateOK(health.servers, failedAt)
      /\ entry.status \in Statuses
  BY DEF HealthInv, HealthTypes, Entries
<1>2. /\ words \in [Servers -> Statuses] /\ words[run.server] = entry.status
      /\ \A s \in Servers : s # run.server => words[s] = lastWord[s]
  BY <1>1
<1>3. /\ mixed' \in BOOLEAN /\ lastWord' \in [Servers -> Statuses]
      /\ ~mixed' => /\ ~mixed /\ lastWord' = words
                    /\ \A h \in Guards : h # g => ~Under(h)
  BY <1>2, HeardAlone
<1>4. /\ HealthTypes(now', failedAt', lastWord', mixed') /\ now <= now'
  BY <1>1, <1>3 DEF HealthTypes
<1> DEFINE after == Noted(run, entry, next)
<1>5. /\ after \in GuardRuns /\ after.pc = "emptying" /\ after.next = next
        /\ after.server = run.server /\ after.at = run.at /\ Entry(after) = entry
        /\ after.state = [run.state EXCEPT ![run.server] = entry]
  BY NotedRuns
<1> HIDE DEF after
<1>6. StateOK(after.state, failedAt')
  <2>1. \A s \in Servers : failedAt[s] <= failedAt'[s]
    OBVIOUS
  <2>2. StateOK([run.state EXCEPT ![run.server] = entry], failedAt')
    BY <1>1, <2>1, NotedStates
  <2> QED
    BY <1>5, <2>2
<1>7. RunOK(after, failedAt', now')
  BY <1>5, <1>6 DEF RunOK
<1>8. StateOK(health'.servers, failedAt')
  <2>1. SUFFICES ASSUME NEW s \in Servers PROVE EntryOK(health.servers[s], failedAt'[s])
    BY <1>1 DEF StateOK
  <2>2. /\ EntryOK(health.servers[s], failedAt[s]) /\ health.servers[s] \in Entries
        /\ failedAt[s] \in Nat /\ failedAt'[s] \in Nat /\ failedAt[s] <= failedAt'[s]
        /\ Longest \in Nat
    BY <1>1, HealthAssumption DEF StateOK
  <2> QED
    BY <2>2 DEF EntryOK, Entries
<1>9. ~mixed' => CallAgrees(after, health', lastWord')
  <2>1. SUFFICES ASSUME ~mixed' PROVE Agrees(after.state, lastWord')
    BY <1>5 DEF CallAgrees, Running
  <2>2. Agrees(run.state, lastWord) /\ lastWord' = words
    BY <1>3, <2>1
  <2>3. /\ after.state[run.server] = entry
        /\ \A s \in Servers : s # run.server => after.state[s] = run.state[s]
    BY <1>5 DEF StateOK
  <2> QED
    BY <1>2, <2>2, <2>3 DEF Agrees
<1>10. VerdictOK(verdict', failedAt', lastWord', mixed')
  BY DEF VerdictOK, NoVerdict
<1> QED
  BY <1>3, <1>4, <1>7, <1>8, <1>9, <1>10, GuardStepKeeps DEF after

\* A failure of the server, found now, is what the entry and the pause say.
LEMMA FailureNoted ==
    ASSUME HealthInv, NEW s \in Servers, NEW entry \in Entries, NEW at \in Nat, at <= now,
           entry.known, failedAt' = [failedAt EXCEPT ![s] = now]
    PROVE  /\ failedAt' \in [Servers -> Nat]
           /\ \A t \in Servers : failedAt[t] <= failedAt'[t] /\ failedAt'[t] <= now
           /\ Failed(entry, at) \in Entries /\ Failed(entry, at).known
           /\ Failed(entry, at).status = "unhealthy"
           /\ EntryOK(Failed(entry, at), failedAt'[s])
<1>1. /\ now \in Nat \ {0} /\ failedAt \in [Servers -> Nat]
      /\ \A t \in Servers : failedAt[t] <= now
      /\ Longest \in Nat
  BY HealthAssumption DEF HealthInv, HealthTypes
<1>2. /\ Failed(entry, at) \in Entries /\ Failed(entry, at).known
      /\ Failed(entry, at).status = "unhealthy" /\ Failed(entry, at).retry <= at + Longest
  BY EntriesAreEntries
<1>3. Failed(entry, at).retry \in Int
  BY <1>2 DEF Entries
<1>4. Failed(entry, at).retry <= now + Longest
  BY <1>1, <1>2, <1>3
<1>5. /\ failedAt' \in [Servers -> Nat] /\ failedAt'[s] = now
      /\ \A t \in Servers : failedAt[t] <= failedAt'[t] /\ failedAt'[t] <= now
  BY <1>1
<1> QED
  BY <1>1, <1>2, <1>4, <1>5 DEF EntryOK

\* What a run notes of a server that is well.
LEMMA RecoveryNoted ==
    ASSUME NEW entry \in Entries, NEW at \in Nat, entry.known
    PROVE  /\ Recovered(entry, at) \in Entries /\ Recovered(entry, at).known
           /\ Recovered(entry, at).status = "healthy"
           /\ Renewed(entry, at) \in Entries /\ Renewed(entry, at).known
           /\ Renewed(entry, at).status = entry.status
<1>1. /\ Failed(entry, at) \in Entries /\ Failed(entry, at).known = entry.known
      /\ Failed(entry, at).status = "unhealthy" /\ Failed(entry, at).retry <= at + Longest
      /\ Recovered(entry, at) \in Entries /\ Recovered(entry, at).known = entry.known
      /\ Recovered(entry, at).status = "healthy"
      /\ Renewed(entry, at) \in Entries /\ Renewed(entry, at).known = entry.known
      /\ Renewed(entry, at).status = entry.status
  BY EntriesAreEntries
<1>2. Recovered(entry, at).known
  BY <1>1
<1>3. Renewed(entry, at).known
  BY <1>1
<1> QED
  BY <1>1, <1>2, <1>3

\* A probe says that the server is well, or that it is not.
LEMMA ProbeKeeps ==
    ASSUME HealthInv, NEW g \in Guards, Probe(g)
    PROVE  HealthInv'
<1> DEFINE run == guards[g]
<1>1. /\ run \in GuardRuns /\ run.pc = "probing" /\ RunOK(run, failedAt, now) /\ Under(g)
      /\ now' = now /\ health' = health
  BY DEF HealthInv, Probe, Under
<1>2. /\ run.server \in Servers /\ run.at <= now /\ run.at \in Nat /\ Entry(run).known
      /\ StateOK(run.state, failedAt) /\ Entry(run) \in Entries
      /\ EntryOK(Entry(run), failedAt[run.server])
  BY <1>1 DEF RunOK, Running, GuardRuns, StateOK, Entry
<1>3. ~mixed => Agrees(run.state, lastWord)
  BY <1>1 DEF HealthInv, CallAgrees, Running
<1>4. /\ failedAt \in [Servers -> Nat] /\ now \in Nat
      /\ \A s \in Servers : failedAt[s] <= failedAt[s] /\ failedAt[s] <= now
  BY DEF HealthInv, HealthTypes
<1>5. CASE /\ Advances(g, [Noting(run, IF Entry(run).status = "healthy"
                                       THEN Renewed(Entry(run), run.at)
                                       ELSE Recovered(Entry(run), run.at))
                           EXCEPT !.pc = "emptying", !.next = "pass"])
           /\ Hears(g, [lastWord EXCEPT ![run.server] = "healthy"])
           /\ UNCHANGED failedAt
  <2>1. PICK entry \in Entries :
          /\ entry = IF Entry(run).status = "healthy" THEN Renewed(Entry(run), run.at)
                     ELSE Recovered(Entry(run), run.at)
          /\ entry.known /\ entry.status = "healthy"
    <3>1. PICK was \in Entries, at \in Nat : was = Entry(run) /\ at = run.at /\ was.known
      BY <1>2
    <3>2. /\ Recovered(was, at) \in Entries /\ Recovered(was, at).known
          /\ Recovered(was, at).status = "healthy"
          /\ Renewed(was, at) \in Entries /\ Renewed(was, at).known
          /\ Renewed(was, at).status = was.status
      BY <3>1, RecoveryNoted
    <3>3. CASE was.status = "healthy"
      BY <3>1, <3>2, <3>3
    <3>4. CASE was.status # "healthy"
      BY <3>1, <3>2, <3>4
    <3> QED
      BY <3>3, <3>4
  <2>2. EntryOK(entry, failedAt'[run.server])
    BY <2>1 DEF EntryOK
  <2>3. guards' = [guards EXCEPT ![g] = Noted(run, entry, "pass")] /\ verdict' = NoVerdict
    BY <1>5, <2>1 DEF Advances, Noted
  <2>4. PICK words : words = [lastWord EXCEPT ![run.server] = entry.status] /\ Hears(g, words)
    BY <1>5, <2>1
  <2> HIDE DEF run
  <2> QED
    BY <1>1, <1>2, <1>3, <1>4, <1>5, <2>1, <2>2, <2>3, <2>4, NotingKeeps
<1>6. CASE /\ Advances(g, [Noting(run, Failed(Entry(run), run.at))
                           EXCEPT !.pc = "emptying", !.next = "block"])
           /\ Hears(g, [lastWord EXCEPT ![run.server] = "unhealthy"])
           /\ failedAt' = [failedAt EXCEPT ![run.server] = now]
  <2>1. /\ failedAt' \in [Servers -> Nat]
        /\ \A t \in Servers : failedAt[t] <= failedAt'[t] /\ failedAt'[t] <= now
        /\ Failed(Entry(run), run.at) \in Entries /\ Failed(Entry(run), run.at).known
        /\ Failed(Entry(run), run.at).status = "unhealthy"
        /\ EntryOK(Failed(Entry(run), run.at), failedAt'[run.server])
    BY <1>2, <1>6, FailureNoted
  <2>2. PICK entry \in Entries : entry = Failed(Entry(run), run.at)
    BY <2>1
  <2>3. guards' = [guards EXCEPT ![g] = Noted(run, entry, "block")] /\ verdict' = NoVerdict
    BY <1>6, <2>2 DEF Advances, Noted
  <2>4. PICK words : words = [lastWord EXCEPT ![run.server] = entry.status] /\ Hears(g, words)
    BY <1>6, <2>1, <2>2
  <2> HIDE DEF run
  <2> QED
    BY <1>1, <1>2, <1>3, <2>1, <2>2, <2>3, <2>4, NotingKeeps
<1> QED
  BY <1>5, <1>6 DEF Probe

\* A failed call is noted in what the run has loaded.
LEMMA AfterFailedCallKeeps ==
    ASSUME HealthInv, NEW g \in Guards, NEW s \in Servers, AfterFailedCall(g, s)
    PROVE  HealthInv'
<1> DEFINE run == Notes(s, now, Loaded(s))
<1>1. now \in Nat /\ now <= now
  BY DEF HealthInv, HealthTypes
<1>2. /\ StateOK(Loaded(s), failedAt) /\ Loaded(s)[s].known
      /\ Loaded(s) \in [Servers -> Entries] /\ Loaded(s)[s] \in Entries
      /\ Agrees(health.servers, lastWord) => Agrees(Loaded(s), lastWord)
  BY LoadedStates DEF StateOK
<1>3. /\ run \in GuardRuns /\ run.pc = "emptying" /\ run.server = s /\ run.at = now
      /\ run.state = Loaded(s) /\ Entry(run) = Loaded(s)[s] /\ run.next = "reconnect"
  BY <1>1, <1>2, BegunRuns
<1>4. run = [Unstarted EXCEPT !.pc = "emptying", !.server = s, !.at = now, !.state = Loaded(s),
                              !.next = "reconnect"]
  BY DEF Notes
<1>5. /\ Advances(g, Noting(run, Failed(Entry(run), now)))
      /\ Hears(g, [lastWord EXCEPT ![s] = "unhealthy"])
      /\ failedAt' = [failedAt EXCEPT ![s] = now]
      /\ now' = now /\ health' = health /\ guards[g].pc = "off"
  BY <1>4 DEF AfterFailedCall
<1> HIDE DEF run
<1>6. /\ failedAt' \in [Servers -> Nat]
      /\ \A t \in Servers : failedAt[t] <= failedAt'[t] /\ failedAt'[t] <= now
      /\ Failed(Entry(run), now) \in Entries /\ Failed(Entry(run), now).known
      /\ Failed(Entry(run), now).status = "unhealthy"
      /\ EntryOK(Failed(Entry(run), now), failedAt'[s])
  <2>1. Entry(run) \in Entries /\ Entry(run).known
    BY <1>2, <1>3
  <2> QED
    BY <1>1, <1>5, <2>1, FailureNoted
<1>7. PICK entry \in Entries : entry = Failed(Entry(run), now)
  BY <1>6
<1>8. guards' = [guards EXCEPT ![g] = Noted(run, entry, "reconnect")] /\ verdict' = NoVerdict
  <2>1. Noting(run, entry) = Noted(run, entry, "reconnect")
    BY <1>3, <1>7, NotedRuns
  <2> QED
    BY <1>5, <1>7, <2>1 DEF Advances
<1>9. PICK words : words = [lastWord EXCEPT ![run.server] = entry.status] /\ Hears(g, words)
  BY <1>3, <1>5, <1>6, <1>7
<1>10. ~mixed /\ (\A h \in Guards : h # g => ~Under(h)) => Agrees(run.state, lastWord)
  BY <1>2, <1>3, <1>5 DEF HealthInv, Under
<1> QED
  BY <1>1, <1>2, <1>3, <1>5, <1>6, <1>7, <1>8, <1>9, <1>10, NotingKeeps

\* A reconnection says that the server is well again; one that fails leaves
\* the file as the run has written it.
LEMMA ReconnectKeeps ==
    ASSUME HealthInv, NEW g \in Guards, Reconnect(g)
    PROVE  HealthInv'
<1> DEFINE run == guards[g]
<1>1. /\ run \in GuardRuns /\ run.pc = "reconnecting" /\ RunOK(run, failedAt, now) /\ Under(g)
      /\ now' = now /\ health' = health /\ failedAt' = failedAt
  BY DEF HealthInv, Reconnect, Under
<1>2. /\ run.server \in Servers /\ run.at <= now /\ run.at \in Nat /\ Entry(run).known
      /\ StateOK(run.state, failedAt) /\ Entry(run) \in Entries
  BY <1>1 DEF RunOK, Running, GuardRuns, StateOK, Entry
<1>3. ~mixed => Agrees(run.state, lastWord) /\ Agrees(health.servers, lastWord)
  BY <1>1 DEF HealthInv, CallAgrees, Running
<1>4. /\ failedAt \in [Servers -> Nat] /\ now \in Nat
      /\ \A s \in Servers : failedAt[s] <= failedAt[s] /\ failedAt[s] <= now
  BY DEF HealthInv, HealthTypes
<1>5. CASE /\ Advances(g, [Noting(run, Recovered(Entry(run), run.at))
                           EXCEPT !.pc = "emptying", !.next = "done"])
           /\ Hears(g, [lastWord EXCEPT ![run.server] = "healthy"])
  <2>1. PICK entry \in Entries : /\ entry = Recovered(Entry(run), run.at)
                                 /\ entry.known /\ entry.status = "healthy"
    <3>1. PICK was \in Entries, at \in Nat : was = Entry(run) /\ at = run.at /\ was.known
      BY <1>2
    <3>2. /\ Recovered(was, at) \in Entries /\ Recovered(was, at).known
          /\ Recovered(was, at).status = "healthy"
      BY <3>1, RecoveryNoted
    <3> QED
      BY <3>1, <3>2
  <2>2. EntryOK(entry, failedAt'[run.server])
    BY <2>1 DEF EntryOK
  <2>3. guards' = [guards EXCEPT ![g] = Noted(run, entry, "done")] /\ verdict' = NoVerdict
    BY <1>5, <2>1 DEF Advances, Noted
  <2>4. PICK words : words = [lastWord EXCEPT ![run.server] = entry.status] /\ Hears(g, words)
    BY <1>5, <2>1
  <2> HIDE DEF run
  <2> QED
    BY <1>1, <1>2, <1>3, <1>4, <2>1, <2>2, <2>3, <2>4, NotingKeeps
<1>6. CASE Ends(g, NoVerdict) /\ UNCHANGED <<lastWord, mixed>>
  <2>1. RunOK(Finished, failedAt', now') /\ ~Running(Finished)
    BY FinishedRuns
  <2>2. ~mixed' => /\ ~mixed /\ \A h \in Guards : h # g => ~Under(h)
                   /\ CallAgrees(Finished, health', lastWord')
    BY <1>1, <1>3, <1>6, <2>1 DEF HealthInv, CallAgrees
  <2>3. /\ HealthTypes(now', failedAt', lastWord', mixed') /\ now <= now'
        /\ StateOK(health'.servers, failedAt')
    BY <1>1, <1>4, <1>6 DEF HealthInv
  <2>4. VerdictOK(verdict', failedAt', lastWord', mixed')
    BY <1>6 DEF Ends, VerdictOK, NoVerdict
  <2>5. \A s \in Servers : failedAt[s] <= failedAt'[s]
    BY <1>1, <1>4
  <2>6. guards' = [guards EXCEPT ![g] = Finished]
    BY <1>6 DEF Ends
  <2> QED
    BY <2>1, <2>2, <2>3, <2>4, <2>5, <2>6, GuardStepKeeps
<1> QED
  BY <1>5, <1>6 DEF Reconnect

\* The run that goes to write empties the file first.
LEMMA EmptyHealthKeeps ==
    ASSUME HealthInv, NEW g \in Guards, EmptyHealth(g)
    PROVE  HealthInv'
<1> DEFINE run == guards[g]  after == [run EXCEPT !.pc = "filling"]
<1>1. /\ run \in GuardRuns /\ run.pc = "emptying" /\ RunOK(run, failedAt, now) /\ Under(g)
      /\ now' = now /\ health' = EmptyFile /\ failedAt' = failedAt
      /\ lastWord' = lastWord /\ mixed' = mixed
      /\ guards' = [guards EXCEPT ![g] = after] /\ verdict' = NoVerdict
  BY DEF HealthInv, EmptyHealth, Under, Advances
<1>2. /\ after \in GuardRuns /\ after.pc = "filling" /\ after.server = run.server
      /\ after.at = run.at /\ after.state = run.state /\ after.next = run.next
      /\ Entry(after) = Entry(run)
  BY <1>1 DEF GuardRuns, Entry
<1> HIDE DEF after
<1>3. RunOK(after, failedAt', now')
  BY <1>1, <1>2 DEF RunOK, Running
<1>4. /\ failedAt \in [Servers -> Nat] /\ now \in Nat
      /\ \A s \in Servers : failedAt[s] <= failedAt[s]
      /\ HealthTypes(now', failedAt', lastWord', mixed') /\ now <= now'
  BY <1>1 DEF HealthInv, HealthTypes
<1>5. health'.text = "empty" /\ health'.servers = NoneKnown /\ StateOK(health'.servers, failedAt')
  BY <1>1, FinishedRuns DEF EmptyFile
<1>6. ~mixed' => /\ ~mixed /\ \A h \in Guards : h # g => ~Under(h)
                 /\ CallAgrees(after, health', lastWord')
  BY <1>1, <1>2, <1>5 DEF HealthInv, CallAgrees, Running
<1>7. VerdictOK(verdict', failedAt', lastWord', mixed')
  BY <1>1 DEF VerdictOK, NoVerdict
<1> QED
  BY <1>1, <1>3, <1>4, <1>5, <1>6, <1>7, GuardStepKeeps

(* What a run does when it has written, and tells the agent's tool.        *)
GuardProceeds(g, run) ==
    CASE run.next = "reconnect" -> Advances(g, [run EXCEPT !.pc = "reconnecting"])
      [] run.next = "pass" -> Ends(g, Passed(run))
      [] run.next = "block" -> Ends(g, Refused(run))
      [] OTHER -> Ends(g, NoVerdict)

\* The file holds what the run holds, or what two runs have garbled; and the
\* verdict is what the run has noted of its server.
LEMMA FillHealthKeeps ==
    ASSUME HealthInv, NEW g \in Guards, FillHealth(g)
    PROVE  HealthInv'
<1> DEFINE run == guards[g]
<1>1. /\ run \in GuardRuns /\ run.pc = "filling" /\ RunOK(run, failedAt, now) /\ Under(g)
      /\ now' = now /\ failedAt' = failedAt /\ lastWord' = lastWord /\ mixed' = mixed
      /\ GuardProceeds(g, run)
      /\ \/ health' = Whole(run.state)
         \/ health.text # "empty" /\ health' = Garbled
  BY DEF HealthInv, FillHealth, Under, GuardProceeds
<1>2. /\ run.server \in Servers /\ run.at <= now /\ run.at \in Nat /\ Entry(run).known
      /\ StateOK(run.state, failedAt) /\ Entry(run) \in Entries
      /\ EntryOK(Entry(run), failedAt[run.server])
      /\ run.next = "pass" => Entry(run).status = "healthy"
      /\ run.next = "block" => Entry(run).status = "unhealthy"
  BY <1>1 DEF RunOK, Running, GuardRuns, StateOK, Entry
<1>3. ~mixed => Agrees(run.state, lastWord) /\ health.text = "empty"
  BY <1>1 DEF HealthInv, CallAgrees, Running
<1>4. StateOK(health'.servers, failedAt')
  BY <1>1, <1>2, FinishedRuns DEF Whole, Garbled
<1>5. ~mixed' => Agrees(health'.servers, lastWord')
  BY <1>1, <1>3 DEF Whole
<1>6. /\ failedAt \in [Servers -> Nat] /\ now \in Nat
      /\ \A s \in Servers : failedAt[s] <= failedAt'[s]
      /\ HealthTypes(now', failedAt', lastWord', mixed') /\ now <= now'
  BY <1>1 DEF HealthInv, HealthTypes
<1>7. ~mixed' => ~mixed /\ \A h \in Guards : h # g => ~Under(h)
  BY <1>1 DEF HealthInv
<1>8. ~mixed => lastWord[run.server] = Entry(run).status
  BY <1>2, <1>3 DEF Agrees, Entry
<1>9. CASE run.next = "reconnect"
  <2> DEFINE after == [run EXCEPT !.pc = "reconnecting"]
  <2>1. guards' = [guards EXCEPT ![g] = after] /\ verdict' = NoVerdict
    BY <1>1, <1>9 DEF GuardProceeds, Advances
  <2>2. /\ after \in GuardRuns /\ after.pc = "reconnecting" /\ after.server = run.server
        /\ after.at = run.at /\ after.state = run.state /\ Entry(after) = Entry(run)
    BY <1>1 DEF GuardRuns, Entry
  <2> HIDE DEF after
  <2>3. RunOK(after, failedAt', now')
    BY <1>1, <1>2, <2>2 DEF RunOK
  <2>4. ~mixed' => CallAgrees(after, health', lastWord')
    BY <1>1, <1>3, <1>5, <2>2 DEF CallAgrees
  <2>5. VerdictOK(verdict', failedAt', lastWord', mixed')
    BY <2>1 DEF VerdictOK, NoVerdict
  <2> QED
    BY <1>4, <1>6, <1>7, <2>1, <2>3, <2>4, <2>5, GuardStepKeeps
<1>10. CASE run.next # "reconnect"
  <2>1. PICK word : Ends(g, word) /\ VerdictOK(word, failedAt', lastWord', mixed')
    <3>1. VerdictOK(NoVerdict, failedAt', lastWord', mixed')
      BY DEF VerdictOK, NoVerdict
    <3>2. run.next = "pass" => VerdictOK(Passed(run), failedAt', lastWord', mixed')
      BY <1>1, <1>2, <1>8 DEF VerdictOK, Passed
    <3>3. run.next = "block" => VerdictOK(Refused(run), failedAt', lastWord', mixed')
      <4>1. CASE FailOpen
        BY <4>1 DEF VerdictOK, Refused, Passed
      <4>2. CASE ~FailOpen
        <5>1. Refused(run) = [server |-> run.server, call |-> "is refused",
                              retry |-> Entry(run).retry]
          BY <4>2 DEF Refused
        <5>2. SUFFICES ASSUME run.next = "block"
                       PROVE  VerdictOK(Refused(run), failedAt', lastWord', mixed')
          OBVIOUS
        <5>3. /\ failedAt[run.server] > 0 /\ Entry(run).retry <= failedAt[run.server] + Longest
              /\ mixed \/ lastWord[run.server] = "unhealthy"
          BY <1>2, <1>8, <5>2 DEF EntryOK
        <5>4. mixed' \/ lastWord'[run.server] = "unhealthy"
          BY <1>1, <5>3
        <5>5. PICK server, retry : server = run.server /\ retry = Entry(run).retry
          OBVIOUS
        <5>6. PICK word : word = [server |-> server, call |-> "is refused", retry |-> retry]
          OBVIOUS
        <5>7. VerdictOK(word, failedAt', lastWord', mixed')
          BY <1>1, <5>3, <5>4, <5>5, <5>6 DEF VerdictOK
        <5> QED
          BY <5>1, <5>5, <5>6, <5>7
      <4> QED
        BY <4>1, <4>2
    <3>4. \/ run.next = "pass" /\ Ends(g, Passed(run))
          \/ run.next = "block" /\ Ends(g, Refused(run))
          \/ Ends(g, NoVerdict)
      BY <1>1, <1>10 DEF GuardProceeds
    <3> QED
      BY <3>1, <3>2, <3>3, <3>4
  <2>2. guards' = [guards EXCEPT ![g] = Finished] /\ verdict' = word
    BY <2>1 DEF Ends
  <2>3. RunOK(Finished, failedAt', now') /\ ~Running(Finished)
    BY FinishedRuns
  <2>4. ~mixed' => CallAgrees(Finished, health', lastWord')
    BY <1>5, <2>3 DEF CallAgrees
  <2> QED
    BY <1>4, <1>6, <1>7, <2>1, <2>2, <2>3, <2>4, GuardStepKeeps
<1> QED
  BY <1>9, <1>10

\* When a run breaks off, nothing that was heard counts any more.
LEMMA GiveUpGuardKeeps ==
    ASSUME HealthInv, NEW g \in Guards, GiveUpGuard(g)
    PROVE  HealthInv'
<1>1. /\ now' = now /\ health' = health /\ failedAt' = failedAt
      /\ lastWord' = AllWell /\ mixed' = TRUE
      /\ guards' = [guards EXCEPT ![g] = Finished] /\ verdict' = NoVerdict
  BY DEF GiveUpGuard, Ends
<1>2. RunOK(Finished, failedAt', now') /\ ~Running(Finished)
  BY FinishedRuns
<1>3. AllWell \in [Servers -> Statuses]
  BY DEF AllWell, Statuses
<1>4. /\ HealthTypes(now', failedAt', lastWord', mixed') /\ now <= now'
      /\ \A s \in Servers : failedAt[s] <= failedAt'[s]
      /\ StateOK(health'.servers, failedAt')
  BY <1>1, <1>3 DEF HealthInv, HealthTypes
<1>5. VerdictOK(verdict', failedAt', lastWord', mixed')
  BY <1>1 DEF VerdictOK, NoVerdict
<1> QED
  BY <1>1, <1>2, <1>4, <1>5, GuardStepKeeps

\* Time passes, and nobody is told anything.
LEMMA HourKeeps ==
    ASSUME HealthInv, Hour
    PROVE  HealthInv'
<1>1. /\ now' = now + 1 /\ health' = health /\ guards' = guards /\ failedAt' = failedAt
      /\ lastWord' = lastWord /\ mixed' = mixed /\ verdict' = NoVerdict
  BY DEF Hour
<1>2. HealthTypes(now', failedAt', lastWord', mixed') /\ now \in Nat
  BY <1>1 DEF HealthInv, HealthTypes
<1>3. ASSUME NEW g \in Guards PROVE RunOK(guards'[g], failedAt', now')
  BY <1>1, <1>2 DEF HealthInv, RunOK, GuardRuns
<1>4. VerdictOK(verdict', failedAt', lastWord', mixed')
  BY <1>1 DEF VerdictOK, NoVerdict
<1> QED
  BY <1>1, <1>2, <1>3, <1>4 DEF HealthInv, Under

\* The file may hold anything, but what it says can be answered for.
LEMMA HealthInvHolds == HealthSpec => []HealthInv
<1>1. HealthInit => HealthInv
  <2> SUFFICES ASSUME HealthInit PROVE HealthInv
    OBVIOUS
  <2>1. /\ RunOK(Unstarted, failedAt, now) /\ ~Running(Unstarted) /\ StateOK(NoneKnown, failedAt)
        /\ Unstarted \in GuardRuns
    BY FinishedRuns DEF RunOK
  <2>2. /\ health.servers = NoneKnown /\ guards \in [Guards -> GuardRuns]
        /\ \A g \in Guards : guards[g] = Unstarted /\ ~Under(g)
    BY <2>1 DEF HealthInit, EmptyFile, Running, Under
  <2>3. HealthTypes(now, failedAt, lastWord, mixed)
    <3>1. PICK one \in Nat \ {0}, none \in Nat : one = 1 /\ none = 0 /\ none <= one
      OBVIOUS
    <3>2. /\ now = one /\ failedAt = [s \in Servers |-> none] /\ mixed \in BOOLEAN
          /\ lastWord = [s \in Servers |-> "healthy"]
      BY <3>1 DEF HealthInit, AllWell
    <3> QED
      BY <3>1, <3>2 DEF HealthTypes, Statuses
  <2>4. Agrees(health.servers, lastWord)
    BY <2>2 DEF HealthInit, Agrees, NoneKnown, Unknown, AllWell
  <2>5. VerdictOK(verdict, failedAt, lastWord, mixed)
    BY DEF HealthInit, VerdictOK, NoVerdict
  <2> QED
    BY <2>1, <2>2, <2>3, <2>4, <2>5 DEF HealthInv
<1>2. HealthInv /\ [HealthNext]_healthVars => HealthInv'
  <2> SUFFICES ASSUME HealthInv, [HealthNext]_healthVars PROVE HealthInv'
    OBVIOUS
  <2>1. CASE Hour
    BY <2>1, HourKeeps
  <2>2. CASE \E g \in Guards :
               \/ \E s \in Servers : BeforeCall(g, s) \/ AfterFailedCall(g, s)
               \/ Probe(g) \/ Reconnect(g) \/ EmptyHealth(g) \/ FillHealth(g) \/ GiveUpGuard(g)
    BY <2>2, BeforeCallKeeps, AfterFailedCallKeeps, ProbeKeeps, ReconnectKeeps,
       EmptyHealthKeeps, FillHealthKeeps, GiveUpGuardKeeps
  <2>3. CASE UNCHANGED healthVars
    BY <2>3 DEF healthVars, HealthInv, Under
  <2> QED
    BY <2>1, <2>2, <2>3 DEF HealthNext
<1> QED
  BY <1>1, <1>2, PTL DEF HealthSpec

\* A server is refused only while it is down, for no longer than the longest
\* pause after it failed, and, while the hook's runs do not overlap, as was
\* last heard of it: whatever other runs make of the file.
THEOREM VerdictsAreEarned == HealthSpec => []VerdictsFollowTheServer
<1>1. HealthInv => VerdictsFollowTheServer
  BY DEF HealthInv, VerdictOK, VerdictsFollowTheServer
<1> QED
  BY <1>1, HealthInvHolds, PTL

-----------------------------------------------------------------------------
(***************************************************************************)
(* SpecLifecycle.  A spec of old is kept under its slug and the number     *)
(* that its row names, any other under a number of its own, and so is a    *)
(* spec of old that has lost its record to another with that number and    *)
(* is started anew; a call under way holds a record of some spec there is, *)
(* or, under the lock, one whose number and slug are still free.  The      *)
(* texts of the slot that calls have read are one text, which is in the    *)
(* archive when the slot is empty, if it has a number.                     *)
(***************************************************************************)
Points ==
    {"idle", "minting", "minted", "writing", "mirroring", "mirrored", "rendering", "rendered",
     "peeking", "checking", "archiving", "planning", "resetting", "clearing", "sweeping",
     "listing", "walking", "calling", "locking", "migrating", "renaming", "renamed"}
Nexts == {"idle", "mirroring", "rendering", "sweeping", "walking"}
Shelving == {"checking", "archiving", "planning", "resetting", "clearing"}

VerbCalls ==
    [pc : Points, verb : (UNION VerbSets) \cup {Nil}, slug : Slugs \cup {Nil},
     record : Records \cup {Nil}, next : Nexts \cup {Nil}, todo : SUBSET Keys,
     known : SUBSET Keys, text : Slots, fresh : BOOLEAN, alone : BOOLEAN]

Directories == Keys \X Slugs
Archives == [Directories -> Filings \cup {Nil}]

LifecycleTypeOK ==
    /\ sidecars \in [Keys -> Records \cup {Nil}]
    /\ rows \in SUBSET Keys
    /\ archive \in Archives
    /\ slot \in Slots
    /\ loose \in SUBSET (Numbers \X Slugs)
    /\ lock \in Actors \cup {Nil}
    /\ acts \in [Actors -> VerbCalls]
    /\ verbs \in VerbSets

Hints == {Hint[s] : s \in Legacy}
Fresh == Numbers \ Hints

\* A record of old; one of a spec whose number is another's may be lost.
Old(r) == r.slug \in Legacy /\ ~(r.slug \in Shared /\ r.id \in Fresh)
KeysOf(r) == IF Old(r) THEN {r.slug, Hint[r.slug]} ELSE {r.id} \cap Fresh
Proper(r) == r.id \in KeysOf(r) /\ (r.state = "draft" => r.id \in Fresh)

\* The records are of specs of their own.
RecordsApart(cars) ==
    /\ \A k \in Keys : cars[k] # Nil => k \in KeysOf(cars[k]) /\ Proper(cars[k])
    /\ \A s \in Legacy \ Shared : cars[s] # Nil \/ cars[Hint[s]] # Nil
    /\ \A j, k \in Keys :
         /\ cars[j] # Nil /\ cars[k] # Nil
         /\ cars[j].slug = cars[k].slug /\ cars[j].slug \notin Legacy
         => j = k

\* A record that may be written: its spec is there.
IsOf(r, cars) ==
    /\ r \in Records /\ Proper(r)
    /\ ~Old(r) => cars[r.id] # Nil /\ cars[r.id].slug = r.slug

\* A record whose number, and whose slug unless of old, no other has.
IsNew(r, cars) ==
    /\ r \in Records /\ r.id \in Fresh /\ r.slug \notin Legacy \ Shared
    /\ cars[r.id] = Nil
    /\ r.slug \notin Legacy => \A k \in Keys : cars[k] # Nil => cars[k].slug # r.slug

CallFits(p, call, cars, holds) ==
    /\ call.record # Nil /\ call.pc # "minted" => IsOf(call.record, cars)
    /\ call.pc \in {"minted", "migrating", "renaming", "renamed"} => holds = p
    /\ call.pc = "minting" => call.slug \in Slugs
    /\ call.pc = "minted" => call.record # Nil /\ IsNew(call.record, cars)
    /\ call.pc \in {"renaming", "renamed"} =>
         /\ call.record # Nil
         /\ call.record.slug \in Legacy /\ call.record.id = Hint[call.record.slug]
    /\ call.pc = "renamed" => cars[call.record.slug] # Nil
    /\ call.pc = "rendered" => Hints \subseteq call.known
    /\ call.pc \in {"writing", "mirroring", "mirrored", "calling", "peeking"} \cup Shelving
         => call.record # Nil
    /\ call.pc \in {"rendering", "rendered"} /\ call.fresh => call.record # Nil
    /\ call.pc = "writing" => call.next \in Nexts

\* The text of a spec, with its number or without; its copy in the archive,
\* that of a text without in the directory of the record shipped.
TextOf(t, cars) ==
    /\ t.spec \in Slugs
    /\ t.id # Nil => t.id \in Fresh /\ cars[t.id] # Nil /\ cars[t.id].slug = t.spec
Shelved(t, arch) == \E s \in Slugs : arch[t.id, s] # Nil /\ arch[t.id, s].spec = t.spec
CopyKept(t, r, arch) ==
    IF t.id # Nil THEN Shelved(t, arch)
    ELSE arch[Directory(r)] # Nil /\ arch[Directory(r)].spec \in {t.spec, r.slug}

SlotFits(s, cars) == IF s.spec = Blank THEN s.id = Nil ELSE TextOf(s, cars)

TextFits(call, s, cars, arch) ==
    /\ call.text.spec # Blank =>
         /\ TextOf(call.text, cars)
         /\ IF s.spec = Blank THEN call.text.id # Nil => Shelved(call.text, arch)
            ELSE s.spec = call.text.spec /\ s.id = call.text.id
    /\ call.pc \in {"mirrored"} \cup Shelving => call.text.spec # Blank
    /\ call.pc = "idle" => call.text.spec = Blank
    /\ call.pc = "archiving" =>
         call.text.id \in {Nil, call.record.id} \/ Shelved(call.text, arch)
    /\ call.pc \in {"planning", "resetting"} => CopyKept(call.text, call.record, arch)
    /\ call.pc = "planning" => arch[Directory(call.record)] # Nil

SameText(c, d) ==
    c.text.spec # Blank /\ d.text.spec # Blank =>
        c.text.spec = d.text.spec /\ c.text.id = d.text.id

\* A stray file has the slug of the record with its number.
StraySpec(d, cars) == cars[d[1]] # Nil /\ cars[d[1]].slug = d[2]

LifecycleInv ==
    /\ LifecycleTypeOK
    /\ RecordsApart(sidecars)
    /\ Hints \subseteq rows
    /\ SlotFits(slot, sidecars)
    /\ \A d \in loose : d[1] \in Fresh => StraySpec(d, sidecars)
    /\ \A p \in Actors : /\ CallFits(p, acts[p], sidecars, lock)
                         /\ TextFits(acts[p], slot, sidecars, archive)
    /\ \A p, q \in Actors : SameText(acts[p], acts[q])

\* What the assumptions say of keys, slugs and numbers.
LEMMA KeyFacts ==
    /\ Legacy \subseteq Slugs /\ Numbers \subseteq Keys /\ Slugs \subseteq Keys
    /\ Slugs \cap Numbers = {} /\ Keys = Numbers \cup Slugs
    /\ \A s \in Legacy : Hint[s] \in Numbers /\ Hint[s] \in Hints /\ Hint[s] \in Keys
    /\ \A s, t \in Legacy : Hint[s] = Hint[t] => s = t \/ {s, t} \subseteq Shared
    /\ Hints \subseteq Numbers /\ Shared \subseteq Legacy
    /\ Fresh \subseteq Numbers /\ Fresh \cap Hints = {} /\ Numbers = Fresh \cup Hints
    /\ Nil \notin Keys /\ Nil \notin Actors /\ Nil \notin Records /\ Nil \notin Filings
    /\ Blank \notin Slugs
  BY LifecycleAssumption, NilAssumption DEF Keys, Hints, Fresh, Shared

\* A record.
LEMMA RecordFacts ==
    ASSUME NEW r \in Records
    PROVE  /\ r.id \in Keys /\ r.slug \in Slugs /\ r.state \in States /\ r # Nil
           /\ \A k \in KeysOf(r) : k \in Keys
<1>1. /\ r.id \in Keys /\ r.slug \in Slugs /\ r.state \in States /\ r # Nil
  BY KeyFacts DEF Records
<1>2. \A k \in KeysOf(r) : k \in Keys
  BY <1>1, KeyFacts DEF KeysOf, Old
<1> QED
  BY <1>1, <1>2

Cabinets == [Keys -> Records \cup {Nil}]

\* What is written of a record depends on its number and slug alone.
LEMMA SameSpec ==
    ASSUME NEW r \in Records, NEW q \in Records, r.id = q.id, r.slug = q.slug,
           q.state = "draft" => r.state = "draft", NEW cars, IsOf(r, cars)
    PROVE  IsOf(q, cars)
  BY DEF IsOf, KeysOf, Old, Proper

\* A record with another state, a shipped one.
LEMMA Restated ==
    ASSUME NEW r \in Records, NEW state \in States, state # "draft", NEW cars, IsOf(r, cars)
    PROVE  \E q \in Records : q = [r EXCEPT !.state = state] /\ IsOf(q, cars)
<1> DEFINE q == [r EXCEPT !.state = state]
<1>1. q \in Records /\ q.id = r.id /\ q.slug = r.slug /\ q.state = state
  BY DEF Records
<1> HIDE DEF q
<1>2. IsOf(q, cars)
  BY <1>1, SameSpec
<1> QED
  BY <1>1, <1>2 DEF q

LEMMA Reshipped ==
    ASSUME NEW r \in Records, NEW pr \in BOOLEAN, NEW cars, IsOf(r, cars)
    PROVE  \E q \in Records : /\ q = [r EXCEPT !.state = "shipped", !.branch = TRUE, !.pr = pr]
                             /\ IsOf(q, cars)
<1> DEFINE q == [r EXCEPT !.state = "shipped", !.branch = TRUE, !.pr = pr]
<1>0. "shipped" \in States
  BY DEF States, Legal
<1>1. q \in Records /\ q.id = r.id /\ q.slug = r.slug /\ q.state = "shipped"
  BY <1>0 DEF Records
<1> HIDE DEF q
<1>2. IsOf(q, cars)
  BY <1>1, SameSpec
<1> QED
  BY <1>1, <1>2 DEF q

\* A record that is not of old, one of a new number, is kept under it alone.
LEMMA NewKeys ==
    ASSUME NEW r \in Records
    PROVE  /\ \A k \in KeysOf(r) : ~Old(r) => k = r.id /\ k \in Fresh
           /\ \A k \in KeysOf(r) \cap Fresh : ~Old(r) /\ k = r.id
           /\ r.id \in KeysOf(r) \cap Fresh => KeysOf(r) = {r.id}
           /\ \A k \in KeysOf(r) \ Fresh : Old(r) /\ KeysOf(r) = {r.slug, Hint[r.slug]}
           /\ r.slug \in Legacy \ Shared => Old(r)
           /\ Old(r) => r.slug \in Legacy
  BY KeyFacts DEF KeysOf, Old

\* A record that is there may be written again.
LEMMA ThereIsOf ==
    ASSUME NEW cars \in Cabinets, RecordsApart(cars), NEW k \in Keys, cars[k] # Nil
    PROVE  cars[k] \in Records /\ IsOf(cars[k], cars)
<1>1. PICK r \in Records : r = cars[k]
  BY DEF Cabinets
<1>2. Proper(r) /\ k \in KeysOf(r)
  BY <1>1 DEF RecordsApart
<1>3. ~Old(r) => k = r.id
  BY <1>2, NewKeys
<1> QED
  BY <1>1, <1>2, <1>3 DEF IsOf

\* Two keys of one spec.
LEMMA OneSpecPerNumber ==
    ASSUME NEW cars \in Cabinets, RecordsApart(cars),
           NEW k \in Fresh, cars[k] # Nil, NEW r, IsOf(r, cars), k \in KeysOf(r)
    PROVE  r.slug = cars[k].slug
<1>1. r \in Records
  BY DEF IsOf
<1>2. ~Old(r) /\ k = r.id
  BY <1>1, NewKeys
<1> QED
  BY <1>2 DEF IsOf

KeepsNumbers(cars, new) ==
    \A k \in Fresh : cars[k] # Nil => new[k] # Nil /\ new[k].slug = cars[k].slug

\* To write a record under a key of its spec keeps the specs apart.
LEMMA PutKeepsApart ==
    ASSUME NEW cars \in Cabinets, RecordsApart(cars), NEW r, IsOf(r, cars),
           NEW k \in KeysOf(r), NEW new, new = [cars EXCEPT ![k] = r]
    PROVE  /\ new \in Cabinets /\ RecordsApart(new) /\ KeepsNumbers(cars, new)
           /\ \A j \in Keys : cars[j] # Nil => new[j] # Nil
           /\ \A n : IsNew(n, cars) => IsNew(n, new)
<1>1. r \in Records /\ r.slug \in Slugs /\ Proper(r) /\ r # Nil /\ k \in Keys
  BY RecordFacts DEF IsOf
<1>2. new \in Cabinets /\ new[k] = r /\ \A j \in Keys \ {k} : new[j] = cars[j]
  BY <1>1 DEF Cabinets
<1>3. \A j \in Keys : cars[j] # Nil => new[j] # Nil
  BY <1>1, <1>2
<1>4. KeepsNumbers(cars, new)
  <2>1. SUFFICES ASSUME NEW j \in Fresh, cars[j] # Nil
                 PROVE  new[j] # Nil /\ new[j].slug = cars[j].slug
    BY DEF KeepsNumbers
  <2>2. CASE j = k
    BY <1>1, <1>2, <2>1, <2>2, OneSpecPerNumber
  <2>3. CASE j # k
    BY <1>2, <2>1, <2>3, KeyFacts
  <2> QED
    BY <2>2, <2>3
<1>5. RecordsApart(new)
  <2>1. \A j \in Keys : new[j] # Nil => j \in KeysOf(new[j]) /\ Proper(new[j])
    BY <1>1, <1>2 DEF RecordsApart
  <2>2. \A s \in Legacy \ Shared : new[s] # Nil \/ new[Hint[s]] # Nil
    BY <1>3, KeyFacts DEF RecordsApart
  <2>3. ASSUME NEW i \in Keys, NEW j \in Keys, new[i] # Nil, new[j] # Nil,
               new[i].slug = new[j].slug, new[i].slug \notin Legacy
        PROVE  i = j
    <3>1. CASE i # k /\ j # k
      BY <1>2, <2>3, <3>1 DEF RecordsApart
    <3>2. ASSUME NEW h \in Keys, h # k, new[h] # Nil, new[h].slug = r.slug, r.slug \notin Legacy
          PROVE  FALSE
      <4>1. k = r.id /\ cars[k] # Nil /\ cars[k].slug = r.slug /\ new[h] = cars[h]
        <5>1. ~Old(r) /\ k = r.id
          BY <1>1, <3>2, NewKeys
        <5> QED
          BY <1>2, <3>2, <5>1 DEF IsOf
      <4> QED
        BY <1>1, <3>2, <4>1 DEF RecordsApart
    <3> QED
      BY <1>2, <2>3, <3>1, <3>2
  <2> QED
    BY <2>1, <2>2, <2>3 DEF RecordsApart
<1>6. ASSUME NEW n, IsNew(n, cars) PROVE IsNew(n, new)
  <2>1. /\ n \in Records /\ n.id \in Fresh /\ n.slug \notin Legacy \ Shared
        /\ cars[n.id] = Nil
        /\ n.slug \notin Legacy => \A j \in Keys : cars[j] # Nil => cars[j].slug # n.slug
    BY <1>6 DEF IsNew
  <2>2. k # n.id
    <3>1. k = n.id => ~Old(r) /\ k = r.id
      BY <1>1, <2>1, NewKeys
    <3> QED
      BY <2>1, <3>1 DEF IsOf
  <2>3. new[n.id] = Nil
    BY <1>2, <2>1, <2>2, KeyFacts
  <2>4. n.slug \notin Legacy => \A j \in Keys : new[j] # Nil => new[j].slug # n.slug
    <3>1. n.slug \notin Legacy => r.slug # n.slug
      <4>1. r.slug \notin Legacy => cars[r.id] # Nil /\ cars[r.id].slug = r.slug
        BY <1>1, NewKeys DEF IsOf
      <4> QED
        BY <1>1, <2>1, <4>1, RecordFacts
    <3> QED
      BY <1>2, <2>1, <3>1
  <2> QED
    BY <2>1, <2>3, <2>4 DEF IsNew
<1> QED
  BY <1>2, <1>3, <1>4, <1>5, <1>6

\* So does a record of a new spec, and the file that gets its number.
LEMMA NewKeepsApart ==
    ASSUME NEW cars \in Cabinets, RecordsApart(cars), NEW r, IsNew(r, cars),
           NEW new, new = [cars EXCEPT ![r.id] = r]
    PROVE  new \in Cabinets /\ RecordsApart(new) /\ KeepsNumbers(cars, new)
<1>1. /\ r \in Records /\ r.id \in Fresh /\ r.slug \notin Legacy \ Shared /\ r # Nil
      /\ cars[r.id] = Nil /\ r.id \in Keys
      /\ r.slug \notin Legacy => \A j \in Keys : cars[j] # Nil => cars[j].slug # r.slug
  BY RecordFacts DEF IsNew
<1>2. /\ new \in Cabinets /\ new[r.id] = r /\ r.id \in KeysOf(r) /\ Proper(r)
      /\ \A j \in Keys \ {r.id} : new[j] = cars[j]
  <2>1. r.id \in KeysOf(r)
    BY <1>1 DEF KeysOf, Old
  <2> QED
    BY <1>1, <2>1 DEF Cabinets, Proper
<1>3. KeepsNumbers(cars, new)
  BY <1>1, <1>2, KeyFacts DEF KeepsNumbers
<1>4. \A j \in Keys : new[j] # Nil => j \in KeysOf(new[j]) /\ Proper(new[j])
  BY <1>2 DEF RecordsApart
<1>5. \A s \in Legacy \ Shared : new[s] # Nil \/ new[Hint[s]] # Nil
  BY <1>1, <1>2, KeyFacts DEF RecordsApart
<1>6. ASSUME NEW i \in Keys, NEW j \in Keys, new[i] # Nil, new[j] # Nil,
             new[i].slug = new[j].slug, new[i].slug \notin Legacy
      PROVE  i = j
  <2>1. CASE i # r.id /\ j # r.id
    BY <1>2, <1>6, <2>1 DEF RecordsApart
  <2>2. CASE i = r.id \/ j = r.id
    BY <1>1, <1>2, <1>6, <2>2
  <2> QED
    BY <2>1, <2>2
<1> QED
  BY <1>2, <1>3, <1>4, <1>5, <1>6 DEF RecordsApart

\* The file of a record that has its number is moved to it.
LEMMA MoveKeepsApart ==
    ASSUME NEW cars \in Cabinets, RecordsApart(cars), NEW r \in Records,
           r.slug \in Legacy, r.id = Hint[r.slug], cars[r.slug] # Nil,
           NEW new, new = [cars EXCEPT ![r.id] = cars[r.slug], ![r.slug] = Nil]
    PROVE  new \in Cabinets /\ RecordsApart(new) /\ KeepsNumbers(cars, new)
<1>1. /\ r.slug \in Keys \ Numbers /\ r.id \in Numbers /\ r.id \in Keys /\ r.id # r.slug
      /\ r.slug \notin Fresh /\ r.id \notin Fresh
  BY KeyFacts
<1>2. PICK moved \in Records : moved = cars[r.slug]
  BY <1>1 DEF Cabinets
<1>3. /\ new \in Cabinets /\ new[r.id] = moved /\ new[r.slug] = Nil
      /\ \A j \in Keys \ {r.id, r.slug} : new[j] = cars[j]
  BY <1>1, <1>2 DEF Cabinets
<1>4. moved.slug = r.slug /\ KeysOf(moved) = {r.slug, r.id} /\ Proper(moved)
  <2>1. r.slug \in KeysOf(moved) /\ Proper(moved) /\ moved.slug \in Slugs
    BY <1>1, <1>2, RecordFacts DEF RecordsApart
  <2>2. Old(moved) /\ KeysOf(moved) = {moved.slug, Hint[moved.slug]} /\ moved.slug \in Legacy
    BY <1>1, <2>1, NewKeys
  <2>3. moved.slug = r.slug
    BY <1>1, <2>1, <2>2, KeyFacts
  <2> QED
    BY <2>1, <2>2, <2>3
<1>5. moved # Nil
  BY <1>2
<1>6. \A j \in Keys : new[j] # Nil => j \in KeysOf(new[j]) /\ Proper(new[j])
  BY <1>3, <1>4 DEF RecordsApart
<1>7. \A s \in Legacy \ Shared : new[s] # Nil \/ new[Hint[s]] # Nil
  <2> SUFFICES ASSUME NEW s \in Legacy \ Shared PROVE new[s] # Nil \/ new[Hint[s]] # Nil
    OBVIOUS
  <2>1. CASE s = r.slug
    BY <1>3, <1>5, <2>1
  <2>2. CASE s # r.slug
    <3>1. s \in Keys \ {r.id, r.slug} /\ Hint[s] \in Keys \ {r.id, r.slug}
      BY <1>1, <2>2, KeyFacts
    <3> QED
      BY <1>3, <3>1 DEF RecordsApart
  <2> QED
    BY <2>1, <2>2
<1>8. ASSUME NEW i \in Keys, NEW j \in Keys, new[i] # Nil, new[j] # Nil,
             new[i].slug = new[j].slug, new[i].slug \notin Legacy
      PROVE  i = j
  <2>1. \A h \in {i, j} : h # r.slug /\ h # r.id
    BY <1>3, <1>4, <1>8
  <2>2. new[i] = cars[i] /\ new[j] = cars[j]
    BY <1>3, <2>1
  <2> QED
    BY <1>8, <2>2 DEF RecordsApart
<1>9. KeepsNumbers(cars, new)
  BY <1>1, <1>3, KeyFacts DEF KeepsNumbers
<1> QED
  BY <1>3, <1>6, <1>7, <1>8, <1>9 DEF RecordsApart

\* What holds of a call depends on the records by what they keep.
LEMMA FitsStay ==
    ASSUME NEW cars \in Cabinets, NEW new, KeepsNumbers(cars, new), NEW q,
           NEW call \in VerbCalls, NEW holds, CallFits(q, call, cars, holds),
           call.pc = "minted" => IsNew(call.record, new),
           call.pc = "renamed" => new[call.record.slug] # Nil
    PROVE  CallFits(q, call, new, holds)
<1>1. ASSUME NEW r, IsOf(r, cars) PROVE IsOf(r, new)
  <2>1. ~Old(r) => r.id \in Fresh
    BY <1>1, NewKeys DEF IsOf, Proper
  <2> QED
    BY <1>1, <2>1 DEF IsOf, KeepsNumbers
<1> QED
  BY <1>1 DEF CallFits

\* What holds of texts stays when numbers keep their specs.
LEMMA TextsStay ==
    ASSUME NEW cars, NEW new, KeepsNumbers(cars, new), NEW s, NEW call, NEW arch
    PROVE  /\ TextFits(call, s, cars, arch) => TextFits(call, s, new, arch)
           /\ SlotFits(s, cars) => SlotFits(s, new)
<1>1. \A t : TextOf(t, cars) => TextOf(t, new)
  BY DEF TextOf, KeepsNumbers
<1>2. TextFits(call, s, cars, arch) => TextFits(call, s, new, arch)
  BY <1>1 DEF TextFits
<1>3. SlotFits(s, cars) => SlotFits(s, new)
  BY <1>1 DEF SlotFits
<1> QED
  BY <1>2, <1>3

\* A call between two texts, one that is over, one that goes back to its walk.
LEMMA TextGoesOn ==
    ASSUME NEW old, NEW call, NEW s, NEW cars, NEW arch, TextFits(old, s, cars, arch),
           call.text = old.text, call.pc \notin {"idle", "mirrored"} \cup Shelving
    PROVE  TextFits(call, s, cars, arch)
  BY DEF TextFits, Shelving

\* A call that is over holds nothing.
LEMMA IdleFits ==
    /\ Idle \in VerbCalls /\ Idle.text = EmptySlot /\ EmptySlot.spec = Blank /\ Idle.pc = "idle"
    /\ \A p, cars, holds : CallFits(p, Idle, cars, holds)
    /\ \A s, cars, arch : TextFits(Idle, s, cars, arch)
<1>1. EmptySlot \in Slots /\ EmptySlot.spec = Blank
  BY DEF EmptySlot, Slots, Texts
<1>2. Idle \in VerbCalls /\ Idle.text = EmptySlot /\ Idle.pc = "idle" /\ Idle.record = Nil
  BY <1>1 DEF Idle, VerbCalls, Points
<1>3. \A p, cars, holds : CallFits(p, Idle, cars, holds)
  BY <1>2 DEF CallFits, Shelving
<1>4. \A s, cars, arch : TextFits(Idle, s, cars, arch)
  BY <1>1, <1>2 DEF TextFits, Shelving
<1> QED
  BY <1>1, <1>2, <1>3, <1>4

\* A call that is done with a record goes back to its walk, or is over.
LEMMA BackFits ==
    ASSUME NEW call \in VerbCalls, NEW s, NEW cars, NEW arch, TextFits(call, s, cars, arch)
    PROVE  /\ Back(call) \in VerbCalls /\ Back(call).text \in {call.text, EmptySlot}
           /\ \A p, holds : CallFits(p, Back(call), cars, holds)
           /\ TextFits(Back(call), s, cars, arch)
<1>1. CASE call.verb \in Walks
  <2> DEFINE back == [call EXCEPT !.pc = "walking", !.record = Nil, !.fresh = FALSE]
  <2>1. /\ back \in VerbCalls /\ back.text = call.text /\ back.pc = "walking"
        /\ back.record = Nil /\ back.fresh = FALSE
    BY DEF VerbCalls, Points
  <2>2. Back(call) = back
    BY <1>1 DEF Back
  <2> HIDE DEF back
  <2>3. \A p, holds : CallFits(p, back, cars, holds)
    BY <2>1 DEF CallFits, Shelving
  <2>4. TextFits(back, s, cars, arch)
    BY <2>1, TextGoesOn DEF Shelving
  <2> QED
    BY <2>1, <2>2, <2>3, <2>4
<1>2. CASE call.verb \notin Walks
  BY <1>2, IdleFits DEF Back
<1> QED
  BY <1>1, <1>2

\* A step of one actor, and what it has to show.
LEMMA StepKeeps ==
    ASSUME LifecycleInv, NEW p \in Actors, NEW call \in VerbCalls,
           acts' = [acts EXCEPT ![p] = call],
           sidecars' \in Cabinets, RecordsApart(sidecars'), KeepsNumbers(sidecars, sidecars'),
           \A q \in Actors \ {p} :
             /\ acts[q].pc = "minted" => IsNew(acts[q].record, sidecars')
             /\ acts[q].pc = "renamed" => sidecars'[acts[q].record.slug] # Nil
             /\ TextFits(acts[q], slot', sidecars, archive')
             /\ SameText(call, acts[q]),
           CallFits(p, call, sidecars', lock'), TextFits(call, slot', sidecars, archive'),
           lock' \in Actors \cup {Nil}, lock' = lock \/ lock \in {Nil, p},
           rows' \in SUBSET Keys, Hints \subseteq rows',
           slot' \in Slots, SlotFits(slot', sidecars),
           archive' \in Archives, UNCHANGED <<loose, verbs>>
    PROVE  LifecycleInv'
<1>1. acts' \in [Actors -> VerbCalls] /\ acts'[p] = call /\ \A q \in Actors \ {p} : acts'[q] = acts[q]
  BY DEF LifecycleInv, LifecycleTypeOK
<1>2. LifecycleTypeOK'
  BY <1>1 DEF LifecycleInv, LifecycleTypeOK, Cabinets
<1>3. SlotFits(slot', sidecars') /\ \A d \in loose' : d[1] \in Fresh => StraySpec(d, sidecars')
  <2>1. SlotFits(slot', sidecars')
    BY TextsStay
  <2>2. \A d \in loose' : d[1] \in Fresh => StraySpec(d, sidecars)
    BY DEF LifecycleInv
  <2> QED
    BY <2>1, <2>2 DEF KeepsNumbers, StraySpec
<1>4. \A q \in Actors : /\ CallFits(q, acts'[q], sidecars', lock')
                        /\ TextFits(acts'[q], slot', sidecars', archive')
  <2>1. SUFFICES ASSUME NEW q \in Actors
                 PROVE  /\ CallFits(q, acts'[q], sidecars', lock')
                        /\ TextFits(acts'[q], slot', sidecars', archive')
    OBVIOUS
  <2>2. CASE q = p
    BY <1>1, <2>2, TextsStay
  <2>3. CASE q # p
    <3>1. acts'[q] = acts[q] /\ acts[q] \in VerbCalls /\ CallFits(q, acts[q], sidecars, lock)
      BY <1>1, <2>3 DEF LifecycleInv, LifecycleTypeOK
    <3>2. CallFits(q, acts[q], sidecars, lock')
      <4>1. lock = q => lock' = q
        BY <2>3, KeyFacts
      <4> QED
        BY <3>1, <4>1 DEF CallFits
    <3>3. sidecars \in Cabinets
      BY DEF LifecycleInv, LifecycleTypeOK, Cabinets
    <3>4. CallFits(q, acts[q], sidecars', lock')
      BY <2>3, <3>1, <3>2, <3>3, FitsStay
    <3> QED
      BY <2>3, <3>1, <3>4, TextsStay
  <2> QED
    BY <2>2, <2>3
<1>5. \A q, r \in Actors : SameText(acts'[q], acts'[r])
  BY <1>1 DEF LifecycleInv, SameText
<1> QED
  BY <1>2, <1>3, <1>4, <1>5 DEF LifecycleInv

\* A step that leaves the slot and the archive alone.
LEMMA AsideKeeps ==
    ASSUME LifecycleInv, NEW p \in Actors, NEW call \in VerbCalls,
           acts' = [acts EXCEPT ![p] = call],
           sidecars' \in Cabinets, RecordsApart(sidecars'), KeepsNumbers(sidecars, sidecars'),
           \A q \in Actors \ {p} :
             /\ acts[q].pc = "minted" => IsNew(acts[q].record, sidecars')
             /\ acts[q].pc = "renamed" => sidecars'[acts[q].record.slug] # Nil,
           CallFits(p, call, sidecars', lock'), TextFits(call, slot, sidecars, archive),
           call.text \in {acts[p].text, slot, EmptySlot},
           lock' \in Actors \cup {Nil}, lock' = lock \/ lock \in {Nil, p},
           rows' \in SUBSET Keys, Hints \subseteq rows',
           UNCHANGED <<archive, slot, loose, verbs>>
    PROVE  LifecycleInv'
<1>1. /\ slot' \in Slots /\ SlotFits(slot', sidecars)
      /\ archive' \in Archives
      /\ \A q \in Actors : TextFits(acts[q], slot', sidecars, archive')
      /\ TextFits(call, slot', sidecars, archive')
  BY DEF LifecycleInv, LifecycleTypeOK
<1>2. \A q \in Actors \ {p} : SameText(call, acts[q])
  <2>1. SUFFICES ASSUME NEW q \in Actors PROVE SameText(call, acts[q])
    OBVIOUS
  <2>2. CASE call.text = acts[p].text
    <3>1. SameText(acts[p], acts[q])
      BY DEF LifecycleInv
    <3> QED
      BY <2>2, <3>1 DEF SameText
  <2>3. CASE call.text = slot
    <3>1. TextFits(acts[q], slot, sidecars, archive)
      BY DEF LifecycleInv
    <3> QED
      BY <2>3, <3>1 DEF TextFits, SameText
  <2>4. CASE call.text = EmptySlot
    BY <2>4, IdleFits DEF SameText
  <2> QED
    BY <2>2, <2>3, <2>4
<1> QED
  BY <1>1, <1>2, StepKeeps

\* A step that changes nothing but what one call is doing.
LEMMA OnlyCallKeeps ==
    ASSUME LifecycleInv, NEW p \in Actors, NEW call \in VerbCalls,
           acts' = [acts EXCEPT ![p] = call], UNCHANGED files, UNCHANGED verbs,
           lock' \in Actors \cup {Nil}, lock' = lock \/ lock \in {Nil, p},
           CallFits(p, call, sidecars, lock'), TextFits(call, slot, sidecars, archive),
           call.text \in {acts[p].text, slot, EmptySlot}
    PROVE  LifecycleInv'
<1>1. /\ sidecars' = sidecars /\ rows' = rows /\ archive' = archive /\ slot' = slot
      /\ loose' = loose /\ verbs' = verbs
  BY DEF files
<1>2. sidecars \in Cabinets /\ RecordsApart(sidecars) /\ KeepsNumbers(sidecars, sidecars)
  BY DEF LifecycleInv, LifecycleTypeOK, Cabinets, KeepsNumbers
<1>3. \A q \in Actors : /\ acts[q].pc = "minted" => IsNew(acts[q].record, sidecars)
                        /\ acts[q].pc = "renamed" => sidecars[acts[q].record.slug] # Nil
  BY DEF LifecycleInv, CallFits
<1>4. rows \in SUBSET Keys /\ Hints \subseteq rows
  BY DEF LifecycleInv, LifecycleTypeOK
<1> QED
  BY <1>1, <1>2, <1>3, <1>4, AsideKeeps

\* The states of a record.
LEMMA StatesAre ==
    States = {"draft", "approved", "in_progress", "shipped", "abandoned", "archived"}
  BY DEF States, Legal

\* What the invariant says of one actor.
LEMMA OfActor ==
    ASSUME LifecycleInv, NEW p \in Actors
    PROVE  /\ acts[p] \in VerbCalls /\ acts[p].text \in Slots /\ slot \in Slots
           /\ CallFits(p, acts[p], sidecars, lock)
           /\ TextFits(acts[p], slot, sidecars, archive) /\ SlotFits(slot, sidecars)
           /\ sidecars \in Cabinets /\ RecordsApart(sidecars)
           /\ lock \in Actors \cup {Nil} /\ rows \in SUBSET Keys /\ Hints \subseteq rows
           /\ acts[p].record # Nil => acts[p].record \in Records
           /\ acts[p].todo \subseteq Keys
  BY DEF LifecycleInv, LifecycleTypeOK, VerbCalls, Cabinets

\* A record found, or read by its key, is one that may be written.
LEMMA FoundFits ==
    ASSUME LifecycleInv
    PROVE  /\ \A k \in Keys : sidecars[k] # Nil => /\ sidecars[k] \in Records
                                                   /\ IsOf(sidecars[k], sidecars)
           /\ \A k \in Keys : \A r \in Finds(k) : r \in Records /\ IsOf(r, sidecars)
<1>1. sidecars \in Cabinets /\ RecordsApart(sidecars)
  BY DEF LifecycleInv, LifecycleTypeOK, Cabinets
<1>2. \A k \in Keys : sidecars[k] # Nil => sidecars[k] \in Records /\ IsOf(sidecars[k], sidecars)
  BY <1>1, ThereIsOf
<1>3. ASSUME NEW k \in Keys, NEW r \in Finds(k) PROVE r \in Records /\ IsOf(r, sidecars)
  <2>1. PICK j \in Keys : sidecars[j] # Nil /\ r = sidecars[j]
    BY <1>3 DEF Finds, Present
  <2> QED
    BY <1>2, <2>1
<1> QED
  BY <1>2, <1>3

\* A call that takes a record of some spec to write, to render or to ship.
LEMMA TakingFits ==
    ASSUME NEW call \in VerbCalls, NEW r \in Records, NEW cars, IsOf(r, cars),
           NEW new \in VerbCalls, new.record = r,
           \/ new.pc = "writing" /\ new.next \in Nexts
           \/ new.pc \in {"rendering", "calling", "mirroring"}
    PROVE  \A p, holds : CallFits(p, new, cars, holds)
  BY RecordFacts DEF CallFits, Shelving

\* A call that ships a record holds it as shipped.
LEMMA ShippingFits ==
    ASSUME NEW call \in VerbCalls, NEW r \in Records, NEW cars, IsOf(r, cars),
           NEW pr \in BOOLEAN, NEW pc \in Ships(r, pr)
    PROVE  /\ Shipping(call, r, pr, pc) \in VerbCalls
           /\ Shipping(call, r, pr, pc).text = call.text
           /\ Shipping(call, r, pr, pc).pc \in {"writing", "rendering"}
           /\ \A p, holds : CallFits(p, Shipping(call, r, pr, pc), cars, holds)
<1>1. pc \in {"writing", "rendering"}
  BY DEF Ships
<1>2. PICK q \in Records : /\ q = [r EXCEPT !.state = "shipped", !.branch = TRUE, !.pr = pr]
                           /\ IsOf(q, cars)
  BY Reshipped
<1> DEFINE new == [call EXCEPT !.pc = pc, !.next = "rendering", !.fresh = r.state # "shipped",
                                !.record = q]
<1>3. /\ new \in VerbCalls /\ new.text = call.text /\ new.pc = pc /\ new.record = q
      /\ new.next = "rendering"
  BY <1>1 DEF VerbCalls, Points, Nexts
<1>4. Shipping(call, r, pr, pc) = new
  BY <1>2 DEF Shipping
<1> HIDE DEF new
<1>5. \A p, holds : CallFits(p, new, cars, holds)
  BY <1>1, <1>2, <1>3, TakingFits DEF Nexts
<1> QED
  BY <1>1, <1>3, <1>4, <1>5

-----------------------------------------------------------------------------
\* A verb begins.
LEMMA BeginKeeps ==
    ASSUME LifecycleInv, NEW p \in Actors, NEW verb, NEW call \in VerbCalls,
           Begins(p, verb, call), CallFits(p, call, sidecars, lock), call.text = EmptySlot,
           call.pc \notin {"idle", "mirrored"} \cup Shelving
    PROVE  LifecycleInv'
<1>1. /\ verb \in UNION VerbSets
      /\ sidecars' = sidecars /\ rows' = rows /\ archive' = archive /\ slot' = slot
      /\ loose' = loose /\ verbs' = verbs /\ lock' = lock
  BY DEF LifecycleInv, LifecycleTypeOK, Begins, files
<1>2. PICK alone \in BOOLEAN : acts' = [q \in Actors |->
          IF q = p THEN [call EXCEPT !.verb = verb, !.alone = alone]
          ELSE [acts[q] EXCEPT !.alone = FALSE]]
  <2>1. (\A r \in Actors \ {p} : ~Busy(r)) \in BOOLEAN
    OBVIOUS
  <2> QED
    BY <2>1 DEF Begins
<1> DEFINE new == [call EXCEPT !.verb = verb, !.alone = alone]
<1>3. /\ new \in VerbCalls /\ new.pc = call.pc /\ new.record = call.record
      /\ new.text = call.text /\ new.slug = call.slug /\ new.known = call.known
      /\ new.fresh = call.fresh /\ new.next = call.next
  BY <1>1 DEF VerbCalls
<1>4. CallFits(p, new, sidecars, lock) /\ TextFits(new, slot, sidecars, archive)
  <2>1. CallFits(p, new, sidecars, lock)
    BY <1>3 DEF CallFits
  <2>2. TextFits(new, slot, sidecars, archive)
    BY <1>3, IdleFits DEF TextFits, Shelving
  <2> QED
    BY <2>1, <2>2
<1>5. ASSUME NEW q \in Actors \ {p}
      PROVE  /\ acts'[q] \in VerbCalls /\ acts'[q].text = acts[q].text
             /\ CallFits(q, acts'[q], sidecars, lock)
             /\ TextFits(acts'[q], slot, sidecars, archive)
  <2>1. acts[q] \in VerbCalls /\ acts'[q] = [acts[q] EXCEPT !.alone = FALSE]
    BY <1>2, OfActor
  <2> DEFINE old == acts[q]
             lonely == [old EXCEPT !.alone = FALSE]
  <2>2. /\ lonely \in VerbCalls /\ lonely.pc = old.pc /\ lonely.record = old.record
        /\ lonely.text = old.text /\ lonely.slug = old.slug /\ lonely.known = old.known
        /\ lonely.fresh = old.fresh /\ lonely.next = old.next
    BY <2>1 DEF VerbCalls
  <2>3. CallFits(q, old, sidecars, lock) /\ TextFits(old, slot, sidecars, archive)
    BY OfActor
  <2>4. acts'[q] = lonely
    BY <2>1
  <2> HIDE DEF lonely, old
  <2>5. CallFits(q, lonely, sidecars, lock)
    BY <2>2, <2>3 DEF CallFits
  <2>6. TextFits(lonely, slot, sidecars, archive)
    BY <2>2, <2>3 DEF TextFits
  <2> QED
    BY <2>2, <2>4, <2>5, <2>6 DEF old
<1>6. acts'[p] = new /\ acts' \in [Actors -> VerbCalls]
  BY <1>2, <1>3, <1>5
<1> HIDE DEF new
<1>7. \A q, r \in Actors : SameText(acts'[q], acts'[r])
  <2>1. acts'[p].text.spec = Blank
    BY <1>3, <1>6, IdleFits
  <2> QED
    BY <1>5, <2>1 DEF LifecycleInv, SameText
<1>8. \A q \in Actors : /\ CallFits(q, acts'[q], sidecars, lock)
                        /\ TextFits(acts'[q], slot, sidecars, archive)
  BY <1>4, <1>5, <1>6
<1> QED
  BY <1>1, <1>6, <1>7, <1>8 DEF LifecycleInv, LifecycleTypeOK

\* Every verb that may begin.
LEMMA BeginsKeep ==
    ASSUME LifecycleInv, NEW p \in Actors,
           \/ \E s \in Slugs : StartNew(p, s)
           \/ \E k \in Keys : (\E verb \in DOMAIN Target : Move(p, verb, k)) \/ MarkShipped(p, k)
           \/ \E verb \in verbs : Sweep(p, verb) \/ Walk(p, verb)
           \/ Migrate(p)
    PROVE  LifecycleInv'
<1> USE IdleFits
<1>0. Present \in SUBSET Keys /\ rows \in SUBSET Keys
  BY DEF LifecycleInv, LifecycleTypeOK, Present
<1>1. ASSUME NEW s \in Slugs, StartNew(p, s) PROVE LifecycleInv'
  <2> DEFINE new == [Idle EXCEPT !.pc = "minting", !.slug = s]
  <2>1. /\ new \in VerbCalls /\ new.pc = "minting" /\ new.slug = s /\ new.record = Nil
        /\ new.text = EmptySlot
    BY DEF Idle, VerbCalls, Points
  <2>2. Begins(p, "start_new", new)
    BY <1>1 DEF StartNew
  <2> HIDE DEF new
  <2>3. CallFits(p, new, sidecars, lock)
    BY <2>1 DEF CallFits, Shelving
  <2> QED
    BY <2>1, <2>2, <2>3, BeginKeeps DEF Shelving
<1>2. ASSUME NEW k \in Keys, NEW verb \in DOMAIN Target, Move(p, verb, k) PROVE LifecycleInv'
  <2>1. PICK r \in Finds(k) :
            Begins(p, verb, [Idle EXCEPT !.pc = "writing",
                !.record = [r EXCEPT !.state = Target[verb]],
                !.next = IF verb = "archive" THEN "idle" ELSE "mirroring"])
    BY <1>2 DEF Move
  <2>2. r \in Records /\ IsOf(r, sidecars) /\ Target[verb] \in States /\ Target[verb] # "draft"
    BY FoundFits, StatesAre DEF Target
  <2>3. PICK q \in Records : q = [r EXCEPT !.state = Target[verb]] /\ IsOf(q, sidecars)
    BY <2>2, Restated
  <2>4. PICK next \in {"idle", "mirroring"} :
            next = IF verb = "archive" THEN "idle" ELSE "mirroring"
    OBVIOUS
  <2> DEFINE new == [Idle EXCEPT !.pc = "writing", !.record = q, !.next = next]
  <2>5. /\ new \in VerbCalls /\ new.pc = "writing" /\ new.record = q /\ new.next \in Nexts
        /\ new.text = EmptySlot
    BY DEF Idle, VerbCalls, Points, Nexts
  <2>6. Begins(p, verb, new)
    BY <2>1, <2>3, <2>4
  <2> HIDE DEF new
  <2>7. CallFits(p, new, sidecars, lock)
    BY <2>3, <2>5, TakingFits
  <2> QED
    BY <2>5, <2>6, <2>7, BeginKeeps DEF Shelving
<1>3. ASSUME NEW k \in Keys, MarkShipped(p, k) PROVE LifecycleInv'
  <2>0. PICK r \in Finds(k) :
            \E pc \in Ships(r, TRUE) : Begins(p, "mark_shipped", Shipping(Idle, r, TRUE, pc))
    BY <1>3 DEF MarkShipped
  <2>1. PICK pc \in Ships(r, TRUE) : Begins(p, "mark_shipped", Shipping(Idle, r, TRUE, pc))
    BY <2>0
  <2>2. r \in Records /\ IsOf(r, sidecars)
    BY FoundFits
  <2>3. PICK new \in VerbCalls : /\ new = Shipping(Idle, r, TRUE, pc) /\ new.text = EmptySlot
                                 /\ new.pc \in {"writing", "rendering"}
                                 /\ CallFits(p, new, sidecars, lock)
    BY <2>2, ShippingFits
  <2> QED
    BY <2>1, <2>3, BeginKeeps DEF Shelving
<1>4. ASSUME NEW verb \in verbs, Sweep(p, verb) PROVE LifecycleInv'
  <2> DEFINE new == [Idle EXCEPT !.pc = "sweeping", !.todo = Present, !.known = rows]
  <2>1. /\ new \in VerbCalls /\ new.pc = "sweeping" /\ new.record = Nil /\ new.text = EmptySlot
    BY <1>0 DEF Idle, VerbCalls, Points
  <2>2. Begins(p, verb, new)
    BY <1>4 DEF Sweep
  <2> HIDE DEF new
  <2>3. CallFits(p, new, sidecars, lock)
    BY <2>1 DEF CallFits, Shelving
  <2> QED
    BY <2>1, <2>2, <2>3, BeginKeeps DEF Shelving
<1>5. ASSUME NEW verb \in verbs, Walk(p, verb) PROVE LifecycleInv'
  <2>1. PICK pc \in {"listing", "rendering"} : Begins(p, verb, [Idle EXCEPT !.pc = pc])
    BY <1>5 DEF Walk
  <2> DEFINE new == [Idle EXCEPT !.pc = pc]
  <2>2. /\ new \in VerbCalls /\ new.pc = pc /\ new.record = Nil /\ new.text = EmptySlot
        /\ new.fresh = FALSE
    BY DEF Idle, VerbCalls, Points
  <2>3. Begins(p, verb, new)
    BY <2>1
  <2> HIDE DEF new
  <2>4. CallFits(p, new, sidecars, lock)
    BY <2>2 DEF CallFits, Shelving
  <2> QED
    BY <2>2, <2>3, <2>4, BeginKeeps DEF Shelving
<1>6. ASSUME Migrate(p) PROVE LifecycleInv'
  <2> DEFINE new == [Idle EXCEPT !.pc = "locking"]
  <2>1. /\ new \in VerbCalls /\ new.pc = "locking" /\ new.record = Nil /\ new.text = EmptySlot
    BY DEF Idle, VerbCalls, Points
  <2>2. Begins(p, "migrate_ids", new)
    BY <1>6 DEF Migrate
  <2> HIDE DEF new
  <2>3. CallFits(p, new, sidecars, lock)
    BY <2>1 DEF CallFits, Shelving
  <2> QED
    BY <2>1, <2>2, <2>3, BeginKeeps DEF Shelving
<1> QED
  BY <1>1, <1>2, <1>3, <1>4, <1>5, <1>6

-----------------------------------------------------------------------------
\* A call goes on, with nothing written.
LEMMA GoesKeeps ==
    ASSUME LifecycleInv, NEW p \in Actors, NEW call \in VerbCalls, Goes(p, call),
           UNCHANGED <<files, lock, verbs>>,
           CallFits(p, call, sidecars, lock), TextFits(call, slot, sidecars, archive),
           call.text \in {acts[p].text, slot, EmptySlot}
    PROVE  LifecycleInv'
  BY OnlyCallKeeps, OfActor DEF Goes

\* A walk, or a sweep, is done with a record.
LEMMA SkipKeeps ==
    ASSUME LifecycleInv, NEW p \in Actors, NEW k, Skips(p, k), UNCHANGED <<files, lock, verbs>>,
           acts[p].pc \in {"sweeping", "walking", "migrating"}
    PROVE  LifecycleInv'
<1> DEFINE old == acts[p]
           new == [old EXCEPT !.todo = @ \ {k}]
<1>1. old \in VerbCalls /\ CallFits(p, old, sidecars, lock) /\ TextFits(old, slot, sidecars, archive)
  BY OfActor
<1>2. /\ new \in VerbCalls /\ new.pc = old.pc /\ new.record = old.record /\ new.text = old.text
      /\ new.slug = old.slug /\ new.known = old.known /\ new.fresh = old.fresh
      /\ new.next = old.next
  BY <1>1 DEF VerbCalls
<1>3. Goes(p, new) /\ old.pc \in {"sweeping", "walking", "migrating"}
  BY DEF Skips
<1>4. old.text = acts[p].text
  OBVIOUS
<1> HIDE DEF old, new
<1>5. CallFits(p, new, sidecars, lock)
  BY <1>1, <1>2 DEF CallFits
<1>6. TextFits(new, slot, sidecars, archive)
  BY <1>1, <1>2, <1>3, TextGoesOn DEF Shelving
<1> QED
  BY <1>2, <1>3, <1>4, <1>5, <1>6, GoesKeeps

\* A call takes up a record that may be written.
LEMMA TakeKeeps ==
    ASSUME LifecycleInv, NEW p \in Actors, NEW new \in VerbCalls, Goes(p, new),
           UNCHANGED <<files, lock, verbs>>, NEW r \in Records, IsOf(r, sidecars),
           new.record = r, new.text = acts[p].text,
           \/ new.pc = "writing" /\ new.next \in Nexts
           \/ new.pc \in {"rendering", "calling"}
    PROVE  LifecycleInv'
<1>1. acts[p] \in VerbCalls /\ TextFits(acts[p], slot, sidecars, archive)
  BY OfActor
<1>2. CallFits(p, new, sidecars, lock)
  BY <1>1, TakingFits
<1>3. TextFits(new, slot, sidecars, archive)
  BY <1>1, TextGoesOn DEF Shelving
<1> QED
  BY <1>2, <1>3, GoesKeeps

\* A walk gives up a record of a spec.
LEMMA AbandonKeeps ==
    ASSUME LifecycleInv, NEW p \in Actors, NEW k \in Keys, sidecars[k] # Nil,
           NEW next \in {"sweeping", "walking"}, Abandons(p, k, next),
           UNCHANGED <<files, lock, verbs>>
    PROVE  LifecycleInv'
<1>1. sidecars[k] \in Records /\ IsOf(sidecars[k], sidecars) /\ acts[p] \in VerbCalls
  BY FoundFits, OfActor
<1>2. PICK q \in Records : /\ q = [sidecars[k] EXCEPT !.state = "abandoned"]
                           /\ IsOf(q, sidecars)
  BY <1>1, StatesAre, Restated
<1> DEFINE new == [acts[p] EXCEPT !.todo = @ \ {k}, !.pc = "writing", !.next = next,
                                   !.record = q]
<1>3. /\ new \in VerbCalls /\ new.pc = "writing" /\ new.next \in Nexts /\ new.record = q
      /\ new.text = acts[p].text
  BY <1>1 DEF VerbCalls, Points, Nexts
<1>4. Goes(p, new)
  BY <1>2 DEF Abandons
<1> HIDE DEF new
<1> QED
  BY <1>2, <1>3, <1>4, TakeKeeps

\* A walk takes up a record to render or to ship.
LEMMA ShipKeeps ==
    ASSUME LifecycleInv, NEW p \in Actors, NEW k \in Keys, NEW pc \in {"rendering", "calling"},
           sidecars[k] # Nil, UNCHANGED <<files, lock, verbs>>,
           Goes(p, [acts[p] EXCEPT !.todo = @ \ {k}, !.pc = pc, !.record = sidecars[k]])
    PROVE  LifecycleInv'
<1>1. sidecars[k] \in Records /\ IsOf(sidecars[k], sidecars) /\ acts[p] \in VerbCalls
  BY FoundFits, OfActor
<1>2. PICK r \in Records : r = sidecars[k]
  BY <1>1
<1> DEFINE new == [acts[p] EXCEPT !.todo = @ \ {k}, !.pc = pc, !.record = r]
<1>3. new \in VerbCalls /\ new.pc = pc /\ new.record = r /\ new.text = acts[p].text
  BY <1>1 DEF VerbCalls, Points
<1>4. Goes(p, new)
  BY <1>2
<1> HIDE DEF new
<1> QED
  BY <1>1, <1>2, <1>3, <1>4, TakeKeeps

\* A call is over.
LEMMA EndKeeps ==
    ASSUME LifecycleInv, NEW p \in Actors, Goes(p, Idle), UNCHANGED <<files, verbs>>,
           lock' = lock \/ (lock = p /\ lock' = Nil)
    PROVE  LifecycleInv'
  BY IdleFits, OfActor, OnlyCallKeeps DEF Goes

\* The walks.
LEMMA WalksKeep ==
    ASSUME LifecycleInv, NEW p \in Actors,
           \/ SweepNext(p) \/ SweepEnd(p) \/ ListRows(p) \/ WalkEnd(p)
           \/ ConsolidateNext(p) \/ ReconcileMergedNext(p) \/ ReconcileAllNext(p)
    PROVE  LifecycleInv'
<1>1. acts[p] \in VerbCalls /\ acts[p].todo \subseteq Keys
  BY OfActor
<1>2. CASE SweepNext(p)
  <2>1. UNCHANGED <<files, lock, verbs>> /\ acts[p].pc = "sweeping"
    BY <1>2 DEF SweepNext
  <2>2. PICK k \in acts[p].todo : \/ sidecars[k] # Nil /\ Abandons(p, k, "sweeping")
                                  \/ Skips(p, k)
    BY <1>2 DEF SweepNext
  <2> QED
    BY <1>1, <2>1, <2>2, AbandonKeeps, SkipKeeps
<1>3. CASE SweepEnd(p)
  <2>1. UNCHANGED <<files, lock, verbs>> /\ acts[p].pc = "sweeping"
    BY <1>3 DEF SweepEnd
  <2>2. CASE Goes(p, Idle)
    BY <2>1, <2>2, EndKeeps
  <2>3. CASE Goes(p, [acts[p] EXCEPT !.pc = "listing"])
    <3> DEFINE new == [acts[p] EXCEPT !.pc = "listing"]
    <3>1. /\ new \in VerbCalls /\ new.pc = "listing" /\ new.record = acts[p].record
          /\ new.text = acts[p].text
      BY <1>1 DEF VerbCalls, Points
    <3> HIDE DEF new
    <3>2. CallFits(p, new, sidecars, lock)
      BY <2>1, <3>1, OfActor DEF CallFits, Shelving
    <3>3. TextFits(new, slot, sidecars, archive)
      BY <3>1, OfActor, TextGoesOn DEF Shelving
    <3> QED
      BY <2>1, <2>3, <3>1, <3>2, <3>3, GoesKeeps DEF new
  <2> QED
    BY <1>3, <2>2, <2>3 DEF SweepEnd
<1>4. CASE ListRows(p)
  <2>1. UNCHANGED <<files, lock, verbs>> /\ acts[p].pc = "listing"
    BY <1>4 DEF ListRows
  <2>2. rows \in SUBSET Keys /\ Present \in SUBSET Keys
    BY OfActor DEF Present
  <2> DEFINE new == [acts[p] EXCEPT !.pc = "walking", !.known = rows, !.todo = Present]
  <2>3. /\ new \in VerbCalls /\ new.pc = "walking" /\ new.record = acts[p].record
        /\ new.text = acts[p].text
    BY <1>1, <2>2 DEF VerbCalls, Points
  <2>4. Goes(p, new)
    BY <1>4 DEF ListRows
  <2> HIDE DEF new
  <2>5. CallFits(p, new, sidecars, lock)
    BY <2>1, <2>3, OfActor DEF CallFits, Shelving
  <2>6. TextFits(new, slot, sidecars, archive)
    BY <2>3, OfActor, TextGoesOn DEF Shelving
  <2> QED
    BY <2>1, <2>3, <2>4, <2>5, <2>6, GoesKeeps
<1>5. CASE WalkEnd(p)
  BY <1>5, EndKeeps DEF WalkEnd
<1>6. CASE ConsolidateNext(p)
  <2>1. UNCHANGED <<files, lock, verbs>> /\ acts[p].pc = "walking"
    BY <1>6 DEF ConsolidateNext
  <2>2. PICK k \in acts[p].todo :
          \/ /\ sidecars[k] # Nil
             /\ Goes(p, [acts[p] EXCEPT !.todo = @ \ {k}, !.pc = "rendering",
                                        !.record = sidecars[k]])
          \/ Skips(p, k)
    BY <1>6 DEF ConsolidateNext
  <2> QED
    BY <1>1, <2>1, <2>2, ShipKeeps, SkipKeeps
<1>7. CASE ReconcileMergedNext(p)
  <2>1. UNCHANGED <<files, lock, verbs>> /\ acts[p].pc = "walking"
    BY <1>7 DEF ReconcileMergedNext
  <2>2. PICK k \in acts[p].todo :
          \/ /\ sidecars[k] # Nil
             /\ Goes(p, [acts[p] EXCEPT !.todo = @ \ {k}, !.pc = "calling",
                                        !.record = sidecars[k]])
          \/ Skips(p, k)
    BY <1>7 DEF ReconcileMergedNext
  <2> QED
    BY <1>1, <2>1, <2>2, ShipKeeps, SkipKeeps
<1>8. CASE ReconcileAllNext(p)
  <2>1. UNCHANGED <<files, lock, verbs>> /\ acts[p].pc = "walking"
    BY <1>8 DEF ReconcileAllNext
  <2>2. PICK k \in acts[p].todo :
          \/ /\ sidecars[k] # Nil
             /\ Goes(p, [acts[p] EXCEPT !.todo = @ \ {k}, !.pc = "calling",
                                        !.record = sidecars[k]])
          \/ sidecars[k] # Nil /\ Abandons(p, k, "walking")
          \/ Skips(p, k)
    BY <1>8 DEF ReconcileAllNext
  <2> QED
    BY <1>1, <2>1, <2>2, ShipKeeps, AbandonKeeps, SkipKeeps
<1> QED
  BY <1>2, <1>3, <1>4, <1>5, <1>6, <1>7, <1>8

\* A spec of old is always there.
LEMMA OldSpecsThere ==
    ASSUME NEW cars \in Cabinets, RecordsApart(cars), NEW s \in Legacy \ Shared
    PROVE  \E k \in Keys : cars[k] # Nil /\ cars[k].slug = s
<1>1. PICK k \in {s, Hint[s]} : cars[k] # Nil /\ k \in Keys /\ k \notin Fresh
  BY KeyFacts DEF RecordsApart
<1>2. cars[k] \in Records /\ k \in KeysOf(cars[k])
  BY <1>1 DEF Cabinets, RecordsApart
<1>3. PICK t : t = cars[k].slug /\ t \in Legacy /\ k \in {t, Hint[t]}
  BY <1>1, <1>2, NewKeys
<1>4. s = t
  BY <1>1, <1>3, KeyFacts
<1> QED
  BY <1>1, <1>3, <1>4

\* The next number, and a slug that no record has, are free.
LEMMA NextIsNew ==
    ASSUME LifecycleInv, NEW n \in Numbers, IsNext(n), NEW s \in Slugs,
           \A k \in Present : sidecars[k].slug # s
    PROVE  Drafted(n, s) \in Records /\ IsNew(Drafted(n, s), sidecars)
<1>1. /\ sidecars \in Cabinets /\ RecordsApart(sidecars) /\ Hints \subseteq rows
      /\ n \in Keys /\ n \in Nat
  BY KeyFacts, LifecycleAssumption DEF LifecycleInv, LifecycleTypeOK, Cabinets, Numbers
<1>2. n \notin Recorded
  BY <1>1 DEF IsNext
<1>3. n \in Fresh
  BY <1>1, <1>2 DEF Recorded, Fresh
<1>4. sidecars[n] = Nil
  <2>1. SUFFICES ASSUME sidecars[n] # Nil PROVE FALSE
    OBVIOUS
  <2>2. n \in KeysOf(sidecars[n]) /\ sidecars[n] \in Records /\ n \in Present
    BY <1>1, <2>1 DEF RecordsApart, Cabinets, Present
  <2>3. n = sidecars[n].id
    BY <1>3, <2>2, NewKeys
  <2> QED
    BY <1>2, <2>2, <2>3 DEF Recorded
<1>5. s \notin Legacy \ Shared
  BY <1>1, OldSpecsThere DEF Present
<1>6. /\ Drafted(n, s) \in Records /\ Drafted(n, s).id = n /\ Drafted(n, s).slug = s
  BY <1>1, StatesAre DEF Drafted, Records
<1> QED
  BY <1>3, <1>4, <1>5, <1>6 DEF IsNew, Present

\* The verbs that work under the lock, as long as they write nothing.
LEMMA MintKeeps ==
    ASSUME LifecycleInv, NEW p \in Actors, Mint(p)
    PROVE  LifecycleInv'
<1>1. /\ acts[p] \in VerbCalls /\ acts[p].pc = "minting" /\ acts[p].slug \in Slugs
      /\ lock = Nil /\ UNCHANGED <<files, verbs>>
  BY OfActor DEF Mint, CallFits
<1>2. CASE Goes(p, Idle) /\ lock' = lock
  BY <1>1, <1>2, EndKeeps
<1>3. CASE /\ \A k \in Present : sidecars[k].slug # acts[p].slug
           /\ \E n \in Numbers : IsNext(n) /\ Takes(p, n)
           /\ lock' = p
  <2>1. PICK n \in Numbers : IsNext(n) /\ Takes(p, n)
    BY <1>3
  <2>2. PICK r \in Records : r = Drafted(n, acts[p].slug) /\ IsNew(r, sidecars)
    BY <1>1, <1>3, <2>1, NextIsNew
  <2> DEFINE new == [acts[p] EXCEPT !.pc = "minted", !.record = r]
  <2>3. new \in VerbCalls /\ new.pc = "minted" /\ new.record = r /\ new.text = acts[p].text
    BY <1>1 DEF VerbCalls, Points
  <2>4. acts' = [acts EXCEPT ![p] = new]
    BY <2>1, <2>2 DEF Takes, Goes
  <2> HIDE DEF new
  <2>5. CallFits(p, new, sidecars, lock')
    BY <1>3, <2>2, <2>3, RecordFacts DEF CallFits, Shelving
  <2>6. TextFits(new, slot, sidecars, archive)
    BY <2>3, OfActor, TextGoesOn DEF Shelving
  <2> QED
    BY <1>1, <1>3, <2>3, <2>4, <2>5, <2>6, OnlyCallKeeps
<1> QED
  BY <1>2, <1>3 DEF Mint

\* A migration locks, takes up a record without a number, ends.
LEMMA MigrationKeeps ==
    ASSUME LifecycleInv, NEW p \in Actors, MigrateLock(p) \/ MigrateNext(p) \/ MigrateEnd(p)
    PROVE  LifecycleInv'
<1>1. /\ acts[p] \in VerbCalls /\ acts[p].todo \subseteq Keys /\ Present \in SUBSET Keys
      /\ CallFits(p, acts[p], sidecars, lock)
  BY OfActor DEF Present
<1>2. CASE MigrateLock(p)
  <2> DEFINE new == [acts[p] EXCEPT !.pc = "migrating", !.todo = Present]
  <2>1. /\ new \in VerbCalls /\ new.pc = "migrating" /\ new.record = acts[p].record
        /\ new.text = acts[p].text
    BY <1>1 DEF VerbCalls, Points
  <2>2. acts' = [acts EXCEPT ![p] = new]
    BY <1>2 DEF MigrateLock, Goes
  <2> HIDE DEF new
  <2>3. /\ acts[p].pc = "locking" /\ lock = Nil /\ lock' = p /\ UNCHANGED <<files, verbs>>
    BY <1>2 DEF MigrateLock
  <2>4. CallFits(p, new, sidecars, lock')
    BY <1>1, <2>1, <2>3 DEF CallFits, Shelving
  <2>5. TextFits(new, slot, sidecars, archive)
    BY <2>1, OfActor, TextGoesOn DEF Shelving
  <2> QED
    BY <2>1, <2>2, <2>3, <2>4, <2>5, OnlyCallKeeps
<1>3. CASE MigrateNext(p)
  <2>1. UNCHANGED <<files, lock, verbs>> /\ acts[p].pc = "migrating"
    BY <1>3 DEF MigrateNext
  <2>2. PICK k \in acts[p].todo :
          \/ /\ sidecars[k] # Nil /\ sidecars[k].id \in Legacy
             /\ Goes(p, [acts[p] EXCEPT !.todo = @ \ {k}, !.pc = "renaming",
                           !.record = [sidecars[k] EXCEPT !.id = Hint[sidecars[k].slug]]])
          \/ Skips(p, k)
    BY <1>3 DEF MigrateNext
  <2>3. CASE Skips(p, k)
    BY <2>1, <2>3, SkipKeeps
  <2>4. CASE /\ sidecars[k] # Nil /\ sidecars[k].id \in Legacy
             /\ Goes(p, [acts[p] EXCEPT !.todo = @ \ {k}, !.pc = "renaming",
                           !.record = [sidecars[k] EXCEPT !.id = Hint[sidecars[k].slug]]])
    <3>1. k \in Keys /\ sidecars[k] \in Records /\ IsOf(sidecars[k], sidecars)
      BY <1>1, <2>4, FoundFits
    <3>2. PICK r \in Records : r = sidecars[k]
      BY <3>1
    <3>3. r.slug \in Legacy /\ r.state # "draft"
      <4>1. r.id \in KeysOf(r) /\ r.id \notin Fresh /\ r.state # "draft"
        BY <2>4, <3>1, <3>2, KeyFacts DEF IsOf, Proper
      <4> QED
        BY <4>1, NewKeys
    <3>4. PICK q \in Records : /\ q = [r EXCEPT !.id = Hint[r.slug]] /\ q.slug = r.slug
                               /\ q.id = Hint[r.slug] /\ q.state = r.state
      <4>1. PICK n \in Keys : n = Hint[r.slug]
        BY <3>3, KeyFacts
      <4> DEFINE numbered == [r EXCEPT !.id = n]
      <4>2. /\ numbered \in Records /\ numbered.slug = r.slug /\ numbered.id = n
            /\ numbered.state = r.state
        BY DEF Records
      <4> QED
        BY <4>1, <4>2
    <3>5. IsOf(q, sidecars)
      BY <3>3, <3>4, KeyFacts DEF IsOf, KeysOf, Old, Proper
    <3> DEFINE new == [acts[p] EXCEPT !.todo = @ \ {k}, !.pc = "renaming", !.record = q]
    <3>6. new \in VerbCalls /\ new.pc = "renaming" /\ new.record = q /\ new.text = acts[p].text
      BY <1>1 DEF VerbCalls, Points
    <3>7. Goes(p, new)
      BY <2>4, <3>2, <3>4
    <3> HIDE DEF new
    <3>8. CallFits(p, new, sidecars, lock)
      <4>1. lock = p /\ q # Nil /\ q.slug \in Legacy /\ q.id = Hint[q.slug]
        BY <1>1, <2>1, <3>3, <3>4, RecordFacts DEF CallFits
      <4> QED
        BY <3>5, <3>6, <4>1 DEF CallFits, Shelving
    <3>9. TextFits(new, slot, sidecars, archive)
      BY <3>6, OfActor, TextGoesOn DEF Shelving
    <3> QED
      BY <2>1, <3>6, <3>7, <3>8, <3>9, GoesKeeps
  <2> QED
    BY <2>2, <2>3, <2>4
<1>4. CASE MigrateEnd(p)
  <2>1. lock = p
    BY <1>1, <1>4 DEF MigrateEnd, CallFits
  <2> QED
    BY <1>4, <2>1, EndKeeps DEF MigrateEnd
<1> QED
  BY <1>2, <1>3, <1>4

\* A call that reads: the text of the slot, the table, the owner of the text.
LEMMA ReadsKeep ==
    ASSUME LifecycleInv, NEW p \in Actors,
           MirrorRead(p) \/ RenderRead(p) \/ Peek(p) \/ CheckOwner(p)
    PROVE  LifecycleInv'
<1> DEFINE old == acts[p]
<1>1. /\ old \in VerbCalls /\ old.text \in Slots /\ slot \in Slots
      /\ CallFits(p, old, sidecars, lock) /\ TextFits(old, slot, sidecars, archive)
      /\ SlotFits(slot, sidecars) /\ rows \in SUBSET Keys /\ Hints \subseteq rows
      /\ old.record # Nil => old.record \in Records
  BY OfActor
<1>2. CASE MirrorRead(p)
  <2>1. UNCHANGED <<files, lock, verbs>> /\ old.pc = "mirroring" /\ old.record # Nil
    BY <1>1, <1>2 DEF MirrorRead, CallFits
  <2>2. CASE slot.spec # Blank /\ Goes(p, [old EXCEPT !.pc = "mirrored", !.text = slot])
    <3> DEFINE new == [old EXCEPT !.pc = "mirrored", !.text = slot]
    <3>1. /\ new \in VerbCalls /\ new.pc = "mirrored" /\ new.record = old.record
          /\ new.text = slot
      BY <1>1 DEF VerbCalls, Points
    <3>2. Goes(p, new)
      BY <2>2
    <3> HIDE DEF new
    <3>3. CallFits(p, new, sidecars, lock)
      BY <1>1, <2>1, <3>1 DEF CallFits, Shelving
    <3>4. TextFits(new, slot, sidecars, archive)
      BY <1>1, <2>2, <3>1 DEF TextFits, SlotFits, Shelving
    <3> QED
      BY <2>1, <3>1, <3>2, <3>3, <3>4, GoesKeeps
  <2>3. CASE Goes(p, Idle)
    BY <2>1, <2>3, EndKeeps
  <2> QED
    BY <1>2, <2>2, <2>3 DEF MirrorRead
<1>3. CASE RenderRead(p)
  <2>1. UNCHANGED <<files, lock, verbs>> /\ old.pc = "rendering"
    BY <1>3 DEF RenderRead
  <2>2. PICK known \in SUBSET Keys :
            /\ known = rows \cup (IF old.record = Nil THEN {} ELSE {old.record.id})
            /\ Hints \subseteq known
    <3>1. old.record # Nil => old.record.id \in Keys
      BY <1>1, RecordFacts
    <3> QED
      BY <1>1, <3>1
  <2> DEFINE new == [old EXCEPT !.pc = "rendered", !.known = known]
  <2>3. /\ new \in VerbCalls /\ new.pc = "rendered" /\ new.record = old.record
        /\ new.text = old.text /\ new.known = known /\ new.fresh = old.fresh
    BY <1>1 DEF VerbCalls, Points
  <2>4. Goes(p, new) /\ old.text = acts[p].text
    BY <1>3, <2>2 DEF RenderRead
  <2> HIDE DEF new, old
  <2>5. CallFits(p, new, sidecars, lock)
    BY <1>1, <2>1, <2>2, <2>3 DEF CallFits, Shelving
  <2>6. TextFits(new, slot, sidecars, archive)
    BY <1>1, <2>3, TextGoesOn DEF Shelving
  <2> QED
    BY <2>1, <2>3, <2>4, <2>5, <2>6, GoesKeeps
<1>4. CASE Peek(p)
  <2>1. UNCHANGED <<files, lock, verbs>> /\ old.pc = "peeking" /\ old.record # Nil
    BY <1>1, <1>4 DEF Peek, CallFits
  <2>2. CASE slot.spec # Blank /\ Goes(p, [old EXCEPT !.pc = "checking", !.text = slot])
    <3> DEFINE new == [old EXCEPT !.pc = "checking", !.text = slot]
    <3>1. /\ new \in VerbCalls /\ new.pc = "checking" /\ new.record = old.record
          /\ new.text = slot
      BY <1>1 DEF VerbCalls, Points
    <3>2. Goes(p, new)
      BY <2>2
    <3> HIDE DEF new
    <3>3. CallFits(p, new, sidecars, lock)
      BY <1>1, <2>1, <3>1 DEF CallFits, Shelving
    <3>4. TextFits(new, slot, sidecars, archive)
      BY <1>1, <2>2, <3>1 DEF TextFits, SlotFits, Shelving
    <3> QED
      BY <2>1, <3>1, <3>2, <3>3, <3>4, GoesKeeps
  <2>3. CASE Goes(p, Back(old))
    BY <1>1, <2>1, <2>3, BackFits, GoesKeeps
  <2> QED
    BY <1>4, <2>2, <2>3 DEF Peek
<1>5. CASE CheckOwner(p)
  <2>1. UNCHANGED <<files, lock, verbs>> /\ old.pc = "checking" /\ old.record # Nil
    BY <1>1, <1>5 DEF CheckOwner, CallFits, Shelving
  <2>2. CASE slot.id \in {Nil, old.record.id} /\ Goes(p, [old EXCEPT !.pc = "archiving"])
    <3> DEFINE new == [old EXCEPT !.pc = "archiving"]
    <3>1. /\ new \in VerbCalls /\ new.pc = "archiving" /\ new.record = old.record
          /\ new.text = old.text
      BY <1>1 DEF VerbCalls, Points
    <3>2. Goes(p, new) /\ old.text = acts[p].text
      BY <2>2
    <3> HIDE DEF new, old
    <3>3. CallFits(p, new, sidecars, lock)
      BY <1>1, <2>1, <3>1 DEF CallFits, Shelving
    <3>4. old.text.spec # Blank
      BY <1>1, <2>1 DEF TextFits, Shelving
    <3>5. old.text.id \in {Nil, old.record.id} \/ Shelved(old.text, archive)
      BY <1>1, <2>2, <3>4 DEF TextFits
    <3>6. TextFits(new, slot, sidecars, archive)
      BY <1>1, <3>1, <3>4, <3>5 DEF TextFits, Shelving
    <3> QED
      BY <2>1, <3>1, <3>2, <3>3, <3>6, GoesKeeps
  <2>3. CASE Goes(p, Back(old))
    BY <1>1, <2>1, <2>3, BackFits, GoesKeeps
  <2> QED
    BY <1>5, <2>2, <2>3 DEF CheckOwner
<1> QED
  BY <1>2, <1>3, <1>4, <1>5

\* A walk ships a record that it reads anew; a process may die.
LEMMA CallsKeep ==
    ASSUME LifecycleInv, NEW p \in Actors, CallShip(p) \/ Die(p)
    PROVE  LifecycleInv'
<1> DEFINE old == acts[p]
<1>1. /\ old \in VerbCalls /\ CallFits(p, old, sidecars, lock)
      /\ TextFits(old, slot, sidecars, archive)
      /\ old.record # Nil => old.record \in Records
  BY OfActor
<1>2. CASE CallShip(p)
  <2>1. UNCHANGED <<files, lock, verbs>> /\ old.pc = "calling" /\ old.record.id \in Keys
    BY <1>1, <1>2, RecordFacts DEF CallShip, CallFits
  <2>2. CASE Goes(p, Idle)
    BY <2>1, <2>2, EndKeeps
  <2>3. ASSUME NEW r \in Finds(old.record.id), NEW pr \in BOOLEAN, NEW pc \in Ships(r, pr),
               Goes(p, Shipping(old, r, pr, pc))
        PROVE  LifecycleInv'
    <3>1. r \in Records /\ IsOf(r, sidecars)
      BY <2>1, FoundFits
    <3>2. PICK new \in VerbCalls : /\ new = Shipping(old, r, pr, pc) /\ new.text = old.text
                                   /\ new.pc \in {"writing", "rendering"}
                                   /\ CallFits(p, new, sidecars, lock)
      BY <1>1, <3>1, ShippingFits
    <3>3. TextFits(new, slot, sidecars, archive)
      BY <1>1, <3>2, TextGoesOn DEF Shelving
    <3> QED
      BY <2>1, <2>3, <3>2, <3>3, GoesKeeps
  <2> QED
    BY <1>2, <2>2, <2>3 DEF CallShip
<1>3. CASE Die(p)
  BY <1>3, EndKeeps DEF Die
<1> QED
  BY <1>2, <1>3

\* The files of records: a new record, a record written again, its number.
LEMMA SidecarsKeep ==
    ASSUME LifecycleInv, NEW p \in Actors,
           WriteMinted(p) \/ WriteState(p) \/ RenameWrite(p) \/ RenameMove(p)
    PROVE  LifecycleInv'
<1> DEFINE old == acts[p]
<1>1. /\ old \in VerbCalls /\ CallFits(p, old, sidecars, lock)
      /\ TextFits(old, slot, sidecars, archive)
      /\ old.record # Nil => old.record \in Records
      /\ sidecars \in Cabinets /\ RecordsApart(sidecars)
      /\ lock \in Actors \cup {Nil} /\ rows \in SUBSET Keys /\ Hints \subseteq rows
      /\ old.text = acts[p].text
  BY OfActor
<1>2. lock = p => \A q \in Actors \ {p} : acts[q].pc \notin {"minted", "renamed"}
  BY OfActor DEF CallFits
<1>3. ASSUME NEW k \in KeysOf(old.record), IsOf(old.record, sidecars),
             sidecars' = [sidecars EXCEPT ![k] = old.record]
      PROVE  /\ sidecars' \in Cabinets /\ RecordsApart(sidecars')
             /\ KeepsNumbers(sidecars, sidecars')
             /\ \A j \in Keys : sidecars[j] # Nil => sidecars'[j] # Nil
             /\ \A q \in Actors :
                  /\ acts[q].pc = "minted" => IsNew(acts[q].record, sidecars')
                  /\ acts[q].pc = "renamed" => sidecars'[acts[q].record.slug] # Nil
  <2>1. /\ sidecars' \in Cabinets /\ RecordsApart(sidecars') /\ KeepsNumbers(sidecars, sidecars')
        /\ \A j \in Keys : sidecars[j] # Nil => sidecars'[j] # Nil
        /\ \A n : IsNew(n, sidecars) => IsNew(n, sidecars')
    <3>1. PICK r : r = old.record
      OBVIOUS
    <3>2. IsOf(r, sidecars) /\ k \in KeysOf(r) /\ sidecars' = [sidecars EXCEPT ![k] = r]
      BY <1>3, <3>1
    <3> QED
      BY <1>1, <3>2, PutKeepsApart
  <2>2. \A q \in Actors :
          /\ acts[q].pc = "minted" => IsNew(acts[q].record, sidecars)
          /\ acts[q].pc = "renamed" => /\ sidecars[acts[q].record.slug] # Nil
                                       /\ acts[q].record.slug \in Keys
    BY OfActor, KeyFacts DEF CallFits
  <2> QED
    BY <2>1, <2>2
<1>4. CASE WriteMinted(p)
  <2>1. /\ old.pc = "minted" /\ lock = p /\ IsNew(old.record, sidecars)
        /\ sidecars' = [sidecars EXCEPT ![old.record.id] = old.record] /\ lock' = Nil
        /\ acts' = [acts EXCEPT ![p] = Idle]
        /\ UNCHANGED <<rows, archive, slot, loose, verbs>>
    BY <1>1, <1>4 DEF WriteMinted, CallFits, Goes
  <2>2. sidecars' \in Cabinets /\ RecordsApart(sidecars') /\ KeepsNumbers(sidecars, sidecars')
    BY <1>1, <2>1, NewKeepsApart
  <2> QED
    BY <1>1, <1>2, <2>1, <2>2, IdleFits, AsideKeeps
<1>5. CASE WriteState(p)
  <2>1. /\ old.pc = "writing" /\ IsOf(old.record, sidecars) /\ old.next \in Nexts
        /\ sidecars' = [sidecars EXCEPT ![old.record.id] = old.record] /\ old.record # Nil
        /\ acts' = [acts EXCEPT ![p] = IF old.next = "idle" THEN Idle
                                       ELSE [old EXCEPT !.pc = old.next]]
        /\ UNCHANGED <<rows, archive, slot, loose, lock, verbs>>
    BY <1>1, <1>5 DEF WriteState, CallFits, Goes
  <2>2. old.record.id \in KeysOf(old.record)
    BY <2>1 DEF IsOf, Proper
  <2>3. /\ sidecars' \in Cabinets /\ RecordsApart(sidecars') /\ KeepsNumbers(sidecars, sidecars')
        /\ \A q \in Actors :
             /\ acts[q].pc = "minted" => IsNew(acts[q].record, sidecars')
             /\ acts[q].pc = "renamed" => sidecars'[acts[q].record.slug] # Nil
    BY <1>3, <2>1, <2>2
  <2>4. CASE old.next = "idle"
    BY <1>1, <2>1, <2>3, <2>4, IdleFits, AsideKeeps
  <2>5. CASE old.next # "idle"
    <3> DEFINE new == [old EXCEPT !.pc = old.next]
    <3>1. /\ new \in VerbCalls /\ new.pc = old.next /\ new.record = old.record
          /\ new.text = old.text /\ new.fresh = old.fresh
      BY <1>1, <2>1 DEF VerbCalls, Points, Nexts
    <3>2. acts' = [acts EXCEPT ![p] = new]
      BY <2>1, <2>5
    <3>3. CallFits(p, old, sidecars', lock)
      BY <1>1, <2>1, <2>3, FitsStay
    <3> HIDE DEF new, old
    <3>4. CallFits(p, new, sidecars', lock)
      BY <2>1, <2>5, <3>1, <3>3 DEF CallFits, Shelving, Nexts
    <3>5. TextFits(new, slot, sidecars, archive)
      BY <1>1, <2>1, <2>5, <3>1, TextGoesOn DEF Shelving, Nexts
    <3> QED
      BY <1>1, <2>1, <2>3, <3>1, <3>2, <3>4, <3>5, AsideKeeps
  <2> QED
    BY <2>4, <2>5
<1>6. CASE RenameWrite(p)
  <2>1. /\ old.pc = "renaming" /\ IsOf(old.record, sidecars) /\ old.record # Nil
        /\ old.record.slug \in Legacy /\ old.record.id = Hint[old.record.slug] /\ lock = p
        /\ sidecars' = [sidecars EXCEPT ![old.record.slug] = old.record]
        /\ acts' = [acts EXCEPT ![p].pc = "renamed"]
        /\ UNCHANGED <<rows, archive, slot, loose, lock, verbs>>
    BY <1>1, <1>6 DEF RenameWrite, CallFits, To
  <2>2. old.record.slug \in KeysOf(old.record)
    BY <2>1, KeyFacts DEF KeysOf, Old
  <2>3. /\ sidecars' \in Cabinets /\ RecordsApart(sidecars') /\ KeepsNumbers(sidecars, sidecars')
        /\ \A q \in Actors :
             /\ acts[q].pc = "minted" => IsNew(acts[q].record, sidecars')
             /\ acts[q].pc = "renamed" => sidecars'[acts[q].record.slug] # Nil
    BY <1>3, <2>1, <2>2
  <2>4. sidecars'[old.record.slug] # Nil
    BY <1>1, <2>1, KeyFacts DEF Cabinets
  <2> DEFINE new == [old EXCEPT !.pc = "renamed"]
  <2>5. /\ new \in VerbCalls /\ new.pc = "renamed" /\ new.record = old.record
        /\ new.text = old.text
    BY <1>1 DEF VerbCalls, Points
  <2>6. acts' = [acts EXCEPT ![p] = new]
    BY <2>1
  <2>7. CallFits(p, old, sidecars', lock)
    BY <1>1, <2>1, <2>3, FitsStay
  <2> HIDE DEF new, old
  <2>8. CallFits(p, new, sidecars', lock)
    BY <2>1, <2>4, <2>5, <2>7 DEF CallFits, Shelving
  <2>9. TextFits(new, slot, sidecars, archive)
    BY <1>1, <2>5, TextGoesOn DEF Shelving
  <2> QED
    BY <1>1, <2>1, <2>3, <2>5, <2>6, <2>8, <2>9, AsideKeeps
<1>7. CASE RenameMove(p)
  <2>1. /\ old.pc = "renamed" /\ IsOf(old.record, sidecars) /\ old.record # Nil
        /\ old.record.slug \in Legacy /\ old.record.id = Hint[old.record.slug] /\ lock = p
        /\ sidecars[old.record.slug] # Nil
        /\ sidecars' = [sidecars EXCEPT ![old.record.id] = sidecars[old.record.slug],
                                        ![old.record.slug] = Nil]
        /\ acts' = [acts EXCEPT ![p].pc = "migrating"]
        /\ UNCHANGED <<rows, archive, slot, loose, lock, verbs>>
    BY <1>1, <1>7 DEF RenameMove, CallFits, To
  <2>2. sidecars' \in Cabinets /\ RecordsApart(sidecars') /\ KeepsNumbers(sidecars, sidecars')
    BY <1>1, <2>1, MoveKeepsApart
  <2> DEFINE new == [old EXCEPT !.pc = "migrating"]
  <2>3. /\ new \in VerbCalls /\ new.pc = "migrating" /\ new.record = old.record
        /\ new.text = old.text
    BY <1>1 DEF VerbCalls, Points
  <2>4. acts' = [acts EXCEPT ![p] = new]
    BY <2>1
  <2>5. IsOf(old.record, sidecars')
    BY <2>1, KeyFacts DEF IsOf, Old
  <2> HIDE DEF new, old
  <2>6. CallFits(p, new, sidecars', lock)
    BY <2>1, <2>3, <2>5 DEF CallFits, Shelving
  <2>7. TextFits(new, slot, sidecars, archive)
    BY <1>1, <2>3, TextGoesOn DEF Shelving
  <2> QED
    BY <1>1, <1>2, <2>1, <2>2, <2>3, <2>4, <2>6, <2>7, AsideKeeps
<1> QED
  BY <1>4, <1>5, <1>6, <1>7

\* The table is replaced by what was read of it.
LEMMA RenderKeeps ==
    ASSUME LifecycleInv, NEW p \in Actors, RenderWrite(p)
    PROVE  LifecycleInv'
<1> DEFINE old == acts[p]
<1>1. /\ old \in VerbCalls /\ CallFits(p, old, sidecars, lock)
      /\ TextFits(old, slot, sidecars, archive)
      /\ sidecars \in Cabinets /\ RecordsApart(sidecars) /\ lock \in Actors \cup {Nil}
      /\ old.text = acts[p].text
  BY OfActor
<1>2. /\ old.pc = "rendered" /\ Hints \subseteq rows' /\ rows' \in SUBSET Keys
      /\ old.fresh => old.record # Nil
      /\ acts' = [acts EXCEPT ![p] = IF old.fresh THEN [old EXCEPT !.pc = "peeking"]
                                     ELSE Back(old)]
      /\ UNCHANGED <<sidecars, archive, slot, loose, lock, verbs>>
  <2>1. /\ old.pc = "rendered" /\ rows' = old.known
        /\ acts' = [acts EXCEPT ![p] = IF old.fresh THEN [old EXCEPT !.pc = "peeking"]
                                       ELSE Back(old)]
        /\ UNCHANGED <<sidecars, archive, slot, loose, lock, verbs>>
    BY DEF RenderWrite, Goes
  <2>2. Hints \subseteq old.known /\ old.known \in SUBSET Keys
    BY <1>1, <2>1 DEF CallFits, VerbCalls
  <2>3. old.fresh => old.record # Nil
    BY <1>1, <2>1 DEF CallFits
  <2> QED
    BY <2>1, <2>2, <2>3
<1>3. /\ KeepsNumbers(sidecars, sidecars')
      /\ \A q \in Actors : /\ acts[q].pc = "minted" => IsNew(acts[q].record, sidecars')
                           /\ acts[q].pc = "renamed" => sidecars'[acts[q].record.slug] # Nil
  BY <1>2, OfActor DEF CallFits, KeepsNumbers
<1>4. ASSUME NEW new \in VerbCalls, acts' = [acts EXCEPT ![p] = new],
             CallFits(p, new, sidecars, lock), TextFits(new, slot, sidecars, archive),
             new.text \in {old.text, EmptySlot}
      PROVE  LifecycleInv'
  BY <1>1, <1>2, <1>3, <1>4, AsideKeeps
<1>5. CASE old.fresh
  <2> DEFINE new == [old EXCEPT !.pc = "peeking"]
  <2>1. /\ new \in VerbCalls /\ new.pc = "peeking" /\ new.record = old.record
        /\ new.text = old.text
    BY <1>1 DEF VerbCalls, Points
  <2>2. acts' = [acts EXCEPT ![p] = new]
    BY <1>2, <1>5
  <2> HIDE DEF new, old
  <2>3. CallFits(p, new, sidecars, lock)
    BY <1>1, <1>2, <1>5, <2>1 DEF CallFits, Shelving
  <2>4. TextFits(new, slot, sidecars, archive)
    BY <1>1, <2>1, TextGoesOn DEF Shelving
  <2> QED
    BY <1>4, <2>1, <2>2, <2>3, <2>4
<1>6. CASE ~old.fresh
  BY <1>1, <1>2, <1>4, <1>6, BackFits
<1> QED
  BY <1>5, <1>6

-----------------------------------------------------------------------------
\* A call that writes the slot or the archive.
LEMMA SlotKeeps ==
    ASSUME LifecycleInv, NEW p \in Actors, NEW call \in VerbCalls,
           acts' = [acts EXCEPT ![p] = call],
           UNCHANGED <<sidecars, rows, loose, lock, verbs>>,
           CallFits(p, call, sidecars, lock), call.text \in {acts[p].text, EmptySlot},
           slot' \in Slots, SlotFits(slot', sidecars),
           archive' \in Archives,
           TextFits(call, slot', sidecars, archive'),
           \A q \in Actors \ {p} : TextFits(acts[q], slot', sidecars, archive')
    PROVE  LifecycleInv'
<1>1. /\ sidecars' \in Cabinets /\ RecordsApart(sidecars') /\ KeepsNumbers(sidecars, sidecars')
      /\ lock' \in Actors \cup {Nil} /\ rows' \in SUBSET Keys /\ Hints \subseteq rows'
  BY DEF LifecycleInv, LifecycleTypeOK, Cabinets, KeepsNumbers
<1>2. \A q \in Actors : /\ acts[q].pc = "minted" => IsNew(acts[q].record, sidecars')
                        /\ acts[q].pc = "renamed" => sidecars'[acts[q].record.slug] # Nil
  BY DEF LifecycleInv, CallFits
<1>3. \A q \in Actors : SameText(call, acts[q])
  BY IdleFits DEF LifecycleInv, SameText
<1> QED
  BY <1>1, <1>2, <1>3, StepKeeps

\* A step of no call.
LEMMA StillKeeps ==
    ASSUME LifecycleInv, UNCHANGED <<sidecars, rows, acts, lock, verbs>>,
           slot' \in Slots, SlotFits(slot', sidecars),
           archive' \in Archives,
           loose' \in SUBSET (Numbers \X Slugs),
           \A d \in loose' : d[1] \in Fresh => StraySpec(d, sidecars),
           \A q \in Actors : TextFits(acts[q], slot', sidecars, archive')
    PROVE  LifecycleInv'
<1>1. LifecycleTypeOK'
  BY DEF LifecycleInv, LifecycleTypeOK
<1> QED
  BY <1>1 DEF LifecycleInv

\* Of two texts that calls have read, each is the other.
LEMMA OneText ==
    ASSUME LifecycleInv, NEW p \in Actors, NEW q \in Actors,
           acts[p].text.spec # Blank, acts[q].text.spec # Blank
    PROVE  acts[q].text.spec = acts[p].text.spec /\ acts[q].text.id = acts[p].text.id
  BY DEF LifecycleInv, SameText

\* A copy is filed in the archive.
LEMMA FilingFits ==
    ASSUME LifecycleInv, NEW d \in Directories, NEW spec \in Texts,
           archive' = [archive EXCEPT ![d] = [Filed(d) EXCEPT !.spec = spec]]
    PROVE  /\ archive' \in Archives /\ archive'[d] # Nil /\ archive'[d].spec = spec
           /\ \A e \in Directories : e # d => archive'[e] = archive[e]
<1>1. archive \in Archives
  BY DEF LifecycleInv, LifecycleTypeOK
<1>2. Filed(d) \in Filings
  BY <1>1 DEF Filed, Filings, Archives
<1> DEFINE copy == [Filed(d) EXCEPT !.spec = spec]
<1>3. copy \in Filings /\ copy.spec = spec
  BY <1>2 DEF Filings
<1>4. copy # Nil
  BY <1>3, KeyFacts
<1>5. archive' = [archive EXCEPT ![d] = copy]
  OBVIOUS
<1> HIDE DEF copy
<1> QED
  BY <1>1, <1>3, <1>4, <1>5 DEF Archives

\* Where the copies of texts are: the directory of a record, of a number.
LEMMA DirectoryFacts ==
    /\ \A r \in Records : Directory(r) \in Directories
    /\ \A k \in Keys, s \in Slugs : <<k, s>> \in Directories
    /\ \A k \in Numbers, s \in Slugs : <<k, s>> \in Directories
  BY RecordFacts, KeyFacts DEF Directory, Directories

\* What fits the archive fits one in which one directory is written: with the
\* same text, with the text itself, or with a stray file of its spec.
LEMMA CopiesStay ==
    ASSUME NEW call \in VerbCalls, NEW s, NEW cars, NEW arch, NEW new,
           TextFits(call, s, cars, arch),
           call.pc \in {"planning", "resetting"} => call.record \in Records,
           NEW k \in Keys, NEW slug \in Slugs, NEW d, d = <<k, slug>>,
           new[d] # Nil, \A e \in Directories : e # d => new[e] = arch[e],
           call.text.spec # Blank =>
             \/ new[d].spec = call.text.spec
             \/ arch[d] # Nil /\ new[d].spec = arch[d].spec
             \/ new[d].spec = slug /\ (k = call.text.id => slug = call.text.spec)
    PROVE  TextFits(call, s, cars, new)
<1>1. call.text \in Slots
  BY DEF VerbCalls
<1>2. ASSUME call.text.spec # Blank, TextOf(call.text, cars), call.text.id # Nil,
             Shelved(call.text, arch)
      PROVE  Shelved(call.text, new)
  <2>1. PICK t \in Slugs : arch[call.text.id, t] # Nil /\ arch[call.text.id, t].spec = call.text.spec
    BY <1>2 DEF Shelved
  <2>2. PICK e \in Directories : e = <<call.text.id, t>>
    BY <1>2, KeyFacts, DirectoryFacts DEF TextOf
  <2>3. new[e] # Nil /\ new[e].spec = call.text.spec
    <3>1. CASE e # d
      BY <2>1, <2>2, <3>1
    <3>2. CASE e = d
      <4>1. k = call.text.id
        BY <2>2, <3>2
      <4> QED
        BY <1>2, <2>1, <2>2, <3>2, <4>1
    <3> QED
      BY <3>1, <3>2
  <2> QED
    BY <2>2, <2>3 DEF Shelved
<1>3. ASSUME call.text.spec # Blank, TextOf(call.text, cars), call.record \in Records,
             CopyKept(call.text, call.record, arch)
      PROVE  CopyKept(call.text, call.record, new)
  <2>1. CASE call.text.id # Nil
    BY <1>2, <1>3, <2>1 DEF CopyKept
  <2>2. CASE call.text.id = Nil
    <3>1. PICK e \in Directories : e = Directory(call.record)
      BY <1>3, DirectoryFacts
    <3>2. arch[e] # Nil /\ arch[e].spec \in {call.text.spec, call.record.slug}
      BY <1>3, <2>2, <3>1 DEF CopyKept
    <3>3. new[e] # Nil /\ new[e].spec \in {call.text.spec, call.record.slug}
      <4>1. CASE e # d
        BY <3>2, <4>1
      <4>2. CASE e = d
        <5>1. slug = call.record.slug
          BY <3>1, <4>2 DEF Directory
        <5> QED
          BY <1>3, <3>2, <4>2, <5>1
      <4> QED
        BY <4>1, <4>2
    <3> QED
      BY <2>2, <3>1, <3>3 DEF CopyKept
  <2> QED
    BY <2>1, <2>2
<1>4. ASSUME call.record \in Records, arch[Directory(call.record)] # Nil
      PROVE  new[Directory(call.record)] # Nil
  BY <1>4, DirectoryFacts
<1>5. call.text.spec # Blank => TextOf(call.text, cars)
  BY DEF TextFits
<1>6. /\ call.pc \in {"planning", "resetting"} =>
           call.text.spec # Blank /\ CopyKept(call.text, call.record, new)
      /\ call.pc = "planning" => new[Directory(call.record)] # Nil
  <2>1. call.pc \in {"planning", "resetting"} => call.text.spec # Blank
    BY DEF TextFits, Shelving
  <2>2. /\ call.pc \in {"planning", "resetting"} => CopyKept(call.text, call.record, arch)
        /\ call.pc = "planning" => arch[Directory(call.record)] # Nil
    BY DEF TextFits
  <2> QED
    BY <1>3, <1>4, <1>5, <2>1, <2>2
<1>7. call.pc = "archiving" => call.text.id \in {Nil, call.record.id} \/ Shelved(call.text, new)
  <2>1. call.pc = "archiving" => /\ call.text.spec # Blank
                                 /\ \/ call.text.id \in {Nil, call.record.id}
                                    \/ Shelved(call.text, arch)
    BY DEF TextFits, Shelving
  <2> QED
    BY <1>2, <1>5, <2>1
<1>8. call.text.spec # Blank =>
        IF s.spec = Blank THEN call.text.id # Nil => Shelved(call.text, new)
        ELSE s.spec = call.text.spec /\ s.id = call.text.id
  <2>1. call.text.spec # Blank =>
          IF s.spec = Blank THEN call.text.id # Nil => Shelved(call.text, arch)
          ELSE s.spec = call.text.spec /\ s.id = call.text.id
    BY DEF TextFits
  <2> QED
    BY <1>2, <1>5, <2>1
<1>9. /\ call.pc \in {"mirrored"} \cup Shelving => call.text.spec # Blank
      /\ call.pc = "idle" => call.text.spec = Blank
  BY DEF TextFits
<1> QED
  BY <1>5, <1>6, <1>7, <1>8, <1>9 DEF TextFits

\* The archive is written.
LEMMA ArchivesKeep ==
    ASSUME LifecycleInv, NEW p \in Actors, ArchiveSpec(p) \/ ArchivePlan(p)
    PROVE  LifecycleInv'
<1> DEFINE old == acts[p]
<1>1. /\ old \in VerbCalls /\ CallFits(p, old, sidecars, lock)
      /\ TextFits(old, slot, sidecars, archive) /\ old.text = acts[p].text
      /\ old.text \in Slots /\ slot \in Slots /\ SlotFits(slot, sidecars)
  BY OfActor
<1>2. /\ old.pc \in {"archiving", "planning"} /\ old.text.spec # Blank /\ old.record # Nil
      /\ TextOf(old.text, sidecars)
  <2>1. old.pc \in {"archiving", "planning"}
    BY DEF ArchiveSpec, ArchivePlan
  <2>2. old.text.spec # Blank /\ old.record # Nil
    BY <1>1, <2>1 DEF TextFits, CallFits, Shelving
  <2> QED
    BY <1>1, <2>1, <2>2 DEF TextFits
<1>3. PICK r \in Records : r = old.record /\ r.id \in Keys /\ r.slug \in Slugs
  BY <1>2, OfActor, RecordFacts
<1>4. PICK d \in Directories : d = Directory(r) /\ d = <<r.id, r.slug>>
  BY <1>3, DirectoryFacts DEF Directory
<1>5. ASSUME archive' \in Archives, NEW new \in VerbCalls,
             \A e \in Directories : e # d => archive'[e] = archive[e],
             archive'[d] # Nil,
             \/ archive'[d].spec = old.text.spec
             \/ archive[d] # Nil /\ archive'[d].spec = archive[d].spec,
             new.pc = "planning" \/ new.pc = "resetting",
             CopyKept(old.text, r, archive'),
             new.record = r, new.text = old.text,
             acts' = [acts EXCEPT ![p] = new],
             UNCHANGED <<sidecars, rows, slot, loose, lock, verbs>>
      PROVE  LifecycleInv'
  <2>1. CallFits(p, new, sidecars, lock)
    BY <1>1, <1>2, <1>3, <1>5 DEF CallFits, Shelving
  <2>2. ASSUME NEW q \in Actors PROVE TextFits(acts[q], slot', sidecars, archive')
    <3>1. /\ acts[q] \in VerbCalls /\ TextFits(acts[q], slot, sidecars, archive)
          /\ acts[q].pc \in {"planning", "resetting"} => acts[q].record \in Records
      BY OfActor DEF CallFits, Shelving
    <3>2. acts[q].text.spec # Blank => acts[q].text.spec = old.text.spec
      BY <1>2, OneText
    <3>3. slot' = slot
      BY <1>5
    <3> HIDE DEF old
    <3> QED
      BY <1>3, <1>4, <1>5, <3>1, <3>2, <3>3, CopiesStay
  <2>3. TextFits(new, slot', sidecars, archive')
    <3>1. TextFits(old, slot', sidecars, archive')
      BY <2>2
    <3>2. CopyKept(new.text, new.record, archive') /\ archive'[Directory(new.record)] # Nil
      BY <1>4, <1>5
    <3> HIDE DEF old
    <3> QED
      BY <1>2, <1>5, <3>1, <3>2 DEF TextFits, Shelving
  <2>4. slot' \in Slots /\ SlotFits(slot', sidecars)
    BY <1>1, <1>5
  <2> HIDE DEF old
  <2> QED
    BY <1>1, <1>5, <2>1, <2>2, <2>3, <2>4, SlotKeeps
<1>6. CASE ArchiveSpec(p)
  <2> DEFINE new == [old EXCEPT !.pc = "planning"]
  <2>1. /\ new \in VerbCalls /\ new.pc = "planning" /\ new.record = r /\ new.text = old.text
    BY <1>1, <1>3 DEF VerbCalls, Points
  <2>2. /\ old.pc = "archiving" /\ acts' = [acts EXCEPT ![p] = new]
        /\ archive' = [archive EXCEPT ![d] = [Filed(d) EXCEPT !.spec = old.text.spec]]
        /\ UNCHANGED <<sidecars, rows, slot, loose, lock, verbs>>
    BY <1>3, <1>4, <1>6 DEF ArchiveSpec, To
  <2>3. old.text.spec \in Texts
    BY <1>1 DEF Slots
  <2>4. PICK spec \in Texts : spec = old.text.spec
    BY <2>3
  <2>5. /\ archive' \in Archives /\ archive'[d] # Nil /\ archive'[d].spec = spec
        /\ \A e \in Directories : e # d => archive'[e] = archive[e]
    <3> HIDE DEF new, old
    <3> QED
      BY <2>2, <2>4, FilingFits
  <2>6. CopyKept(old.text, r, archive')
    <3>1. CASE old.text.id = Nil
      BY <1>4, <2>4, <2>5, <3>1 DEF CopyKept
    <3>2. CASE old.text.id = r.id /\ old.text.id # Nil
      BY <1>3, <1>4, <2>4, <2>5, <3>2 DEF CopyKept, Shelved
    <3>3. CASE old.text.id # Nil /\ Shelved(old.text, archive)
      <4>1. PICK t \in Slugs : /\ archive[old.text.id, t] # Nil
                               /\ archive[old.text.id, t].spec = old.text.spec
        BY <3>3 DEF Shelved
      <4>2. PICK e \in Directories : e = <<old.text.id, t>>
        BY <1>2, <3>3, KeyFacts, DirectoryFacts DEF TextOf
      <4>3. archive'[e] # Nil /\ archive'[e].spec = old.text.spec
        BY <2>4, <2>5, <4>1, <4>2
      <4> QED
        BY <3>3, <4>2, <4>3 DEF CopyKept, Shelved
    <3>4. old.text.id \in {Nil, r.id} \/ Shelved(old.text, archive)
      BY <1>1, <1>3, <2>2 DEF TextFits
    <3> QED
      BY <3>1, <3>2, <3>3, <3>4
  <2> HIDE DEF new, old
  <2> QED
    BY <1>5, <2>1, <2>2, <2>4, <2>5, <2>6
<1>7. CASE ArchivePlan(p)
  <2> DEFINE new == [old EXCEPT !.pc = "resetting"]
  <2>1. /\ new \in VerbCalls /\ new.pc = "resetting" /\ new.record = r /\ new.text = old.text
    BY <1>1, <1>3 DEF VerbCalls, Points
  <2>2. /\ old.pc = "planning" /\ acts' = [acts EXCEPT ![p] = new]
        /\ archive' = [archive EXCEPT ![d].plan = slot.plan]
        /\ UNCHANGED <<sidecars, rows, slot, loose, lock, verbs>>
    BY <1>3, <1>4, <1>7 DEF ArchivePlan, To
  <2>3. archive \in Archives /\ archive[d] # Nil /\ CopyKept(old.text, r, archive)
    BY <1>1, <1>3, <1>4, <2>2 DEF LifecycleInv, LifecycleTypeOK, TextFits
  <2>4. PICK f \in Filings : f = archive[d]
    BY <2>3 DEF Archives
  <2> DEFINE copy == [f EXCEPT !.plan = slot.plan]
  <2>5. copy \in Filings /\ copy.spec = f.spec
    BY <1>1 DEF Filings, Slots
  <2>6. copy # Nil
    BY <2>5, KeyFacts
  <2>7. archive' = [archive EXCEPT ![d] = copy]
    BY <2>2, <2>4
  <2> HIDE DEF copy
  <2>8. /\ archive' \in Archives /\ archive'[d] = copy
        /\ \A e \in Directories : e # d => archive'[e] = archive[e]
    BY <2>3, <2>5, <2>7 DEF Archives
  <2>9. /\ archive'[d] # Nil /\ archive'[d].spec = archive[d].spec
    BY <2>4, <2>5, <2>6, <2>8
  <2>10. CopyKept(old.text, r, archive')
    <3>1. TextFits(old, slot, sidecars, archive')
      <4>1. old.pc \in {"planning", "resetting"} => old.record \in Records
        BY <1>3
      <4> HIDE DEF old, new
      <4> QED
        BY <1>1, <1>3, <1>4, <2>3, <2>8, <2>9, <4>1, CopiesStay
    <3> QED
      BY <1>3, <2>2, <3>1 DEF TextFits
  <2> HIDE DEF new, old
  <2> QED
    BY <1>5, <2>1, <2>2, <2>3, <2>8, <2>9, <2>10
<1> QED
  BY <1>6, <1>7

\* The slot is written: its status line, the blank spec, the blank plan.
LEMMA SlotsKeep ==
    ASSUME LifecycleInv, NEW p \in Actors, MirrorWrite(p) \/ ResetSpec(p) \/ ResetPlan(p)
    PROVE  LifecycleInv'
<1> DEFINE old == acts[p]
<1>1. /\ old \in VerbCalls /\ CallFits(p, old, sidecars, lock)
      /\ TextFits(old, slot, sidecars, archive) /\ old.text = acts[p].text
      /\ old.text \in Slots /\ slot \in Slots /\ SlotFits(slot, sidecars)
      /\ archive \in Archives
  BY OfActor DEF LifecycleInv, LifecycleTypeOK
<1>2. CASE MirrorWrite(p)
  <2>1. /\ old.pc = "mirrored" /\ acts' = [acts EXCEPT ![p] = Idle]
        /\ slot' = [slot EXCEPT !.spec = old.text.spec, !.id = old.text.id]
        /\ UNCHANGED <<sidecars, rows, archive, loose, lock, verbs>>
    BY <1>2 DEF MirrorWrite, Goes
  <2>2. old.text.spec # Blank /\ TextOf(old.text, sidecars)
    BY <1>1, <2>1 DEF TextFits
  <2>3. /\ slot' \in Slots /\ slot'.spec = old.text.spec /\ slot'.id = old.text.id
    BY <1>1, <2>1 DEF Slots
  <2>4. SlotFits(slot', sidecars)
    BY <2>2, <2>3 DEF SlotFits, TextOf
  <2>5. ASSUME NEW q \in Actors PROVE TextFits(acts[q], slot', sidecars, archive')
    <3>1. TextFits(acts[q], slot, sidecars, archive) /\ archive' = archive
      BY <2>1, OfActor
    <3>2. acts[q].text.spec # Blank => /\ slot'.spec = acts[q].text.spec
                                       /\ slot'.id = acts[q].text.id
      BY <2>2, <2>3, OneText
    <3> QED
      BY <2>2, <2>3, <3>1, <3>2 DEF TextFits
  <2> QED
    BY <1>1, <2>1, <2>3, <2>4, <2>5, IdleFits, SlotKeeps
<1>3. CASE ResetSpec(p)
  <2> DEFINE new == [old EXCEPT !.pc = "clearing"]
  <2>1. /\ new \in VerbCalls /\ new.pc = "clearing" /\ new.record = old.record
        /\ new.text = old.text
    BY <1>1 DEF VerbCalls, Points
  <2>2. /\ old.pc = "resetting" /\ acts' = [acts EXCEPT ![p] = new]
        /\ slot' = [slot EXCEPT !.spec = Blank, !.id = Nil]
        /\ UNCHANGED <<sidecars, rows, archive, loose, lock, verbs>>
    BY <1>3 DEF ResetSpec, To
  <2>3. old.text.spec # Blank /\ (old.text.id # Nil => Shelved(old.text, archive))
    BY <1>1, <2>2 DEF TextFits, Shelving, CopyKept
  <2>4. /\ slot' \in Slots /\ slot'.spec = Blank /\ slot'.id = Nil
    BY <1>1, <2>2 DEF Slots, Texts
  <2>5. SlotFits(slot', sidecars)
    BY <2>4 DEF SlotFits
  <2>6. ASSUME NEW q \in Actors PROVE TextFits(acts[q], slot', sidecars, archive')
    <3>1. TextFits(acts[q], slot, sidecars, archive) /\ archive' = archive
      BY <2>2, OfActor
    <3>2. acts[q].text.spec # Blank /\ acts[q].text.id # Nil => Shelved(acts[q].text, archive)
      BY <2>3, OneText DEF Shelved
    <3> QED
      BY <2>4, <3>1, <3>2 DEF TextFits
  <2>7. TextFits(old, slot', sidecars, archive')
    BY <2>6
  <2> HIDE DEF new
  <2>8. CallFits(p, new, sidecars, lock)
    BY <1>1, <2>1, <2>2 DEF CallFits, Shelving
  <2>9. TextFits(new, slot', sidecars, archive')
    BY <2>1, <2>3, <2>7 DEF TextFits, Shelving
  <2> QED
    BY <1>1, <2>1, <2>2, <2>4, <2>5, <2>6, <2>8, <2>9, SlotKeeps
<1>4. CASE ResetPlan(p)
  <2>1. /\ acts' = [acts EXCEPT ![p] = Back(old)]
        /\ slot' = [slot EXCEPT !.plan = Blank]
        /\ UNCHANGED <<sidecars, rows, archive, loose, lock, verbs>>
    BY <1>4 DEF ResetPlan, Goes
  <2>2. /\ slot' \in Slots /\ slot'.spec = slot.spec /\ slot'.id = slot.id
    BY <1>1, <2>1 DEF Slots, Texts
  <2>3. SlotFits(slot', sidecars)
    BY <1>1, <2>2 DEF SlotFits, TextOf
  <2>4. ASSUME NEW q \in Actors PROVE TextFits(acts[q], slot', sidecars, archive')
    <3>1. TextFits(acts[q], slot, sidecars, archive) /\ archive' = archive
      BY <2>1, OfActor
    <3> QED
      BY <2>2, <3>1 DEF TextFits
  <2>5. /\ Back(old) \in VerbCalls /\ Back(old).text \in {old.text, EmptySlot}
        /\ CallFits(p, Back(old), sidecars, lock)
        /\ TextFits(Back(old), slot', sidecars, archive')
    BY <1>1, <2>4, BackFits
  <2> QED
    BY <1>1, <2>1, <2>2, <2>3, <2>4, <2>5, SlotKeeps
<1> QED
  BY <1>2, <1>3, <1>4

\* What no call does: a stray file, its reaping, a spec or plan written, age.
LEMMA OthersKeep ==
    ASSUME LifecycleInv,
           \/ \E p \in Actors : Reap(p)
           \/ \E k \in Numbers : WriteSpec(k, k) \/ WriteSpec(k, Nil) \/ Stray(k)
           \/ WritePlan
           \/ \E s \in Slugs : Age(s)
    PROVE  LifecycleInv'
<1>1. /\ slot \in Slots /\ SlotFits(slot, sidecars) /\ archive \in Archives
      /\ loose \in SUBSET (Numbers \X Slugs)
      /\ \A d \in loose : d[1] \in Fresh => StraySpec(d, sidecars)
      /\ \A q \in Actors : TextFits(acts[q], slot, sidecars, archive)
      /\ sidecars \in Cabinets /\ RecordsApart(sidecars) /\ Numbers \subseteq Keys
  BY KeyFacts DEF LifecycleInv, LifecycleTypeOK, Cabinets
<1>2. ASSUME NEW p \in Actors, Reap(p) PROVE LifecycleInv'
  <2>1. PICK k \in Numbers, s \in Slugs :
            /\ <<k, s>> \in loose /\ loose' = loose \ {<<k, s>>}
            /\ archive' = [archive EXCEPT ![<<k, s>>] = [Filed(<<k, s>>) EXCEPT !.spec = s]]
    BY <1>2 DEF Reap
  <2>2. UNCHANGED <<sidecars, rows, slot, acts, lock, verbs>>
    BY <1>2 DEF Reap
  <2>3. PICK d \in Directories : d = <<k, s>> /\ s \in Texts /\ k \in Keys
    BY <1>1, DirectoryFacts DEF Texts
  <2>4. /\ archive' \in Archives /\ archive'[d] # Nil /\ archive'[d].spec = s
        /\ \A e \in Directories : e # d => archive'[e] = archive[e]
    BY <2>1, <2>3, FilingFits
  <2>5. ASSUME NEW q \in Actors PROVE TextFits(acts[q], slot, sidecars, archive')
    <3>1. /\ acts[q] \in VerbCalls /\ TextFits(acts[q], slot, sidecars, archive)
          /\ acts[q].pc \in {"planning", "resetting"} => acts[q].record \in Records
      BY OfActor DEF CallFits, Shelving
    <3>2. acts[q].text.spec # Blank /\ k = acts[q].text.id => s = acts[q].text.spec
      <4>1. SUFFICES ASSUME acts[q].text.spec # Blank, k = acts[q].text.id
                     PROVE  s = acts[q].text.spec
        OBVIOUS
      <4>2. k \in Fresh /\ sidecars[k].slug = acts[q].text.spec
        BY <2>3, <3>1, <4>1, KeyFacts DEF TextFits, TextOf
      <4>3. d[1] = k /\ d[2] = s /\ d \in loose
        BY <2>1, <2>3
      <4> QED
        BY <1>1, <4>2, <4>3 DEF StraySpec
    <3> QED
      BY <2>3, <2>4, <3>1, <3>2, CopiesStay
  <2>6. slot' = slot /\ loose' \in SUBSET loose
    BY <2>1, <2>2
  <2> QED
    BY <1>1, <2>2, <2>4, <2>5, <2>6, StillKeeps
<1>3. ASSUME NEW k \in Numbers, Stray(k) PROVE LifecycleInv'
  <2>1. /\ UNCHANGED <<sidecars, rows, acts, lock, verbs>> /\ slot' = slot
        /\ archive' = archive /\ loose' = loose \cup {<<k, sidecars[k].slug>>}
        /\ sidecars[k] # Nil
    BY <1>3 DEF Stray
  <2>2. PICK d : d = <<k, sidecars[k].slug>>
    OBVIOUS
  <2>3. d \in Numbers \X Slugs /\ StraySpec(d, sidecars)
    <3>1. sidecars[k] \in Records
      BY <1>1, <2>1 DEF Cabinets
    <3>2. sidecars[k].slug \in Slugs
      BY <3>1, RecordFacts
    <3> QED
      BY <2>1, <2>2, <3>2 DEF StraySpec
  <2>4. loose' = loose \cup {d}
    BY <2>1, <2>2
  <2> QED
    BY <1>1, <2>1, <2>3, <2>4, StillKeeps
<1>4. ASSUME NEW s \in Slugs, Age(s) PROVE LifecycleInv'
  <2>1. /\ UNCHANGED <<sidecars, rows, acts, lock, verbs>> /\ slot' = slot
        /\ archive' = archive /\ loose' = loose
    BY <1>4 DEF Age, files
  <2> QED
    BY <1>1, <2>1, StillKeeps
<1>5. ASSUME \A p \in Actors : ~Busy(p), NEW s \in Slots
      PROVE  \A q \in Actors : TextFits(acts[q], s, sidecars, archive)
  BY <1>1, <1>5 DEF Busy, TextFits, Shelving
<1>6. CASE WritePlan
  <2>1. /\ UNCHANGED <<sidecars, rows, acts, lock, verbs>>
        /\ slot' = [slot EXCEPT !.plan = slot.spec]
        /\ archive' = archive /\ loose' = loose /\ \A p \in Actors : ~Busy(p)
    BY <1>6 DEF WritePlan
  <2>2. slot' \in Slots /\ slot'.spec = slot.spec /\ slot'.id = slot.id
    BY <1>1, <2>1 DEF Slots
  <2>3. SlotFits(slot', sidecars)
    BY <1>1, <2>2 DEF SlotFits, TextOf
  <2> QED
    BY <1>1, <1>5, <2>1, <2>2, <2>3, StillKeeps
<1>7. ASSUME NEW k \in Numbers, NEW id \in {k, Nil}, WriteSpec(k, id) PROVE LifecycleInv'
  <2>1. /\ UNCHANGED <<sidecars, rows, acts, lock, verbs>>
        /\ slot' = [spec |-> sidecars[k].slug, id |-> id, plan |-> Blank]
        /\ archive' = archive /\ loose' = loose /\ \A p \in Actors : ~Busy(p)
        /\ sidecars[k] # Nil /\ sidecars[k].state = "draft" /\ sidecars[k].id = k
    BY <1>7 DEF WriteSpec
  <2>2. sidecars[k].slug \in Slugs /\ k \in Keys /\ k \in Fresh
    <3>1. k \in Keys /\ sidecars[k] \in Records /\ Proper(sidecars[k])
      BY <1>1, <2>1 DEF Cabinets, RecordsApart
    <3> QED
      BY <2>1, <3>1, RecordFacts DEF Proper
  <2>3. slot' \in Slots /\ slot'.spec = sidecars[k].slug /\ slot'.id = id
    BY <2>1, <2>2 DEF Slots, Texts
  <2>4. SlotFits(slot', sidecars)
    BY <2>1, <2>2, <2>3, KeyFacts DEF SlotFits, TextOf
  <2> QED
    BY <1>1, <1>5, <2>1, <2>3, <2>4, StillKeeps
<1> QED
  BY <1>2, <1>3, <1>4, <1>6, <1>7

-----------------------------------------------------------------------------
\* It holds at first.
LEMMA LifecycleInvInit == LifecycleInit => LifecycleInv
<1> SUFFICES ASSUME LifecycleInit PROVE LifecycleInv
  OBVIOUS
<1>1. PICK state \in [Legacy -> {"approved", "shipped", "archived"}], pr \in BOOLEAN :
          sidecars = [k \in Keys |->
            IF k \in Legacy
            THEN [id |-> k, slug |-> k, state |-> state[k], branch |-> TRUE,
                  pr |-> pr /\ state[k] = "shipped"]
            ELSE Nil]
  BY DEF LifecycleInit
<1>2. \A k \in Keys : /\ k \in Legacy => /\ sidecars[k] \in Records /\ sidecars[k] # Nil
                                         /\ sidecars[k].id = k /\ sidecars[k].slug = k
                                         /\ sidecars[k].state # "draft"
                      /\ k \notin Legacy => sidecars[k] = Nil
  <2>1. SUFFICES ASSUME NEW k \in Keys
                 PROVE  /\ k \in Legacy => /\ sidecars[k] \in Records /\ sidecars[k] # Nil
                                           /\ sidecars[k].id = k /\ sidecars[k].slug = k
                                           /\ sidecars[k].state # "draft"
                        /\ k \notin Legacy => sidecars[k] = Nil
    OBVIOUS
  <2>2. CASE k \in Legacy
    <3>1. state[k] \in States /\ state[k] # "draft"
      BY <1>1, <2>2, StatesAre
    <3>2. PICK known \in BOOLEAN : known = (pr /\ state[k] = "shipped")
      OBVIOUS
    <3> DEFINE r == [id |-> k, slug |-> k, state |-> state[k], branch |-> TRUE, pr |-> known]
    <3>3. r \in Records /\ r.id = k /\ r.slug = k /\ r.state # "draft"
      BY <2>2, <3>1, KeyFacts DEF Records
    <3>4. r # Nil
      BY <3>3, KeyFacts
    <3>5. sidecars[k] = r
      BY <1>1, <2>2, <3>2
    <3> QED
      BY <2>2, <3>3, <3>4, <3>5
  <2>3. CASE k \notin Legacy
    BY <1>1, <2>3
  <2> QED
    BY <2>2, <2>3
<1>3. sidecars \in Cabinets
  <2>1. sidecars = [k \in Keys |-> sidecars[k]]
    BY <1>1
  <2> QED
    BY <1>2, <2>1 DEF Cabinets
<1>4. RecordsApart(sidecars)
  BY <1>2, KeyFacts DEF RecordsApart, KeysOf, Old, Proper
<1>5. /\ rows = Hints /\ archive = [d \in Directories |-> Nil] /\ slot = EmptySlot /\ loose = {}
      /\ lock = Nil /\ acts = [p \in Actors |-> Idle] /\ verbs \in VerbSets
  BY DEF LifecycleInit, Hints, Directories
<1>6. LifecycleTypeOK
  BY <1>3, <1>5, KeyFacts, IdleFits DEF LifecycleTypeOK, Cabinets, EmptySlot, Slots, Texts,
     Archives
<1>7. SlotFits(slot, sidecars)
  BY <1>5 DEF SlotFits, EmptySlot
<1>8. /\ \A p \in Actors : /\ CallFits(p, acts[p], sidecars, lock)
                           /\ TextFits(acts[p], slot, sidecars, archive)
      /\ \A p, q \in Actors : SameText(acts[p], acts[q])
  BY <1>5, IdleFits DEF SameText
<1> QED
  BY <1>4, <1>5, <1>6, <1>7, <1>8 DEF LifecycleInv

\* Every step keeps it.
LEMMA LifecycleInvStep == LifecycleInv /\ [LifecycleNext]_lifecycleVars => LifecycleInv'
<1> SUFFICES ASSUME LifecycleInv, [LifecycleNext]_lifecycleVars PROVE LifecycleInv'
  OBVIOUS
<1>1. CASE UNCHANGED lifecycleVars
  BY <1>1 DEF lifecycleVars, files, LifecycleInv, LifecycleTypeOK
<1>2. ASSUME NEW p \in Actors,
             \/ \E s \in Slugs : StartNew(p, s)
             \/ \E k \in Keys : (\E verb \in DOMAIN Target : Move(p, verb, k)) \/ MarkShipped(p, k)
             \/ \E verb \in verbs : Sweep(p, verb) \/ Walk(p, verb)
             \/ Migrate(p)
      PROVE  LifecycleInv'
  BY <1>2, BeginsKeep
<1>3. ASSUME NEW p \in Actors,
             \/ Mint(p) \/ WriteMinted(p) \/ WriteState(p) \/ MirrorRead(p) \/ MirrorWrite(p)
             \/ RenderRead(p) \/ RenderWrite(p) \/ Peek(p) \/ CheckOwner(p)
             \/ ArchiveSpec(p) \/ ArchivePlan(p) \/ ResetSpec(p) \/ ResetPlan(p)
      PROVE  LifecycleInv'
  BY <1>3, MintKeeps, SidecarsKeep, ReadsKeep, SlotsKeep, RenderKeeps, ArchivesKeep
<1>4. ASSUME NEW p \in Actors,
             \/ SweepNext(p) \/ SweepEnd(p) \/ ListRows(p) \/ ConsolidateNext(p)
             \/ ReconcileMergedNext(p) \/ ReconcileAllNext(p) \/ CallShip(p) \/ WalkEnd(p)
             \/ MigrateLock(p) \/ MigrateNext(p) \/ RenameWrite(p) \/ RenameMove(p)
             \/ MigrateEnd(p) \/ Die(p)
      PROVE  LifecycleInv'
  BY <1>4, WalksKeep, CallsKeep, MigrationKeeps, SidecarsKeep
<1>5. ASSUME \/ \E p \in Actors : Reap(p)
             \/ \E k \in Numbers : WriteSpec(k, k) \/ WriteSpec(k, Nil) \/ Stray(k)
             \/ WritePlan
             \/ \E s \in Slugs : Age(s)
      PROVE  LifecycleInv'
  BY <1>5, OthersKeep
<1> QED
  BY <1>1, <1>2, <1>3, <1>4, <1>5 DEF LifecycleNext

\* It holds throughout.
THEOREM LifecycleInvariant == LifecycleSpec => []LifecycleInv
<1> QED
  BY LifecycleInvInit, LifecycleInvStep, PTL DEF LifecycleSpec

\* Records whose files are apart have numbers of their own.
LEMMA ApartAreNumbered == LifecycleInv => OneNumberPerSpec
<1> SUFFICES ASSUME LifecycleInv PROVE OneNumberPerSpec
  OBVIOUS
<1>1. SUFFICES ASSUME NEW j \in Keys, NEW k \in Keys, sidecars[j] # Nil, sidecars[k] # Nil
               PROVE  LET a == sidecars[j] b == sidecars[k] IN
                      /\ a.id = b.id => a.slug = b.slug \/ {a.slug, b.slug} \subseteq Shared
                      /\ a.slug = b.slug /\ {a.id, b.id} \subseteq Numbers
                           => a.id = b.id \/ a.slug \in Shared
  BY DEF OneNumberPerSpec, Present
<1>2. \A i \in Keys : sidecars[i] # Nil =>
        /\ sidecars[i] \in Records /\ i \in KeysOf(sidecars[i])
        /\ sidecars[i].id \in KeysOf(sidecars[i])
  BY DEF LifecycleInv, LifecycleTypeOK, RecordsApart, Proper
<1>3. PICK a \in Records : /\ a = sidecars[j] /\ j \in KeysOf(a) /\ a.id \in KeysOf(a)
                           /\ a.slug \in Slugs
  BY <1>1, <1>2, RecordFacts
<1>4. PICK b \in Records : /\ b = sidecars[k] /\ k \in KeysOf(b) /\ b.id \in KeysOf(b)
                           /\ b.slug \in Slugs
  BY <1>1, <1>2, RecordFacts
<1>5. a.slug = b.slug /\ a.slug \notin Legacy => j = k
  BY <1>1, <1>3, <1>4 DEF LifecycleInv, RecordsApart
<1>6. a.id = b.id => a.slug = b.slug \/ {a.slug, b.slug} \subseteq Shared
  <2>1. CASE a.id = b.id /\ a.id \in Fresh
    <3>1. j = a.id /\ k = b.id
      BY <1>3, <1>4, <2>1, NewKeys
    <3> QED
      BY <1>3, <1>4, <2>1, <3>1
  <2>2. CASE a.id = b.id /\ a.id \notin Fresh
    <3>1. /\ a.slug \in Legacy /\ a.id \in {a.slug, Hint[a.slug]}
          /\ b.slug \in Legacy /\ a.id \in {b.slug, Hint[b.slug]}
      BY <1>3, <1>4, <2>2, NewKeys
    <3> QED
      BY <3>1, KeyFacts
  <2> QED
    BY <2>1, <2>2
<1>7. a.slug = b.slug /\ {a.id, b.id} \subseteq Numbers => a.id = b.id \/ a.slug \in Shared
  <2>1. CASE a.slug = b.slug /\ {a.id, b.id} \subseteq Numbers /\ a.slug \in Legacy \ Shared
    <3>1. a.id \in {a.slug, Hint[a.slug]} /\ b.id \in {a.slug, Hint[a.slug]}
      BY <1>3, <1>4, <2>1 DEF KeysOf, Old
    <3> QED
      BY <2>1, <3>1, KeyFacts
  <2>2. CASE a.slug = b.slug /\ a.slug \notin Legacy
    BY <1>3, <1>4, <1>5, <2>2
  <2> QED
    BY <2>1, <2>2
<1> QED
  BY <1>3, <1>4, <1>6, <1>7

\* A number names one spec and a spec has one number (D-153-01, D-153-05),
\* however starts, migrations, deaths and late writes interleave; but for old
\* specs whose number, as migrate_ids finds it, is that of another of them.
THEOREM NumbersNameOneSpec == LifecycleSpec => []OneNumberPerSpec
<1> QED
  BY LifecycleInvariant, ApartAreNumbered, PTL

\* The slot is blanked by the call that has filed its text.
LEMMA ClearsWhatIsFiled ==
    LifecycleInv /\ [LifecycleNext]_lifecycleVars =>
      [slot.spec # Blank /\ slot'.spec = Blank =>
         IF slot.id # Nil
         THEN \E s \in Slugs : archive[slot.id, s] # Nil /\ archive[slot.id, s].spec = slot.spec
         ELSE \E p \in Actors :
                LET r == acts[p].record filed == archive[Directory(r)] IN
                /\ acts[p].pc = "resetting"
                /\ filed # Nil /\ filed.spec \in {slot.spec, r.slug}]_lifecycleVars
<1> DEFINE Cleared(p) == acts[p].pc = "resetting" /\ CopyKept(slot, acts[p].record, archive)
<1> SUFFICES ASSUME LifecycleInv, LifecycleNext, slot.spec # Blank, slot'.spec = Blank
             PROVE  \E p \in Actors : Cleared(p)
  BY DEF CopyKept, Shelved
<1>1. slot' # slot
  OBVIOUS
<1>2. \/ \E p \in Actors : MirrorWrite(p) \/ ResetSpec(p) \/ ResetPlan(p)
      \/ \E k \in Numbers : WriteSpec(k, k) \/ WriteSpec(k, Nil)
      \/ WritePlan
  <2>1. UNCHANGED files => slot' = slot
    BY DEF files
  <2>2. ASSUME NEW p \in Actors,
               \/ \E s \in Slugs : StartNew(p, s)
               \/ \E k \in Keys : (\E verb \in DOMAIN Target : Move(p, verb, k)) \/ MarkShipped(p, k)
               \/ \E verb \in verbs : Sweep(p, verb) \/ Walk(p, verb)
               \/ Migrate(p)
        PROVE  FALSE
    BY <1>1, <2>1, <2>2 DEF StartNew, Move, MarkShipped, Sweep, Walk, Migrate, Begins
  <2>3. ASSUME NEW p \in Actors,
               \/ Mint(p) \/ MirrorRead(p) \/ RenderRead(p) \/ Peek(p) \/ CheckOwner(p)
               \/ SweepNext(p) \/ SweepEnd(p) \/ ListRows(p) \/ ConsolidateNext(p)
               \/ ReconcileMergedNext(p) \/ ReconcileAllNext(p) \/ CallShip(p) \/ WalkEnd(p)
               \/ MigrateLock(p) \/ MigrateNext(p) \/ MigrateEnd(p) \/ Die(p)
        PROVE  FALSE
    <3>1. UNCHANGED files
      BY <2>3 DEF Mint, MirrorRead, RenderRead, Peek, CheckOwner, SweepNext, SweepEnd,
         ListRows, ConsolidateNext, ReconcileMergedNext, ReconcileAllNext, CallShip, WalkEnd,
         MigrateLock, MigrateNext, MigrateEnd, Die
    <3> QED
      BY <1>1, <2>1, <3>1
  <2>4. ASSUME NEW p \in Actors,
               \/ WriteMinted(p) \/ WriteState(p) \/ RenderWrite(p) \/ ArchiveSpec(p)
               \/ ArchivePlan(p) \/ Reap(p) \/ RenameWrite(p) \/ RenameMove(p)
        PROVE  FALSE
    BY <1>1, <2>4 DEF WriteMinted, WriteState, RenderWrite, ArchiveSpec, ArchivePlan, Reap,
       RenameWrite, RenameMove
  <2>5. ASSUME \/ \E k \in Numbers : Stray(k)
               \/ \E s \in Slugs : Age(s)
        PROVE  FALSE
    BY <1>1, <2>1, <2>5 DEF Stray, Age
  <2> QED
    BY <2>2, <2>3, <2>4, <2>5 DEF LifecycleNext
<1>3. ASSUME NEW p \in Actors, MirrorWrite(p) PROVE FALSE
  <2>1. /\ acts[p].pc = "mirrored" /\ slot'.spec = acts[p].text.spec
        /\ TextFits(acts[p], slot, sidecars, archive)
    BY <1>3, OfActor DEF MirrorWrite, Slots
  <2> QED
    BY <2>1 DEF TextFits
<1>4. ASSUME NEW p \in Actors, ResetSpec(p) PROVE Cleared(p)
  <2>1. acts[p].pc = "resetting" /\ TextFits(acts[p], slot, sidecars, archive)
    BY <1>4, OfActor DEF ResetSpec
  <2>2. /\ acts[p].text.spec # Blank /\ CopyKept(acts[p].text, acts[p].record, archive)
        /\ slot.spec = acts[p].text.spec /\ slot.id = acts[p].text.id
    BY <2>1 DEF TextFits, Shelving
  <2> QED
    BY <2>1, <2>2 DEF CopyKept, Shelved
<1>5. ASSUME NEW p \in Actors, ResetPlan(p) PROVE FALSE
  BY <1>5, OfActor DEF ResetPlan, Slots
<1>6. ASSUME NEW k \in Numbers, NEW id, WriteSpec(k, id) PROVE FALSE
  <2>1. sidecars[k] \in Records /\ slot'.spec = sidecars[k].slug
    BY <1>6, FoundFits, KeyFacts DEF WriteSpec
  <2> QED
    BY <2>1, RecordFacts, KeyFacts
<1>7. ASSUME WritePlan PROVE FALSE
  BY <1>7 DEF WritePlan, LifecycleInv, LifecycleTypeOK, Slots
<1> QED
  BY <1>2, <1>3, <1>4, <1>5, <1>6, <1>7

\* spec.md is cleared only when the archive holds its text under its own id
\* (D-153-04, D-153-03), though the shipped record may be another's and two
\* calls may ship at once; a text without an id, when it has been filed with
\* the record shipped, whosever that is.
THEOREM ClearedTextIsFiled == LifecycleSpec => ClearedOnceArchived
<1> QED
  BY LifecycleInvariant, ClearsWhatIsFiled, PTL DEF LifecycleSpec, ClearedOnceArchived

-----------------------------------------------------------------------------
(***************************************************************************)
(* What a cleanup settles.  While a verb runs alone, its walk leaves       *)
(* settled what it is done with, but for the record that it is about to    *)
(* ship, to give up or to render.                                          *)
(***************************************************************************)
Rendering == {"rendering", "rendered"}
FilePoints == {"peeking"} \cup Shelving

OnlyOf(k, cars) ==
    /\ cars[k] # Nil /\ cars[k].id = k /\ cars[k].slug \notin Shared
    /\ \A j \in Keys : cars[j] # Nil /\ cars[j].slug = cars[k].slug => j = k

NotOpen(k, cars) == OnlyOf(k, cars) => cars[k].state \notin Open
NoneOpen(slug, cars) == \A k \in Keys : OnlyOf(k, cars) /\ cars[k].slug = slug => NotOpen(k, cars)
FiledOnce(slug, arch) == \E k \in Keys : {j \in Numbers : arch[j, slug] # Nil} = {k}
Settled(k, cars, table, arch) ==
    \/ NotOpen(k, cars)
    \/ k \notin table \cup Anchored /\ ~FiledOnce(cars[k].slug, arch)

ConsolidatesWell(call, cars, table) ==
    /\ call.pc \in {"sweeping", "writing", "listing", "walking"} \cup Rendering
    /\ ~call.fresh
    /\ call.pc = "writing" => call.next = "sweeping"
    /\ call.pc = "walking" => call.known \subseteq table
    /\ call.pc \in Rendering => call.record # Nil
    /\ call.pc = "rendered" => table \subseteq call.known /\ call.record.id \in call.known
    /\ call.pc \in {"walking"} \cup Rendering =>
         \A k \in Keys \ call.todo : cars[k] # Nil /\ cars[k].state = "shipped" =>
           \/ cars[k].id \in table
           \/ call.pc \in Rendering /\ cars[k].id = call.record.id

ReconcilesWell(call, cars, table, arch) ==
    /\ call.pc \in {"listing", "walking", "calling", "writing"} \cup Rendering \cup FilePoints
    /\ call.pc # "listing" => table \subseteq call.known
    /\ call.pc \in {"calling", "writing"} \cup Rendering \cup FilePoints => call.record # Nil
    /\ call.pc = "writing" => /\ call.record.state \in {"shipped", "abandoned"}
                              /\ call.next \in {"walking", "rendering"}
    /\ call.pc = "rendered" => call.known \subseteq table \cup {call.record.id}
    /\ call.pc \in Rendering \cup FilePoints => NoneOpen(call.record.slug, cars)
    /\ call.pc # "listing" => \A k \in Keys \ call.todo :
         \/ Settled(k, cars, table, arch)
         \/ call.pc \in {"calling", "writing"} /\ k = call.record.id

WalksWell(call, cars, table, arch) ==
    call.alone =>
      /\ call.pc # "idle"
      /\ call.verb = "consolidate_shipped" => ConsolidatesWell(call, cars, table)
      /\ call.verb = "reconcile_all" => ReconcilesWell(call, cars, table, arch)

CleanupInv ==
    \A p \in Actors : /\ acts[p].alone => \A q \in Actors \ {p} : ~Busy(q)
                      /\ WalksWell(acts[p], sidecars, rows, archive)

\* A call that is over claims nothing.
LEMMA IdleClaimsNothing ==
    Idle.alone = FALSE /\ \A cars, table, arch : WalksWell(Idle, cars, table, arch)
  BY DEF Idle, WalksWell

\* A verb begins: no other runs alone any more.
LEMMA BeginClean ==
    ASSUME LifecycleInv, CleanupInv, NEW p \in Actors, NEW verb, NEW call \in VerbCalls,
           Begins(p, verb, call), call.pc # "idle",
           verb = "consolidate_shipped" => call.pc \in {"sweeping", "listing"} /\ ~call.fresh,
           verb = "reconcile_all" => call.pc = "listing"
    PROVE  CleanupInv'
<1>1. /\ verb \in UNION VerbSets
      /\ sidecars' = sidecars /\ rows' = rows /\ archive' = archive
  BY DEF LifecycleInv, LifecycleTypeOK, Begins, files
<1>2. PICK alone \in BOOLEAN :
        /\ acts' = [q \in Actors |-> IF q = p THEN [call EXCEPT !.verb = verb, !.alone = alone]
                                     ELSE [acts[q] EXCEPT !.alone = FALSE]]
        /\ alone => \A q \in Actors \ {p} : ~Busy(q)
  <2>1. (\A r \in Actors \ {p} : ~Busy(r)) \in BOOLEAN
    OBVIOUS
  <2> QED
    BY <2>1 DEF Begins
<1> DEFINE new == [call EXCEPT !.verb = verb, !.alone = alone]
<1>3. /\ new.pc = call.pc /\ new.fresh = call.fresh /\ new.verb = verb /\ new.alone = alone
  BY <1>1 DEF VerbCalls
<1>4. acts'[p] = new
  BY <1>2
<1> HIDE DEF new
<1>5. ASSUME NEW q \in Actors \ {p}
      PROVE  acts'[q].pc = acts[q].pc /\ acts'[q].alone = FALSE
  <2>1. acts[q] \in VerbCalls /\ acts'[q] = [acts[q] EXCEPT !.alone = FALSE]
    BY <1>2, OfActor
  <2> QED
    BY <2>1 DEF VerbCalls
<1>6. WalksWell(new, sidecars, rows, archive)
  <2>1. verb = "consolidate_shipped" => ConsolidatesWell(new, sidecars, rows)
    BY <1>3 DEF ConsolidatesWell, Rendering
  <2>2. verb = "reconcile_all" => ReconcilesWell(new, sidecars, rows, archive)
    BY <1>3 DEF ReconcilesWell, Rendering, FilePoints, Shelving
  <2> QED
    BY <1>3, <2>1, <2>2 DEF WalksWell
<1>7. \A q \in Actors : WalksWell(acts'[q], sidecars, rows, archive)
  BY <1>4, <1>5, <1>6 DEF WalksWell
<1>8. \A q \in Actors : acts'[q].alone => \A r \in Actors \ {q} : acts'[r].pc = "idle"
  BY <1>2, <1>3, <1>4, <1>5 DEF Busy
<1> QED
  BY <1>1, <1>7, <1>8 DEF CleanupInv, Busy

\* Every verb that may begin.
LEMMA BeginsClean ==
    ASSUME LifecycleInv, CleanupInv, NEW p \in Actors,
           \/ \E s \in Slugs : StartNew(p, s)
           \/ \E k \in Keys : (\E verb \in DOMAIN Target : Move(p, verb, k)) \/ MarkShipped(p, k)
           \/ \E verb \in verbs : Sweep(p, verb) \/ Walk(p, verb)
           \/ Migrate(p)
    PROVE  CleanupInv'
<1>0. Present \in SUBSET Keys /\ rows \in SUBSET Keys /\ Blank \notin Legacy
  BY KeyFacts DEF LifecycleInv, LifecycleTypeOK, Present
<1>1. ASSUME NEW s \in Slugs, StartNew(p, s) PROVE CleanupInv'
  <2> DEFINE new == [Idle EXCEPT !.pc = "minting", !.slug = s]
  <2>1. new \in VerbCalls /\ new.pc = "minting"
    BY <1>0, IdleFits DEF Idle, VerbCalls, Points
  <2>2. Begins(p, "start_new", new)
    BY <1>1 DEF StartNew
  <2> HIDE DEF new
  <2> QED
    BY <2>1, <2>2, BeginClean
<1>2. ASSUME NEW k \in Keys, NEW verb \in DOMAIN Target, Move(p, verb, k) PROVE CleanupInv'
  <2>1. PICK r \in Finds(k) :
            Begins(p, verb, [Idle EXCEPT !.pc = "writing",
                !.record = [r EXCEPT !.state = Target[verb]],
                !.next = IF verb = "archive" THEN "idle" ELSE "mirroring"])
    BY <1>2 DEF Move
  <2>2. /\ r \in Records /\ IsOf(r, sidecars) /\ Target[verb] \in States
        /\ Target[verb] # "draft" /\ verb \in {"approve", "start", "archive"}
    BY FoundFits, StatesAre DEF Target
  <2>3. PICK q \in Records : q = [r EXCEPT !.state = Target[verb]]
    BY <2>2, Restated
  <2>4. PICK next \in {"idle", "mirroring"} :
            next = IF verb = "archive" THEN "idle" ELSE "mirroring"
    OBVIOUS
  <2> DEFINE new == [Idle EXCEPT !.pc = "writing", !.record = q, !.next = next]
  <2>5. new \in VerbCalls /\ new.pc = "writing"
    BY IdleFits DEF Idle, VerbCalls, Points, Nexts
  <2>6. Begins(p, verb, new)
    BY <2>1, <2>3, <2>4
  <2> HIDE DEF new
  <2> QED
    BY <2>2, <2>5, <2>6, BeginClean
<1>3. ASSUME NEW k \in Keys, MarkShipped(p, k) PROVE CleanupInv'
  <2>0. PICK r \in Finds(k) :
          \E pc \in Ships(r, TRUE) : Begins(p, "mark_shipped", Shipping(Idle, r, TRUE, pc))
    BY <1>3 DEF MarkShipped
  <2>1. PICK pc \in Ships(r, TRUE) : Begins(p, "mark_shipped", Shipping(Idle, r, TRUE, pc))
    BY <2>0
  <2>2. r \in Records /\ IsOf(r, sidecars)
    BY FoundFits
  <2>3. PICK new \in VerbCalls : /\ new = Shipping(Idle, r, TRUE, pc)
                                 /\ new.pc \in {"writing", "rendering"}
    BY <2>2, ShippingFits, IdleFits
  <2> QED
    BY <2>1, <2>3, BeginClean
<1>4. ASSUME NEW verb \in verbs, Sweep(p, verb) PROVE CleanupInv'
  <2> DEFINE new == [Idle EXCEPT !.pc = "sweeping", !.todo = Present, !.known = rows]
  <2>1. new \in VerbCalls /\ new.pc = "sweeping" /\ new.fresh = FALSE
    BY <1>0, IdleFits DEF Idle, VerbCalls, Points
  <2>2. Begins(p, verb, new) /\ verb # "reconcile_all"
    BY <1>4 DEF Sweep
  <2> HIDE DEF new
  <2> QED
    BY <2>1, <2>2, BeginClean
<1>5. ASSUME NEW verb \in verbs, Walk(p, verb) PROVE CleanupInv'
  <2>1. PICK pc \in {"listing", "rendering"} :
            /\ Begins(p, verb, [Idle EXCEPT !.pc = pc])
            /\ pc = "rendering" => verb = "migrate-history"
    BY <1>5 DEF Walk
  <2> DEFINE new == [Idle EXCEPT !.pc = pc]
  <2>2. new \in VerbCalls /\ new.pc = pc /\ new.fresh = FALSE
    BY IdleFits DEF Idle, VerbCalls, Points
  <2>3. Begins(p, verb, new)
    BY <2>1
  <2> HIDE DEF new
  <2> QED
    BY <2>1, <2>2, <2>3, BeginClean
<1>6. ASSUME Migrate(p) PROVE CleanupInv'
  <2> DEFINE new == [Idle EXCEPT !.pc = "locking"]
  <2>1. new \in VerbCalls /\ new.pc = "locking"
    BY IdleFits DEF Idle, VerbCalls, Points
  <2>2. Begins(p, "migrate_ids", new)
    BY <1>6 DEF Migrate
  <2> HIDE DEF new
  <2> QED
    BY <2>1, <2>2, BeginClean
<1> QED
  BY <1>1, <1>2, <1>3, <1>4, <1>5, <1>6

-----------------------------------------------------------------------------
\* A call goes on, under its own verb and in the company that it had.
CarriesOn(old, call) ==
    \/ call = Idle
    \/ call.pc # "idle" /\ call.verb = old.verb /\ call.alone = old.alone

\* What a step of one call has to show.
LEMMA CallClean ==
    ASSUME LifecycleInv, CleanupInv, NEW p \in Actors, Busy(p), NEW call,
           acts' = [acts EXCEPT ![p] = call], CarriesOn(acts[p], call),
           acts[p].alone /\ acts[p].verb = "consolidate_shipped" /\ call # Idle
             => ConsolidatesWell(call, sidecars', rows'),
           acts[p].alone /\ acts[p].verb = "reconcile_all" /\ call # Idle
             => ReconcilesWell(call, sidecars', rows', archive')
    PROVE  CleanupInv'
<1>1. acts'[p] = call /\ \A q \in Actors \ {p} : acts'[q] = acts[q]
  BY DEF LifecycleInv, LifecycleTypeOK
<1>2. WalksWell(call, sidecars', rows', archive')
  BY IdleClaimsNothing DEF WalksWell, CarriesOn
<1>3. \A q \in Actors \ {p} : ~acts[q].alone
  BY DEF CleanupInv
<1>4. call.alone => acts[p].alone
  BY IdleClaimsNothing DEF CarriesOn
<1>5. \A q \in Actors : WalksWell(acts'[q], sidecars', rows', archive')
  BY <1>1, <1>2, <1>3 DEF CleanupInv, WalksWell
<1>6. \A q \in Actors : acts'[q].alone => \A r \in Actors \ {q} : acts'[r].pc = "idle"
  BY <1>1, <1>3, <1>4 DEF CleanupInv, Busy
<1> QED
  BY <1>5, <1>6 DEF CleanupInv, Busy

\* A call that is done with a record goes on, as long as it is in a walk.
LEMMA BackGoesOn ==
    ASSUME NEW call \in VerbCalls
    PROVE  CarriesOn(call, Back(call))
<1>1. CASE call.verb \in Walks
  <2> DEFINE back == [call EXCEPT !.pc = "walking", !.record = Nil, !.fresh = FALSE]
  <2>1. back.pc = "walking" /\ back.verb = call.verb /\ back.alone = call.alone
    BY DEF VerbCalls
  <2>2. Back(call) = back
    BY <1>1 DEF Back
  <2> HIDE DEF back
  <2> QED
    BY <2>1, <2>2 DEF CarriesOn
<1>2. CASE call.verb \notin Walks
  BY <1>2 DEF Back, CarriesOn
<1> QED
  BY <1>1, <1>2

\* The steps of calls that do not write a record.
Reading(p) ==
    \/ Mint(p) \/ MirrorRead(p) \/ MirrorWrite(p) \/ RenderRead(p) \/ RenderWrite(p)
    \/ Peek(p) \/ CheckOwner(p) \/ ArchiveSpec(p) \/ ArchivePlan(p) \/ ResetSpec(p) \/ ResetPlan(p)
    \/ SweepNext(p) \/ SweepEnd(p) \/ ListRows(p) \/ ConsolidateNext(p)
    \/ ReconcileMergedNext(p) \/ ReconcileAllNext(p) \/ CallShip(p) \/ WalkEnd(p)
    \/ MigrateLock(p) \/ MigrateNext(p) \/ MigrateEnd(p) \/ Die(p)
Writing(p) == WriteMinted(p) \/ WriteState(p) \/ RenameWrite(p) \/ RenameMove(p)

\* What every step of a call under way keeps, walk or not.
LEMMA StepsGoOn ==
    ASSUME LifecycleInv, NEW p \in Actors, Reading(p) \/ Writing(p)
    PROVE  /\ acts' = [acts EXCEPT ![p] = acts'[p]] /\ Busy(p)
           /\ CarriesOn(acts[p], acts'[p])
<1> DEFINE old == acts[p]
           Fine == \E call : Goes(p, call) /\ CarriesOn(old, call)
<1>1. old \in VerbCalls /\ acts \in [Actors -> VerbCalls]
  BY DEF LifecycleInv, LifecycleTypeOK
<1>2. ASSUME NEW call, Goes(p, call), CarriesOn(old, call) PROVE Fine
  BY <1>2
<1>3. ASSUME Goes(p, Idle) PROVE Fine
  BY <1>3 DEF CarriesOn
<1>4. ASSUME NEW pc, pc # "idle", To(p, pc) \/ Goes(p, [old EXCEPT !.pc = pc]) PROVE Fine
  <2> DEFINE new == [old EXCEPT !.pc = pc]
  <2>1. new.pc = pc /\ new.verb = old.verb /\ new.alone = old.alone
    BY <1>1 DEF VerbCalls
  <2>2. Goes(p, new)
    BY <1>1, <1>4 DEF To, Goes
  <2> HIDE DEF new
  <2> QED
    BY <1>4, <2>1, <2>2 DEF CarriesOn
<1>5. ASSUME Goes(p, Back(old)) PROVE Fine
  BY <1>1, <1>5, BackGoesOn
<1>6. ASSUME NEW k, Skips(p, k), old.pc # "idle" PROVE Fine
  <2> DEFINE new == [old EXCEPT !.todo = @ \ {k}]
  <2>1. new.pc = old.pc /\ new.verb = old.verb /\ new.alone = old.alone
    BY <1>1 DEF VerbCalls
  <2>2. Goes(p, new)
    BY <1>6 DEF Skips
  <2> HIDE DEF new
  <2> QED
    BY <1>6, <2>1, <2>2 DEF CarriesOn
<1>7. ASSUME NEW k, NEW pc \in {"rendering", "calling", "renaming"}, NEW record,
             Goes(p, [old EXCEPT !.todo = @ \ {k}, !.pc = pc, !.record = record])
      PROVE  Fine
  <2> DEFINE new == [old EXCEPT !.todo = @ \ {k}, !.pc = pc, !.record = record]
  <2>1. new.pc = pc /\ new.verb = old.verb /\ new.alone = old.alone
    BY <1>1 DEF VerbCalls
  <2>2. Goes(p, new)
    BY <1>7
  <2> HIDE DEF new
  <2> QED
    BY <2>1, <2>2 DEF CarriesOn
<1>8. ASSUME NEW k, NEW next, Abandons(p, k, next) PROVE Fine
  <2> DEFINE record == [sidecars[k] EXCEPT !.state = "abandoned"]
             new == [old EXCEPT !.todo = @ \ {k}, !.pc = "writing", !.next = next,
                                !.record = record]
  <2>1. Goes(p, new)
    BY <1>8 DEF Abandons
  <2> HIDE DEF record
  <2>2. new.pc = "writing" /\ new.verb = old.verb /\ new.alone = old.alone
    BY <1>1 DEF VerbCalls
  <2> HIDE DEF new
  <2> QED
    BY <2>1, <2>2 DEF CarriesOn
<1> HIDE DEF Fine
<1>9. ASSUME \/ WalkEnd(p) \/ MigrateEnd(p) \/ Die(p) \/ WriteMinted(p) \/ MirrorWrite(p)
      PROVE  Fine
  BY <1>3, <1>9 DEF WalkEnd, MigrateEnd, Die, WriteMinted, MirrorWrite
<1>10. ASSUME Mint(p), ~Goes(p, Idle) PROVE Fine
  <2>1. PICK n \in Numbers : Takes(p, n)
    BY <1>10 DEF Mint
  <2>2. PICK r : r = Drafted(n, old.slug)
    OBVIOUS
  <2> DEFINE new == [old EXCEPT !.pc = "minted", !.record = r]
  <2>3. new.pc = "minted" /\ new.verb = old.verb /\ new.alone = old.alone
    BY <1>1 DEF VerbCalls
  <2>4. Goes(p, new)
    BY <2>1, <2>2 DEF Takes
  <2> HIDE DEF new
  <2> QED
    BY <1>2, <2>3, <2>4 DEF CarriesOn
<1>11. ASSUME MirrorRead(p) \/ Peek(p), ~Goes(p, Idle), ~Goes(p, Back(old)) PROVE Fine
  <2>1. PICK pc \in {"mirrored", "checking"} : Goes(p, [old EXCEPT !.pc = pc, !.text = slot])
    BY <1>11 DEF MirrorRead, Peek
  <2> DEFINE new == [old EXCEPT !.pc = pc, !.text = slot]
  <2>2. new.pc = pc /\ new.verb = old.verb /\ new.alone = old.alone
    BY <1>1 DEF VerbCalls
  <2>3. Goes(p, new)
    BY <2>1
  <2> HIDE DEF new
  <2> QED
    BY <1>2, <2>2, <2>3 DEF CarriesOn
<1>12. ASSUME NEW pc \in {"rendered", "walking", "migrating"}, NEW known, NEW todo,
              Goes(p, [old EXCEPT !.pc = pc, !.known = known, !.todo = todo])
       PROVE  Fine
  <2> DEFINE new == [old EXCEPT !.pc = pc, !.known = known, !.todo = todo]
  <2>1. new.pc = pc /\ new.verb = old.verb /\ new.alone = old.alone
    BY <1>1 DEF VerbCalls
  <2>2. Goes(p, new)
    BY <1>12
  <2> HIDE DEF new
  <2> QED
    BY <1>2, <2>1, <2>2 DEF CarriesOn
<1>13. ASSUME RenderRead(p) PROVE Fine
  <2>1. PICK known : known = rows \cup (IF old.record = Nil THEN {} ELSE {old.record.id})
    OBVIOUS
  <2>2. [old EXCEPT !.pc = "rendered", !.known = known] =
          [old EXCEPT !.pc = "rendered", !.known = known, !.todo = old.todo]
    BY <1>1 DEF VerbCalls
  <2>3. Goes(p, [old EXCEPT !.pc = "rendered", !.known = known, !.todo = old.todo])
    BY <1>13, <2>1, <2>2 DEF RenderRead
  <2> HIDE DEF old
  <2> QED
    BY <1>12, <2>3
<1>14. ASSUME ListRows(p) PROVE Fine
  BY <1>12, <1>14 DEF ListRows
<1>15. ASSUME MigrateLock(p) PROVE Fine
  <2>1. [old EXCEPT !.pc = "migrating", !.todo = Present] =
          [old EXCEPT !.pc = "migrating", !.known = old.known, !.todo = Present]
    BY <1>1 DEF VerbCalls
  <2>2. Goes(p, [old EXCEPT !.pc = "migrating", !.known = old.known, !.todo = Present])
    BY <1>15, <2>1 DEF MigrateLock
  <2> HIDE DEF old
  <2> QED
    BY <1>12, <2>2
<1>16. ASSUME RenderWrite(p) \/ CheckOwner(p) \/ SweepEnd(p) \/ ResetPlan(p) PROVE Fine
  <2>1. \/ Goes(p, Idle) \/ Goes(p, Back(old))
        \/ \E pc \in {"peeking", "archiving", "listing"} : Goes(p, [old EXCEPT !.pc = pc])
    BY <1>16 DEF RenderWrite, CheckOwner, SweepEnd, ResetPlan
  <2> QED
    BY <1>3, <1>4, <1>5, <2>1
<1>17. ASSUME ArchiveSpec(p) \/ ArchivePlan(p) \/ ResetSpec(p) \/ RenameWrite(p) \/ RenameMove(p)
       PROVE  Fine
  <2>1. PICK pc \in {"planning", "resetting", "clearing", "renamed", "migrating"} : To(p, pc)
    BY <1>17 DEF ArchiveSpec, ArchivePlan, ResetSpec, RenameWrite, RenameMove
  <2> QED
    BY <1>4, <2>1
<1>18. ASSUME \/ SweepNext(p) \/ ConsolidateNext(p) \/ ReconcileMergedNext(p)
              \/ ReconcileAllNext(p) \/ MigrateNext(p)
       PROVE  Fine
  <2>1. old.pc # "idle"
    BY <1>18 DEF SweepNext, ConsolidateNext, ReconcileMergedNext, ReconcileAllNext, MigrateNext
  <2>2. CASE SweepNext(p)
    BY <1>6, <1>8, <2>1, <2>2 DEF SweepNext
  <2>3. CASE ConsolidateNext(p)
    BY <1>6, <1>7, <2>1, <2>3 DEF ConsolidateNext
  <2>4. CASE ReconcileMergedNext(p)
    BY <1>6, <1>7, <2>1, <2>4 DEF ReconcileMergedNext
  <2>5. CASE ReconcileAllNext(p)
    BY <1>6, <1>7, <1>8, <2>1, <2>5 DEF ReconcileAllNext
  <2>6. CASE MigrateNext(p)
    BY <1>6, <1>7, <2>1, <2>6 DEF MigrateNext
  <2> QED
    BY <1>18, <2>2, <2>3, <2>4, <2>5, <2>6
<1>19. ASSUME CallShip(p), ~Goes(p, Idle) PROVE Fine
  <2>1. PICK r \in Finds(old.record.id), pr \in BOOLEAN :
          \E pc \in Ships(r, pr) : Goes(p, Shipping(old, r, pr, pc))
    BY <1>19 DEF CallShip
  <2>2. PICK pc \in Ships(r, pr) : Goes(p, Shipping(old, r, pr, pc))
    BY <2>1
  <2> DEFINE new == Shipping(old, r, pr, pc)
  <2>3. new.pc = pc /\ new.verb = old.verb /\ new.alone = old.alone
    BY <1>1 DEF VerbCalls, Shipping
  <2>4. pc # "idle" /\ Goes(p, new)
    BY <2>2 DEF Ships
  <2> HIDE DEF new
  <2> QED
    BY <1>2, <2>3, <2>4 DEF CarriesOn
<1>20. ASSUME WriteState(p) PROVE Fine
  <2>1. Goes(p, Idle) \/ (old.next # "idle" /\ Goes(p, [old EXCEPT !.pc = old.next]))
    BY <1>20 DEF WriteState
  <2> QED
    BY <1>3, <1>4, <2>1
<1>21. Fine
  BY <1>3, <1>5, <1>9, <1>10, <1>11, <1>13, <1>14, <1>15, <1>16, <1>17, <1>18, <1>19, <1>20
  DEF Reading, Writing
<1>22. Busy(p)
  BY DEF Reading, Writing, Busy, Mint, MirrorRead, MirrorWrite, RenderRead, RenderWrite,
     Peek, CheckOwner, ArchiveSpec, ArchivePlan, ResetSpec, ResetPlan, SweepNext, SweepEnd,
     ListRows, ConsolidateNext, ReconcileMergedNext, ReconcileAllNext, CallShip, WalkEnd,
     MigrateLock, MigrateNext, MigrateEnd, Die, WriteMinted, WriteState, RenameWrite, RenameMove
<1>23. PICK call : Goes(p, call) /\ CarriesOn(old, call)
  BY <1>21 DEF Fine
<1>24. acts' = [acts EXCEPT ![p] = call] /\ acts'[p] = call
  BY <1>1, <1>23 DEF Goes
<1> QED
  BY <1>22, <1>23, <1>24

-----------------------------------------------------------------------------
\* A consolidation keeps what its walk has settled.
LEMMA ConsolidationGoesOn ==
    ASSUME LifecycleInv, NEW p \in Actors, Reading(p) \/ Writing(p),
           acts[p].verb = "consolidate_shipped", ConsolidatesWell(acts[p], sidecars, rows),
           acts'[p] # Idle
    PROVE  ConsolidatesWell(acts'[p], sidecars', rows')
<1> DEFINE old == acts[p]
<1>1. old \in VerbCalls /\ acts \in [Actors -> VerbCalls] /\ old.todo \subseteq Keys
  BY OfActor DEF LifecycleInv, LifecycleTypeOK
<1>2. /\ old.pc \in {"sweeping", "writing", "listing", "walking"} \cup Rendering /\ old.fresh = FALSE
      /\ old.pc = "writing" => old.next = "sweeping"
      /\ old.pc = "walking" => old.known \subseteq rows
      /\ old.pc \in Rendering => old.record # Nil
      /\ old.pc = "rendered" => rows \subseteq old.known /\ old.record.id \in old.known
      /\ old.verb = "consolidate_shipped"
  BY <1>1 DEF ConsolidatesWell, VerbCalls
<1>3. old.pc \in {"walking"} \cup Rendering =>
        \A k \in Keys \ old.todo : sidecars[k] # Nil /\ sidecars[k].state = "shipped" =>
          \/ sidecars[k].id \in rows
          \/ old.pc \in Rendering /\ sidecars[k].id = old.record.id
  BY DEF ConsolidatesWell
<1>4. \A call : Goes(p, call) => acts'[p] = call
  BY <1>1 DEF Goes
<1>5. \A pc : To(p, pc) => acts'[p] = [old EXCEPT !.pc = pc]
  BY <1>1 DEF To
<1>6. \/ SweepNext(p) \/ WriteState(p) \/ SweepEnd(p) \/ ListRows(p) \/ ConsolidateNext(p)
      \/ RenderRead(p) \/ RenderWrite(p)
  <2>1. ~(WalkEnd(p) \/ MigrateEnd(p) \/ Die(p))
    BY <1>4 DEF WalkEnd, MigrateEnd, Die
  <2>2. ~(Mint(p) \/ MirrorRead(p) \/ MirrorWrite(p) \/ Peek(p) \/ CheckOwner(p)
          \/ ArchiveSpec(p) \/ ArchivePlan(p) \/ ResetSpec(p) \/ ResetPlan(p)
          \/ ReconcileMergedNext(p) \/ ReconcileAllNext(p) \/ CallShip(p)
          \/ MigrateLock(p) \/ MigrateNext(p) \/ WriteMinted(p) \/ RenameWrite(p)
          \/ RenameMove(p))
    BY <1>2 DEF Rendering, Mint, MirrorRead, MirrorWrite, Peek, CheckOwner, ArchiveSpec,
       ArchivePlan, ResetSpec, ResetPlan, ReconcileMergedNext, ReconcileAllNext, CallShip,
       MigrateLock, MigrateNext, WriteMinted, RenameWrite, RenameMove
  <2> QED
    BY <2>1, <2>2 DEF Reading, Writing
<1>7. CASE SweepNext(p)
  <2>1. old.pc = "sweeping" /\ sidecars' = sidecars /\ rows' = rows
    BY <1>7 DEF SweepNext, files
  <2>2. PICK k \in old.todo : Skips(p, k) \/ Abandons(p, k, "sweeping")
    BY <1>7 DEF SweepNext
  <2>3. CASE Skips(p, k)
    <3>1. acts'[p] = [old EXCEPT !.todo = @ \ {k}]
      BY <1>4, <2>3 DEF Skips
    <3>2. acts'[p].pc = "sweeping" /\ acts'[p].fresh = FALSE
      BY <1>1, <1>2, <2>1, <3>1 DEF VerbCalls
    <3> QED
      BY <3>2 DEF ConsolidatesWell, Rendering
  <2>4. CASE Abandons(p, k, "sweeping")
    <3>1. acts'[p] = [old EXCEPT !.todo = @ \ {k}, !.pc = "writing", !.next = "sweeping",
                                 !.record = [sidecars[k] EXCEPT !.state = "abandoned"]]
      BY <1>4, <2>4 DEF Abandons
    <3>2. acts'[p].pc = "writing" /\ acts'[p].fresh = FALSE /\ acts'[p].next = "sweeping"
      BY <1>1, <1>2, <2>1, <3>1 DEF VerbCalls
    <3> QED
      BY <3>2 DEF ConsolidatesWell, Rendering
  <2> QED
    BY <2>2, <2>3, <2>4
<1>8. CASE WriteState(p) \/ SweepEnd(p)
  <2>1. PICK pc \in {"sweeping", "listing"} : acts'[p] = [old EXCEPT !.pc = pc]
    BY <1>2, <1>4, <1>8 DEF WriteState, SweepEnd
  <2>2. acts'[p].pc = pc /\ acts'[p].fresh = FALSE
    BY <1>1, <1>2, <2>1 DEF VerbCalls
  <2> QED
    BY <2>2 DEF ConsolidatesWell, Rendering
<1>9. CASE ListRows(p)
  <2>1. sidecars' = sidecars /\ rows' = rows
    BY <1>9 DEF ListRows, files
  <2>2. acts'[p] = [old EXCEPT !.pc = "walking", !.known = rows, !.todo = Present]
    BY <1>4, <1>9 DEF ListRows
  <2>3. /\ acts'[p].pc = "walking" /\ acts'[p].fresh = FALSE /\ acts'[p].known = rows
        /\ acts'[p].todo = Present
    BY <1>1, <1>2, <2>2 DEF VerbCalls
  <2>4. \A k \in Keys \ Present : sidecars[k] = Nil
    BY DEF Present
  <2> QED
    BY <2>1, <2>3, <2>4 DEF ConsolidatesWell, Rendering
<1>10. CASE ConsolidateNext(p)
  <2>1. sidecars' = sidecars /\ rows' = rows /\ old.pc = "walking"
    BY <1>10 DEF ConsolidateNext, files
  <2>2. PICK k \in old.todo :
          \/ Skips(p, k) /\ ~(sidecars[k] # Nil /\ sidecars[k].state = "shipped"
                              /\ sidecars[k].id \notin old.known)
          \/ /\ sidecars[k] # Nil
             /\ Goes(p, [old EXCEPT !.todo = @ \ {k}, !.pc = "rendering", !.record = sidecars[k]])
    BY <1>10 DEF ConsolidateNext
  <2>3. CASE /\ Skips(p, k)
             /\ ~(sidecars[k] # Nil /\ sidecars[k].state = "shipped"
                  /\ sidecars[k].id \notin old.known)
    <3>1. acts'[p] = [old EXCEPT !.todo = @ \ {k}]
      BY <1>4, <2>3 DEF Skips
    <3>2. /\ acts'[p].pc = "walking" /\ acts'[p].fresh = FALSE /\ acts'[p].known = old.known
          /\ acts'[p].todo = old.todo \ {k}
      BY <1>1, <1>2, <2>1, <3>1 DEF VerbCalls
    <3>3. \A j \in Keys \ acts'[p].todo : sidecars[j] # Nil /\ sidecars[j].state = "shipped"
            => sidecars[j].id \in rows
      BY <1>2, <1>3, <2>1, <2>3, <3>2 DEF Rendering
    <3> QED
      BY <1>2, <2>1, <3>2, <3>3 DEF ConsolidatesWell, Rendering
  <2>4. CASE /\ sidecars[k] # Nil
             /\ Goes(p, [old EXCEPT !.todo = @ \ {k}, !.pc = "rendering", !.record = sidecars[k]])
    <3>1. acts'[p] = [old EXCEPT !.todo = @ \ {k}, !.pc = "rendering", !.record = sidecars[k]]
      BY <1>4, <2>4
    <3>2. /\ acts'[p].pc = "rendering" /\ acts'[p].fresh = FALSE
          /\ acts'[p].todo = old.todo \ {k} /\ acts'[p].record = sidecars[k]
      BY <1>1, <1>2, <3>1 DEF VerbCalls
    <3>3. \A j \in Keys \ acts'[p].todo : sidecars[j] # Nil /\ sidecars[j].state = "shipped"
            => sidecars[j].id \in rows \/ sidecars[j].id = acts'[p].record.id
      BY <1>3, <2>1, <3>2 DEF Rendering
    <3> QED
      BY <2>1, <2>4, <3>2, <3>3 DEF ConsolidatesWell, Rendering
  <2> QED
    BY <2>2, <2>3, <2>4
<1>11. CASE RenderRead(p)
  <2>1. sidecars' = sidecars /\ rows' = rows /\ old.pc = "rendering" /\ old.record # Nil
    BY <1>2, <1>11 DEF RenderRead, files, Rendering
  <2>2. acts'[p] = [old EXCEPT !.pc = "rendered", !.known = rows \cup {old.record.id}]
    BY <1>4, <1>11, <2>1 DEF RenderRead
  <2>3. /\ acts'[p].pc = "rendered" /\ acts'[p].fresh = FALSE
        /\ acts'[p].known = rows \cup {old.record.id}
        /\ acts'[p].todo = old.todo /\ acts'[p].record = old.record
    BY <1>1, <1>2, <2>2 DEF VerbCalls
  <2> QED
    BY <1>3, <2>1, <2>3 DEF ConsolidatesWell, Rendering
<1>12. CASE RenderWrite(p)
  <2>1. sidecars' = sidecars /\ rows' = old.known /\ old.pc = "rendered"
    BY <1>12 DEF RenderWrite
  <2>2. acts'[p] = [old EXCEPT !.pc = "walking", !.record = Nil, !.fresh = FALSE]
    BY <1>2, <1>4, <1>12 DEF RenderWrite, Back, Walks
  <2>3. /\ acts'[p].pc = "walking" /\ acts'[p].fresh = FALSE /\ acts'[p].known = old.known
        /\ acts'[p].todo = old.todo
    BY <1>1, <2>2 DEF VerbCalls
  <2>4. \A j \in Keys \ old.todo : sidecars[j] # Nil /\ sidecars[j].state = "shipped"
          => sidecars[j].id \in old.known
    BY <1>2, <1>3, <2>1 DEF Rendering
  <2> QED
    BY <2>1, <2>3, <2>4 DEF ConsolidatesWell, Rendering
<1> QED
  BY <1>6, <1>7, <1>8, <1>9, <1>10, <1>11, <1>12


-----------------------------------------------------------------------------
\* Where a spec's record is kept there is no other's, unless both are old specs
\* for which the same number is found.
LEMMA PlaceOfSpec ==
    ASSUME LifecycleInv, NEW r, IsOf(r, sidecars), NEW k \in KeysOf(r), sidecars[k] # Nil
    PROVE  sidecars[k].slug = r.slug \/ sidecars[k].slug \in Shared
<1>1. sidecars \in Cabinets /\ RecordsApart(sidecars) /\ r \in Records /\ k \in Keys
  BY RecordFacts DEF LifecycleInv, LifecycleTypeOK, Cabinets, IsOf
<1>2. CASE k \in Fresh
  BY <1>1, <1>2, OneSpecPerNumber
<1>3. CASE k \notin Fresh
  <2>1. PICK q \in Records : q = sidecars[k] /\ k \in KeysOf(q)
    BY <1>1 DEF Cabinets, RecordsApart
  <2>2. /\ r.slug \in Legacy /\ k \in {r.slug, Hint[r.slug]}
        /\ q.slug \in Legacy /\ k \in {q.slug, Hint[q.slug]}
    BY <1>1, <1>3, <2>1, NewKeys
  <2> QED
    BY <2>1, <2>2, KeyFacts
<1> QED
  BY <1>2, <1>3

\* So what is written of a spec makes no other the only one under its id.
LEMMA OthersOnlyStay ==
    ASSUME LifecycleInv, NEW r, IsOf(r, sidecars), NEW new,
           new = [sidecars EXCEPT ![r.id] = r], NEW k \in Keys, k # r.id, OnlyOf(k, new)
    PROVE  OnlyOf(k, sidecars) /\ new[k] = sidecars[k]
<1>1. r \in Records /\ r # Nil /\ r.id \in Keys /\ r.id \in KeysOf(r)
  BY RecordFacts DEF IsOf, Proper
<1>2. new[r.id] = r /\ \A j \in Keys \ {r.id} : new[j] = sidecars[j]
  BY <1>1, OfActor DEF LifecycleInv, LifecycleTypeOK
<1>3. r.slug # sidecars[k].slug
  BY <1>1, <1>2 DEF OnlyOf
<1>4. sidecars[r.id] # Nil => sidecars[r.id].slug # sidecars[k].slug
  BY <1>1, <1>2, <1>3, PlaceOfSpec DEF OnlyOf
<1> QED
  BY <1>2, <1>4 DEF OnlyOf

\* A record that a walk is about to ship, by its id, and the record that
\* mark_shipped finds under that id: this is the one under the id, or the id
\* is none of a spec with one open record; one that is not open leaves no
\* record of its spec that is.
LEMMA ShippedIsFound ==
    ASSUME LifecycleInv, NEW k \in Keys, NEW r \in Finds(k)
    PROVE  /\ NotOpen(k, sidecars) \/ (r = sidecars[k] /\ r.id = k)
           /\ r.state \notin Open => NoneOpen(r.slug, sidecars) /\ NotOpen(k, sidecars)
<1>1. PICK j \in Keys : sidecars[j] # Nil /\ r = sidecars[j] /\ (sidecars[k] # Nil => j = k)
  BY DEF Finds, Present
<1>2. NotOpen(k, sidecars) \/ (r = sidecars[k] /\ r.id = k)
  BY <1>1 DEF NotOpen, OnlyOf
<1>3. r.state \notin Open => NoneOpen(r.slug, sidecars)
  BY <1>1 DEF NoneOpen, NotOpen, OnlyOf
<1> QED
  BY <1>2, <1>3 DEF NotOpen

\* A step of the filing leaves settled what is settled.
LEMMA FilingLeavesSettled ==
    ASSUME LifecycleInv, NEW p \in Actors, ArchiveSpec(p) \/ ArchivePlan(p),
           NoneOpen(acts[p].record.slug, sidecars),
           NEW k \in Keys, Settled(k, sidecars, rows, archive)
    PROVE  Settled(k, sidecars, rows, archive')
<1> DEFINE old == acts[p]
<1>1. SUFFICES ASSUME ~NotOpen(k, sidecars)
               PROVE  FiledOnce(sidecars[k].slug, archive) <=> FiledOnce(sidecars[k].slug, archive')
  BY DEF Settled
<1>2. sidecars[k].slug # old.record.slug
  BY <1>1 DEF NoneOpen, NotOpen
<1>3. PICK d : d = Directory(old.record) /\ d[2] = old.record.slug
  <2>1. Directory(old.record)[2] = old.record.slug
    BY DEF Directory
  <2> QED
    BY <2>1
<1>4. PICK filing : archive' = [archive EXCEPT ![d] = filing]
  <2>1. CASE ArchiveSpec(p)
    <3>1. PICK f : f = [Filed(d) EXCEPT !.spec = old.text.spec]
      OBVIOUS
    <3> QED
      BY <1>3, <2>1, <3>1 DEF ArchiveSpec
  <2>2. CASE ArchivePlan(p)
    <3>1. PICK f : f = [archive[d] EXCEPT !.plan = slot.plan]
      OBVIOUS
    <3> QED
      BY <1>3, <2>2, <3>1 DEF ArchivePlan
  <2> QED
    BY <2>1, <2>2
<1>5. archive \in [Directories -> Filings \cup {Nil}]
  BY DEF LifecycleInv, LifecycleTypeOK, Archives
<1>6. \A e \in Directories : e # d => archive'[e] = archive[e]
  BY <1>4, <1>5
<1>7. sidecars[k].slug \in Slugs
  BY <1>1, FoundFits, RecordFacts DEF NotOpen, OnlyOf
<1>8. \A j \in Numbers : archive'[j, sidecars[k].slug] = archive[j, sidecars[k].slug]
  <2>1. SUFFICES ASSUME NEW j \in Numbers
                 PROVE  archive'[j, sidecars[k].slug] = archive[j, sidecars[k].slug]
    OBVIOUS
  <2>2. PICK e \in Directories : e = <<j, sidecars[k].slug>> /\ e[2] = sidecars[k].slug
    BY <1>7, DirectoryFacts
  <2> QED
    BY <1>2, <1>3, <1>6, <2>2
<1>9. {j \in Numbers : archive[j, sidecars[k].slug] # Nil}
        = {j \in Numbers : archive'[j, sidecars[k].slug] # Nil}
  BY <1>8
<1> QED
  BY <1>9 DEF FiledOnce

\* A reconciliation keeps what its walk has settled.
LEMMA ReconciliationGoesOn ==
    ASSUME LifecycleInv, NEW p \in Actors, Reading(p) \/ Writing(p),
           acts[p].verb = "reconcile_all",
           ReconcilesWell(acts[p], sidecars, rows, archive), acts'[p] # Idle
    PROVE  ReconcilesWell(acts'[p], sidecars', rows', archive')
<1> DEFINE old == acts[p]
           new == acts'[p]
           Reaches(call, cars, table, arch) ==
             \A k \in Keys \ call.todo :
               \/ Settled(k, cars, table, arch)
               \/ call.pc \in {"calling", "writing"} /\ k = call.record.id
<1> USE DEF Rendering, FilePoints, Shelving
<1>1. /\ old \in VerbCalls /\ acts \in [Actors -> VerbCalls] /\ old.todo \subseteq Keys
      /\ old.verb = "reconcile_all" /\ rows \subseteq Keys
  BY OfActor DEF LifecycleInv, LifecycleTypeOK
<1>2. /\ old.pc \in {"listing", "walking", "calling", "writing"} \cup Rendering \cup FilePoints
      /\ old.pc # "listing" => rows \subseteq old.known
      /\ old.pc \in {"calling", "writing"} \cup Rendering \cup FilePoints => old.record # Nil
      /\ old.pc = "writing" => /\ old.record.state \in {"shipped", "abandoned"}
                               /\ old.next \in {"walking", "rendering"}
      /\ old.pc = "rendered" => old.known \subseteq rows \cup {old.record.id}
      /\ old.pc \in Rendering \cup FilePoints => NoneOpen(old.record.slug, sidecars)
      /\ old.pc # "listing" => Reaches(old, sidecars, rows, archive)
  BY DEF ReconcilesWell
<1>3. \A call : Goes(p, call) => new = call
  BY <1>1 DEF Goes
<1>4. \A pc : To(p, pc) => new = [old EXCEPT !.pc = pc]
  BY <1>1 DEF To
<1>5. old.record # Nil => old.record \in Records /\ old.record.id \in Keys
  BY OfActor, RecordFacts
<1>6. ASSUME NEW cars, NEW table, NEW arch, table \subseteq old.known,
             old.pc \notin {"listing", "calling", "writing"}, new = Back(old),
             Reaches(old, cars, table, arch)
      PROVE  ReconcilesWell(new, cars, table, arch)
  <2>1. new = [old EXCEPT !.pc = "walking", !.record = Nil, !.fresh = FALSE]
    BY <1>1, <1>6 DEF Back, Walks
  <2>2. new.pc = "walking" /\ new.known = old.known /\ new.todo = old.todo
    BY <1>1, <2>1 DEF VerbCalls
  <2> QED
    BY <1>6, <2>2 DEF ReconcilesWell
<1>7. \/ ListRows(p) \/ ReconcileAllNext(p) \/ CallShip(p) \/ WriteState(p)
      \/ RenderRead(p) \/ RenderWrite(p) \/ Peek(p) \/ CheckOwner(p)
      \/ ArchiveSpec(p) \/ ArchivePlan(p) \/ ResetSpec(p) \/ ResetPlan(p)
  <2>1. ~(WalkEnd(p) \/ MigrateEnd(p) \/ Die(p))
    BY <1>3 DEF WalkEnd, MigrateEnd, Die
  <2>2. ~(Mint(p) \/ MirrorRead(p) \/ MirrorWrite(p) \/ SweepNext(p) \/ SweepEnd(p)
          \/ ConsolidateNext(p) \/ ReconcileMergedNext(p) \/ MigrateLock(p) \/ MigrateNext(p)
          \/ WriteMinted(p) \/ RenameWrite(p) \/ RenameMove(p))
    BY <1>1, <1>2 DEF Mint, MirrorRead, MirrorWrite, SweepNext, SweepEnd, ConsolidateNext,
       ReconcileMergedNext, MigrateLock, MigrateNext, WriteMinted, RenameWrite, RenameMove
  <2> QED
    BY <2>1, <2>2 DEF Reading, Writing
<1>8. CASE ListRows(p)
  <2>1. sidecars' = sidecars /\ rows' = rows /\ archive' = archive
    BY <1>8 DEF ListRows, files
  <2>2. new = [old EXCEPT !.pc = "walking", !.known = rows, !.todo = Present]
    BY <1>3, <1>8 DEF ListRows
  <2>3. new.pc = "walking" /\ new.known = rows /\ new.todo = Present
    BY <1>1, <2>2 DEF VerbCalls
  <2>4. \A k \in Keys \ Present : NotOpen(k, sidecars)
    BY DEF Present, NotOpen, OnlyOf
  <2> QED
    BY <2>1, <2>3, <2>4 DEF ReconcilesWell, Settled
<1>9. CASE ReconcileAllNext(p)
  <2>1. sidecars' = sidecars /\ rows' = rows /\ archive' = archive /\ old.pc = "walking"
    BY <1>9 DEF ReconcileAllNext, files
  <2>2. PICK k \in old.todo :
          \/ /\ Skips(p, k)
             /\ \/ sidecars[k] = Nil \/ sidecars[k].state \notin Open
                \/ sidecars[k] # Nil /\ ~OnDisk(sidecars[k], old.known)
          \/ /\ sidecars[k] # Nil
             /\ Goes(p, [old EXCEPT !.todo = @ \ {k}, !.pc = "calling", !.record = sidecars[k]])
          \/ sidecars[k] # Nil /\ Abandons(p, k, "walking")
    BY <1>9 DEF ReconcileAllNext, Evidence
  <2>3. k \in Keys /\ \A j \in Keys \ old.todo : Settled(j, sidecars, rows, archive)
    BY <1>1, <1>2, <2>1
  <2>4. CASE /\ Skips(p, k)
             /\ \/ sidecars[k] = Nil \/ sidecars[k].state \notin Open
                \/ sidecars[k] # Nil /\ ~OnDisk(sidecars[k], old.known)
    <3>1. new = [old EXCEPT !.todo = @ \ {k}]
      BY <1>3, <2>4 DEF Skips
    <3>2. new.pc = "walking" /\ new.known = old.known /\ new.todo = old.todo \ {k}
      BY <1>1, <2>1, <3>1 DEF VerbCalls
    <3>3. Settled(k, sidecars, rows, archive)
      <4>1. CASE NotOpen(k, sidecars)
        BY <4>1 DEF Settled
      <4>2. CASE ~NotOpen(k, sidecars)
        <5>1. sidecars[k].id = k /\ ~OnDisk(sidecars[k], old.known)
          BY <2>4, <4>2 DEF NotOpen, OnlyOf
        <5>2. k \notin rows \cup Anchored
          BY <1>2, <2>1, <5>1 DEF OnDisk
        <5>3. ~FiledOnce(sidecars[k].slug, archive)
          BY <5>1 DEF OnDisk, FiledUnder, FiledOnce
        <5> QED
          BY <5>2, <5>3 DEF Settled
      <4> QED
        BY <4>1, <4>2
    <3>4. \A j \in Keys \ new.todo : Settled(j, sidecars, rows, archive)
      BY <2>3, <3>2, <3>3
    <3> QED
      BY <1>2, <2>1, <3>2, <3>4 DEF ReconcilesWell
  <2>5. CASE /\ sidecars[k] # Nil
             /\ Goes(p, [old EXCEPT !.todo = @ \ {k}, !.pc = "calling", !.record = sidecars[k]])
    <3>1. new = [old EXCEPT !.todo = @ \ {k}, !.pc = "calling", !.record = sidecars[k]]
      BY <1>3, <2>5
    <3>2. /\ new.pc = "calling" /\ new.known = old.known /\ new.todo = old.todo \ {k}
          /\ new.record = sidecars[k]
      BY <1>1, <3>1 DEF VerbCalls
    <3>3. Settled(k, sidecars, rows, archive) \/ k = new.record.id
      BY <3>2 DEF Settled, NotOpen, OnlyOf
    <3> QED
      BY <1>2, <2>1, <2>3, <2>5, <3>2, <3>3 DEF ReconcilesWell
  <2>6. CASE sidecars[k] # Nil /\ Abandons(p, k, "walking")
    <3>1. PICK r \in Records : r = sidecars[k]
      BY <2>3, <2>6, FoundFits
    <3>2. PICK q \in Records : /\ q = [r EXCEPT !.state = "abandoned"]
                               /\ q.id = r.id /\ q.state = "abandoned"
      <4> DEFINE q == [r EXCEPT !.state = "abandoned"]
      <4>1. q \in Records /\ q.id = r.id /\ q.state = "abandoned"
        BY StatesAre DEF Records
      <4> HIDE DEF q
      <4> QED
        BY <4>1 DEF q
    <3>3. q.state = "abandoned" /\ q # Nil
      BY <3>2, KeyFacts
    <3>4. new = [old EXCEPT !.todo = @ \ {k}, !.pc = "writing", !.next = "walking", !.record = q]
      BY <1>3, <2>6, <3>1, <3>2 DEF Abandons
    <3>5. /\ new.pc = "writing" /\ new.next = "walking" /\ new.known = old.known
          /\ new.todo = old.todo \ {k} /\ new.record = q
      BY <1>1, <3>4 DEF VerbCalls
    <3>6. Settled(k, sidecars, rows, archive) \/ k = new.record.id
      BY <3>1, <3>2, <3>5 DEF Settled, NotOpen, OnlyOf
    <3> QED
      BY <1>2, <2>1, <2>3, <3>3, <3>5, <3>6 DEF ReconcilesWell
  <2> QED
    BY <2>2, <2>4, <2>5, <2>6
<1>10. CASE CallShip(p)
  <2>1. sidecars' = sidecars /\ rows' = rows /\ archive' = archive /\ old.pc = "calling"
    BY <1>10 DEF CallShip, files
  <2>2. PICK r \in Finds(old.record.id), pr \in BOOLEAN :
          \E pc \in Ships(r, pr) : Goes(p, Shipping(old, r, pr, pc))
    BY <1>3, <1>10 DEF CallShip
  <2>3. PICK pc \in Ships(r, pr) : Goes(p, Shipping(old, r, pr, pc))
    BY <2>2
  <2>4. PICK taken \in Keys : taken = old.record.id
    BY <1>2, <1>5, <2>1
  <2>5. /\ NotOpen(taken, sidecars) \/ (r = sidecars[taken] /\ r.id = taken)
        /\ r.state \notin Open => NoneOpen(r.slug, sidecars) /\ NotOpen(taken, sidecars)
    BY <2>2, <2>4, ShippedIsFound
  <2>6. r \in Records
    BY <2>2, <2>4, FoundFits
  <2>7. PICK q \in Records : /\ q = [r EXCEPT !.state = "shipped", !.branch = TRUE, !.pr = pr]
                             /\ q.id = r.id /\ q.slug = r.slug /\ q.state = "shipped"
    <3> DEFINE q == [r EXCEPT !.state = "shipped", !.branch = TRUE, !.pr = pr]
    <3>1. q \in Records /\ q.id = r.id /\ q.slug = r.slug /\ q.state = "shipped"
      BY <2>6, StatesAre DEF Records
    <3> HIDE DEF q
    <3> QED
      BY <3>1 DEF q
  <2>8. q # Nil
    BY KeyFacts
  <2>9. /\ new.pc = pc /\ new.next = "rendering" /\ new.known = old.known
        /\ new.todo = old.todo /\ new.record = q
    BY <1>1, <1>3, <2>3, <2>7 DEF VerbCalls, Shipping
  <2>10. \A j \in Keys \ old.todo : Settled(j, sidecars, rows, archive) \/ j = taken
    BY <1>2, <2>1, <2>4
  <2>11. CASE pc = "writing"
    <3>1. Settled(taken, sidecars, rows, archive) \/ taken = q.id
      BY <2>5, <2>7 DEF Settled
    <3> QED
      BY <1>2, <2>1, <2>7, <2>8, <2>9, <2>10, <2>11, <3>1 DEF ReconcilesWell
  <2>12. CASE pc = "rendering"
    <3>1. r.state \notin Open
      BY <2>3, <2>12 DEF Ships, Open
    <3>2. NoneOpen(q.slug, sidecars) /\ Settled(taken, sidecars, rows, archive)
      BY <2>5, <2>7, <3>1 DEF Settled
    <3> QED
      BY <1>2, <2>1, <2>8, <2>9, <2>10, <2>12, <3>2 DEF ReconcilesWell
  <2>13. pc \in {"writing", "rendering"}
    BY <2>3 DEF Ships
  <2> QED
    BY <2>11, <2>12, <2>13
<1>11. CASE WriteState(p)
  <2>1. /\ rows' = rows /\ archive' = archive /\ old.pc = "writing"
        /\ sidecars' = [sidecars EXCEPT ![old.record.id] = old.record]
        /\ new = [old EXCEPT !.pc = old.next]
    BY <1>2, <1>3, <1>11 DEF WriteState
  <2>2. PICK r \in Records : r = old.record /\ r.id \in Keys /\ r.state \in {"shipped", "abandoned"}
    BY <1>2, <1>5, <2>1
  <2>0. IsOf(r, sidecars)
    BY <1>2, <2>1, <2>2, OfActor DEF CallFits
  <2>3. sidecars'[r.id] = r /\ \A j \in Keys \ {r.id} : sidecars'[j] = sidecars[j]
    BY <2>1, <2>2, OfActor DEF Cabinets
  <2>4. NotOpen(r.id, sidecars') /\ NoneOpen(r.slug, sidecars')
    <3>1. NotOpen(r.id, sidecars')
      BY <2>2, <2>3 DEF NotOpen, Open
    <3>2. r # Nil
      BY KeyFacts
    <3> QED
      BY <2>2, <2>3, <3>1, <3>2 DEF NoneOpen, OnlyOf
  <2>5. /\ new.pc \in {"walking", "rendering"} /\ new.known = old.known /\ new.todo = old.todo
        /\ new.record = r
    BY <1>1, <1>2, <2>1, <2>2 DEF VerbCalls
  <2>6. ASSUME NEW j \in Keys \ new.todo PROVE Settled(j, sidecars', rows, archive)
    <3>1. CASE j = r.id
      BY <2>4, <3>1 DEF Settled
    <3>2. CASE j # r.id
      <4>1. Settled(j, sidecars, rows, archive) /\ sidecars'[j] = sidecars[j]
        BY <1>2, <2>1, <2>2, <2>3, <2>5, <2>6, <3>2
      <4>2. OnlyOf(j, sidecars') => OnlyOf(j, sidecars)
        BY <2>0, <2>1, <2>2, <2>6, <3>2, OthersOnlyStay
      <4> QED
        BY <4>1, <4>2 DEF Settled, NotOpen
    <3> QED
      BY <3>1, <3>2
  <2>7. r # Nil
    BY <2>2, KeyFacts
  <2> QED
    BY <1>2, <2>1, <2>4, <2>5, <2>6, <2>7 DEF ReconcilesWell
<1>12. CASE RenderRead(p)
  <2>1. /\ sidecars' = sidecars /\ rows' = rows /\ archive' = archive
        /\ old.pc = "rendering" /\ old.record # Nil
    BY <1>2, <1>12 DEF RenderRead, files
  <2>2. new = [old EXCEPT !.pc = "rendered", !.known = rows \cup {old.record.id}]
    BY <1>3, <1>12, <2>1 DEF RenderRead
  <2>3. /\ new.pc = "rendered" /\ new.known = rows \cup {old.record.id}
        /\ new.todo = old.todo /\ new.record = old.record
    BY <1>1, <2>2 DEF VerbCalls
  <2>4. /\ NoneOpen(old.record.slug, sidecars)
        /\ \A j \in Keys \ old.todo : Settled(j, sidecars, rows, archive)
    BY <1>2, <2>1
  <2> QED
    BY <2>1, <2>3, <2>4 DEF ReconcilesWell
<1>13. CASE RenderWrite(p)
  <2>1. /\ sidecars' = sidecars /\ rows' = old.known /\ archive' = archive /\ old.pc = "rendered"
        /\ new = IF old.fresh THEN [old EXCEPT !.pc = "peeking"] ELSE Back(old)
    BY <1>3, <1>13 DEF RenderWrite
  <2>2. /\ old.known \subseteq rows \cup {old.record.id} /\ NoneOpen(old.record.slug, sidecars)
        /\ old.record # Nil /\ \A j \in Keys \ old.todo : Settled(j, sidecars, rows, archive)
    BY <1>2, <2>1
  <2>3. \A j \in Keys \ old.todo : Settled(j, sidecars, old.known, archive)
    <3>1. PICK r \in Records : /\ r = old.record /\ IsOf(r, sidecars)
                               /\ r.id \in Keys /\ r.id \in KeysOf(r)
      BY <1>5, <2>1, <2>2, OfActor DEF CallFits, IsOf, Proper
    <3>2. NotOpen(r.id, sidecars)
      BY <2>2, <3>1, PlaceOfSpec DEF NoneOpen, NotOpen, OnlyOf
    <3> QED
      BY <2>2, <3>1, <3>2 DEF Settled
  <2>4. CASE old.fresh
    <3>1. /\ new.pc = "peeking" /\ new.known = old.known /\ new.todo = old.todo
          /\ new.record = old.record
      BY <1>1, <2>1, <2>4 DEF VerbCalls
    <3> QED
      BY <2>1, <2>2, <2>3, <3>1 DEF ReconcilesWell
  <2>5. CASE ~old.fresh
    <3>1. new = Back(old)
      BY <2>1, <2>5
    <3> QED
      BY <1>6, <2>1, <2>3, <3>1
  <2> QED
    BY <2>4, <2>5
<1>14. CASE Peek(p) \/ CheckOwner(p)
  <2>1. /\ sidecars' = sidecars /\ rows' = rows /\ archive' = archive
        /\ old.pc \in {"peeking", "checking"}
    BY <1>14 DEF Peek, CheckOwner, files
  <2>2. /\ old.record # Nil /\ NoneOpen(old.record.slug, sidecars) /\ rows \subseteq old.known
        /\ \A j \in Keys \ old.todo : Settled(j, sidecars, rows, archive)
    BY <1>2, <2>1
  <2>3. CASE new = Back(old)
    BY <1>6, <2>1, <2>2, <2>3
  <2>4. CASE new # Back(old)
    <3>1. \/ new = [old EXCEPT !.pc = "checking", !.text = slot]
          \/ new = [old EXCEPT !.pc = "archiving"]
      BY <1>3, <1>14, <2>4 DEF Peek, CheckOwner
    <3>2. /\ new.pc \in {"checking", "archiving"} /\ new.known = old.known
          /\ new.todo = old.todo /\ new.record = old.record
      BY <1>1, <3>1 DEF VerbCalls
    <3> QED
      BY <2>1, <2>2, <3>2 DEF ReconcilesWell
  <2> QED
    BY <2>3, <2>4
<1>15. CASE ArchiveSpec(p) \/ ArchivePlan(p) \/ ResetSpec(p)
  <2>1. /\ sidecars' = sidecars /\ rows' = rows
        /\ old.pc \in {"archiving", "planning", "resetting"}
    BY <1>15 DEF ArchiveSpec, ArchivePlan, ResetSpec
  <2>2. PICK pc \in {"planning", "resetting", "clearing"} : new = [old EXCEPT !.pc = pc]
    BY <1>4, <1>15 DEF ArchiveSpec, ArchivePlan, ResetSpec
  <2>3. /\ new.pc = pc /\ new.known = old.known /\ new.todo = old.todo
        /\ new.record = old.record
    BY <1>1, <2>2 DEF VerbCalls
  <2>4. /\ old.record # Nil /\ NoneOpen(old.record.slug, sidecars) /\ rows \subseteq old.known
        /\ \A j \in Keys \ old.todo : Settled(j, sidecars, rows, archive)
    BY <1>2, <2>1
  <2>5. \A j \in Keys \ old.todo : Settled(j, sidecars, rows, archive')
    <3>1. CASE ArchiveSpec(p) \/ ArchivePlan(p)
      BY <2>4, <3>1, FilingLeavesSettled
    <3>2. CASE ResetSpec(p)
      BY <2>4, <3>2 DEF ResetSpec
    <3> QED
      BY <1>15, <3>1, <3>2
  <2> QED
    BY <2>1, <2>3, <2>4, <2>5 DEF ReconcilesWell
<1>16. CASE ResetPlan(p)
  <2>1. /\ sidecars' = sidecars /\ rows' = rows /\ archive' = archive /\ old.pc = "clearing"
        /\ new = Back(old)
    BY <1>3, <1>16 DEF ResetPlan
  <2>2. rows \subseteq old.known /\ Reaches(old, sidecars, rows, archive)
    BY <1>2, <2>1
  <2> QED
    BY <1>6, <2>1, <2>2
<1> QED
  BY <1>7, <1>8, <1>9, <1>10, <1>11, <1>12, <1>13, <1>14, <1>15, <1>16

-----------------------------------------------------------------------------
\* At first no call is under way.
LEMMA CleanupInvInit == LifecycleInit => CleanupInv
  BY IdleClaimsNothing DEF LifecycleInit, CleanupInv

\* Every step of a call under way keeps it.
LEMMA StepsClean ==
    ASSUME LifecycleInv, CleanupInv, NEW p \in Actors, Reading(p) \/ Writing(p)
    PROVE  CleanupInv'
<1>1. PICK call : call = acts'[p]
  OBVIOUS
<1>2. acts' = [acts EXCEPT ![p] = call] /\ Busy(p) /\ CarriesOn(acts[p], call)
  BY <1>1, StepsGoOn
<1>3. acts[p].alone /\ acts[p].verb = "consolidate_shipped" /\ call # Idle
        => ConsolidatesWell(call, sidecars', rows')
  BY <1>1, ConsolidationGoesOn DEF CleanupInv, WalksWell
<1>4. acts[p].alone /\ acts[p].verb = "reconcile_all" /\ call # Idle
        => ReconcilesWell(call, sidecars', rows', archive')
  BY <1>1, ReconciliationGoesOn DEF CleanupInv, WalksWell
<1> QED
  BY <1>2, <1>3, <1>4, CallClean

\* So do the steps of no call: only a sweep files what is astray.
LEMMA OthersClean ==
    ASSUME LifecycleInv, CleanupInv,
           \/ \E p \in Actors : Reap(p)
           \/ \E k \in Numbers : WriteSpec(k, k) \/ WriteSpec(k, Nil) \/ Stray(k)
           \/ WritePlan
           \/ \E s \in Slugs : Age(s)
    PROVE  CleanupInv'
<1>1. ASSUME NEW p \in Actors, Reap(p) PROVE CleanupInv'
  <2>1. UNCHANGED <<sidecars, rows, acts>> /\ acts[p].pc = "sweeping" /\ Busy(p)
    BY <1>1 DEF Reap, Busy
  <2>2. ASSUME NEW q \in Actors PROVE WalksWell(acts[q], sidecars, rows, archive')
    <3>1. WalksWell(acts[q], sidecars, rows, archive)
      BY DEF CleanupInv
    <3>2. acts[q].alone => q = p
      BY <2>1 DEF CleanupInv
    <3>3. acts[q].alone /\ acts[q].verb = "reconcile_all" => FALSE
      BY <2>1, <3>1, <3>2 DEF WalksWell, ReconcilesWell, Rendering, FilePoints, Shelving
    <3> QED
      BY <3>1, <3>3 DEF WalksWell
  <2> QED
    BY <2>1, <2>2 DEF CleanupInv, Busy
<1>2. ASSUME UNCHANGED <<sidecars, rows, archive, acts>> PROVE CleanupInv'
  BY <1>2 DEF CleanupInv, Busy
<1>3. ASSUME \/ \E k \in Numbers : WriteSpec(k, k) \/ WriteSpec(k, Nil) \/ Stray(k)
             \/ WritePlan
             \/ \E s \in Slugs : Age(s)
      PROVE  UNCHANGED <<sidecars, rows, archive, acts>>
  BY <1>3 DEF WriteSpec, WritePlan, Stray, Age, files
<1> QED
  BY <1>1, <1>2, <1>3

\* Every step keeps what cleanups settle.
LEMMA CleanupInvStep == LifecycleInv /\ CleanupInv /\ [LifecycleNext]_lifecycleVars => CleanupInv'
<1> SUFFICES ASSUME LifecycleInv, CleanupInv, [LifecycleNext]_lifecycleVars PROVE CleanupInv'
  OBVIOUS
<1>1. CASE UNCHANGED lifecycleVars
  BY <1>1 DEF lifecycleVars, files, CleanupInv, Busy
<1>2. ASSUME NEW p \in Actors,
             \/ \E s \in Slugs : StartNew(p, s)
             \/ \E k \in Keys : (\E verb \in DOMAIN Target : Move(p, verb, k)) \/ MarkShipped(p, k)
             \/ \E verb \in verbs : Sweep(p, verb) \/ Walk(p, verb)
             \/ Migrate(p)
      PROVE  CleanupInv'
  BY <1>2, BeginsClean
<1>3. ASSUME NEW p \in Actors, Reading(p) \/ Writing(p) PROVE CleanupInv'
  BY <1>3, StepsClean
<1>4. ASSUME \/ \E p \in Actors : Reap(p)
             \/ \E k \in Numbers : WriteSpec(k, k) \/ WriteSpec(k, Nil) \/ Stray(k)
             \/ WritePlan
             \/ \E s \in Slugs : Age(s)
      PROVE  CleanupInv'
  BY <1>4, OthersClean
<1> QED
  BY <1>1, <1>2, <1>3, <1>4 DEF LifecycleNext, Reading, Writing

\* A walk that is done has settled every record.
LEMMA WalksSettle == LifecycleInv /\ CleanupInv => CleanupSettles
<1> SUFFICES ASSUME LifecycleInv, CleanupInv, NEW p \in Actors, acts[p].alone,
                    acts[p].pc = "walking", acts[p].todo = {}, NEW k \in Present
             PROVE  /\ acts[p].verb = "consolidate_shipped" /\ sidecars[k].state = "shipped"
                         => sidecars[k].id \in rows /\ ~Flagged(sidecars[k])
                    /\ acts[p].verb = "reconcile_all" /\ sidecars[k].state \in Open /\ Sole(k)
                         => ~Flagged(sidecars[k]) /\ sidecars[k].id \notin rows \cup Anchored
  BY DEF CleanupSettles
<1>1. /\ k \in Keys \ acts[p].todo /\ sidecars[k] # Nil
      /\ WalksWell(acts[p], sidecars, rows, archive)
  BY DEF Present, CleanupInv
<1>2. ASSUME acts[p].verb = "consolidate_shipped", sidecars[k].state = "shipped"
      PROVE  sidecars[k].id \in rows /\ ~Flagged(sidecars[k])
  <2>1. sidecars[k].id \in rows
    BY <1>1, <1>2 DEF WalksWell, ConsolidatesWell, Rendering
  <2> QED
    BY <1>2, <2>1 DEF Flagged, OnDisk
<1>3. ASSUME acts[p].verb = "reconcile_all", sidecars[k].state \in Open, Sole(k)
      PROVE  ~Flagged(sidecars[k]) /\ sidecars[k].id \notin rows \cup Anchored
  <2>1. Settled(k, sidecars, rows, archive)
    BY <1>1, <1>3 DEF WalksWell, ReconcilesWell
  <2>2. OnlyOf(k, sidecars) /\ sidecars[k].id = k
    BY <1>1, <1>3 DEF OnlyOf, Sole, Present
  <2>3. k \notin rows \cup Anchored /\ ~FiledOnce(sidecars[k].slug, archive)
    BY <1>3, <2>1, <2>2 DEF Settled, NotOpen
  <2>4. ~Flagged(sidecars[k])
    BY <1>3, <2>3 DEF Flagged, FiledOnce, FiledUnder, Open
  <2> QED
    BY <2>2, <2>3, <2>4
<1> QED
  BY <1>2, <1>3

\* One cleanup that runs alone and to its end settles what overlapping verbs
\* and deaths left: after consolidate_shipped every shipped record has its row
\* and check_ledger flags none of them, after reconcile_all it flags no open
\* record that is its spec's only one, and none is open that has shipped.
THEOREM CleanupsSettle == LifecycleSpec => []CleanupSettles
<1>1. LifecycleSpec => [](LifecycleInv /\ CleanupInv)
  BY LifecycleInvariant, CleanupInvInit, CleanupInvStep, PTL DEF LifecycleSpec
<1> QED
  BY <1>1, WalksSettle, PTL

(***************************************************************************)
(* Instincts. An observer's line may be copied, lost and brought back by   *)
(* those who rewrite the observations, but it keeps its time; and while    *)
(* extractions come one after the other, what was counted is not later     *)
(* than lastExtractedAt, except while the time is being written.           *)
(***************************************************************************)
(* A line of the observations, and the three files, typed.                 *)
ObservedLine == [by : Observers, chat : Chats, at : Nat, kind : Kinds]
EvidenceCounts == [Observers \X Observers -> Nat]
Files == {"observations", "document", "meta"}
Rewriting == {"opening", "filling", "replacing", "unlinking"}
Places == {"none", "sibling", "file", "gone"}
Working(h) == learners[h].pc \notin {"off", "done"}

(* The type of a hook at every point of its way, by the file it writes: an *)
(* observer writes the observations only, an extraction also the counts    *)
(* and lastExtractedAt, of lines that are not none.                        *)
RunTyped(run, h) ==
    /\ run = [pc |-> run.pc, seen |-> run.seen, since |-> run.since, lines |-> run.lines,
              document |-> run.document, file |-> run.file, text |-> run.text,
              into |-> run.into, next |-> run.next]
    /\ run.seen \in Seq(ObservedLine) /\ run.lines \in Seq(ObservedLine) /\ run.since \in Nat
    /\ run.document \in EvidenceCounts
    /\ run.into \in Places
    /\ \/ /\ run.file = "observations" /\ run.text \in Seq(ObservedLine)
          /\ \/ run.pc \in {"off", "done", "reading"}
             \/ run.pc \in Rewriting /\ h \in Observers /\ run.next \in {"add", "done"}
             \/ run.pc \in Rewriting /\ h \in Extractors /\ run.next = "filtering"
             \/ run.pc = "filtering" /\ h \in Extractors
             \/ run.pc = "merging" /\ h \in Extractors /\ run.lines # <<>>
       \/ /\ run.file = "document" /\ run.text \in EvidenceCounts /\ run.next = "close"
          /\ run.pc \in Rewriting /\ h \in Extractors /\ run.lines # <<>>
       \/ /\ run.file = "meta" /\ run.text \in Nat /\ run.next = "done"
          /\ run.pc \in Rewriting /\ h \in Extractors

(* The types of the files and of all hooks.                                *)
LearnTyped ==
    /\ clock \in Nat /\ clock >= 1
    /\ contents = [observations |-> contents.observations, document |-> contents.document,
                   meta |-> contents.meta]
    /\ contents.observations \in Seq(ObservedLine) /\ contents.document \in EvidenceCounts
    /\ contents.meta \in Nat
    /\ siblings = [observations |-> siblings.observations, document |-> siblings.document,
                   meta |-> siblings.meta]
    /\ siblings.observations \in SUBSET Seq(ObservedLine)
    /\ siblings.document \in SUBSET EvidenceCounts /\ siblings.meta \in SUBSET Nat
    /\ learners = [h \in Learners |-> learners[h]]
    /\ \A h \in Learners : RunTyped(learners[h], h)

LinesIn(seq) == {seq[i] : i \in DOMAIN seq}
RunLines(run) ==
    LinesIn(run.seen) \cup LinesIn(run.lines)
      \cup (IF run.file = "observations" THEN LinesIn(run.text) ELSE {})

(* Every line that is in the file, in its sibling, or in the hands of a    *)
(* hook.                                                                   *)
Held ==
    LinesIn(contents.observations)
      \cup (UNION {LinesIn(text) : text \in siblings.observations})
      \cup (UNION {RunLines(learners[h]) : h \in Learners})

(* An observer notes one line: all copies of it tell the same time, and    *)
(* the observer is no longer off.                                          *)
NotedOnce ==
    /\ \A line \in Held : line \in ObservedLine /\ line.at >= 1 /\ learners[line.by].pc # "off"
    /\ \A line, other \in Held : line.by = other.by => line.at = other.at

(* Who is counted has noted its line, and no later than the instant: a     *)
(* line newer than it is not counted yet.                                  *)
Behind(instant) ==
    \A pair \in Observers \X Observers : contents.document[pair] >= 1 =>
        /\ learners[pair[1]].pc # "off"
        /\ \A line \in Held : line.by = pair[1] => line.at <= instant

(* What an extraction at work knows, point by point: lastExtractedAt is    *)
(* what it read; its new lines are newer; the counts it will write count   *)
(* nothing twice, and nothing but what was counted and its new lines; the  *)
(* time it will write is not before any line counted.                      *)
Extracting(e) ==
    LET run == learners[e] IN
    /\ run.file # "meta" => run.since = contents.meta
    /\ run.pc = "merging" \/ run.file = "document" =>
         \A i \in DOMAIN run.lines : run.lines[i].at > run.since
    /\ run.pc = "merging" => run.document = contents.document
    /\ run.file = "document" =>
         \A pair \in Observers \X Observers :
           /\ run.text[pair] <= 1
           /\ run.text[pair] >= 1 =>
                \/ contents.document[pair] >= 1
                \/ \E i \in DOMAIN run.lines : run.lines[i].by = pair[1]
    /\ run.file = "meta" => Behind(run.text)
    /\ run.file # "observations" /\ run.pc = "filling" =>
         run.into = "sibling" /\ siblings[run.file] = {Unread[run.file]}
    /\ run.file # "observations" /\ run.pc = "replacing" => siblings[run.file] = {run.text}
    /\ run.pc # "unlinking"

(* Extractions one after the other: the counts are not more than one, and  *)
(* lastExtractedAt is not behind them, unless the extraction at work is    *)
(* about to write it.                                                      *)
OnlyOnce ==
    /\ \A d, e \in Extractors : Working(d) /\ Working(e) => d = e
    /\ \A pair \in Observers \X Observers : contents.document[pair] <= 1
    /\ \A e \in Extractors : Working(e) => Extracting(e)
    /\ (\A e \in Extractors : Working(e) => learners[e].file # "meta") => Behind(contents.meta)

-----------------------------------------------------------------------------
(* A set of naturals that is not empty has a least element.                *)
LEMMA NatLeast ==
    ASSUME NEW T, T \subseteq Nat, T # {}
    PROVE  \E n \in T : \A m \in T : n <= m
<1>1. PICK R : R = OpToRel(<, Nat)
  OBVIOUS
<1>2. IsWellFoundedOn(R, Nat)
  BY <1>1, NatLessThanWellFounded
<1>3. PICK n \in T : \A m \in T : <<m, n>> \notin R
  BY <1>2, WFMin
<1>4. \A m \in T : ~(m < n)
  BY <1>1, <1>3 DEF OpToRel
<1> QED
  BY <1>3, <1>4

(* Induction up to n, with a set Good instead of a predicate.              *)
LEMMA UpTo ==
    ASSUME NEW n \in Nat, NEW Good, 0 \in Good,
           \A m \in 1..n : m - 1 \in Good => m \in Good
    PROVE  \A m \in 0..n : m \in Good
<1> DEFINE T == {m \in 0..n : m \notin Good}
<1> SUFFICES ASSUME T # {} PROVE FALSE
  OBVIOUS
<1>0. T \subseteq Nat
  OBVIOUS
<1> HIDE DEF T
<1>1. PICK m \in T : \A k \in T : m <= k
  BY <1>0, NatLeast
<1> USE DEF T
<1>2. m \in 1..n
  BY <1>1
<1>3. m - 1 \in 0..n /\ m - 1 \notin T
  BY <1>1, <1>2
<1> QED
  BY <1>2, <1>3

(* The function that From defines recursively; that it is one has to be    *)
(* proved.                                                                 *)
TakesFrom(g, lines, instant, n) ==
    g = [m \in 0..n |-> IF m = 0 THEN <<>>
                        ELSE IF lines[m].at >= instant THEN Append(g[m - 1], lines[m])
                        ELSE g[m - 1]]

(* It exists, whatever the lines.                                          *)
LEMMA TakesExists ==
    ASSUME NEW lines, NEW instant, NEW n \in Nat
    PROVE  \E g : TakesFrom(g, lines, instant, n)
<1> DEFINE Good == {k \in 0..n : \E g : TakesFrom(g, lines, instant, k)}
<1>1. 0 \in Good
  <2>1. TakesFrom([m \in 0..0 |-> <<>>], lines, instant, 0)
    BY DEF TakesFrom
  <2> QED
    BY <2>1
<1>2. ASSUME NEW k \in 1..n, k - 1 \in Good PROVE k \in Good
  <2>1. PICK g : TakesFrom(g, lines, instant, k - 1)
    BY <1>2
  <2> DEFINE last == IF lines[k].at >= instant THEN Append(g[k - 1], lines[k]) ELSE g[k - 1]
             h == [m \in 0..k |-> IF m = k THEN last ELSE g[m]]
  <2>2. /\ \A m \in 0..(k - 1) : h[m] = g[m]
        /\ h[k] = last
    OBVIOUS
  <2>3. \A m \in 0..(k - 1) : g[m] = IF m = 0 THEN <<>>
                        ELSE IF lines[m].at >= instant THEN Append(g[m - 1], lines[m])
                        ELSE g[m - 1]
    BY <2>1 DEF TakesFrom
  <2>4. \A m \in 0..k : (IF m = k THEN last ELSE g[m]) =
                        IF m = 0 THEN <<>>
                        ELSE IF lines[m].at >= instant THEN Append(h[m - 1], lines[m])
                        ELSE h[m - 1]
    <3> SUFFICES ASSUME NEW m \in 0..k
                 PROVE (IF m = k THEN last ELSE g[m]) =
                        IF m = 0 THEN <<>>
                        ELSE IF lines[m].at >= instant THEN Append(h[m - 1], lines[m])
                        ELSE h[m - 1]
      OBVIOUS
    <3> HIDE DEF h
    <3>1. CASE m = k
      <4>1. h[m - 1] = g[k - 1] /\ m # 0
        BY <2>2, <3>1
      <4> QED
        BY <3>1, <4>1
    <3>2. CASE m # k /\ m # 0
      <4>1. h[m - 1] = g[m - 1] /\ m \in 0..(k - 1)
        BY <2>2, <3>2
      <4> HIDE DEF last
      <4> QED
        BY <3>2, <4>1, <2>3
    <3>3. CASE m # k /\ m = 0
      BY <3>3, <2>3
    <3> QED
      BY <3>1, <3>2, <3>3
  <2>5. h = [m \in 0..k |-> IF m = k THEN last ELSE g[m]]
    OBVIOUS
  <2> HIDE DEF h, last
  <2>6. TakesFrom(h, lines, instant, k)
    BY <2>4, <2>5 DEF TakesFrom
  <2> QED
    BY <2>6
<1> HIDE DEF Good
<1>4. \A m \in 1..n : m - 1 \in Good => m \in Good
  BY <1>2
<1>3. n \in Good
  BY <1>1, <1>4, UpTo
<1> QED
  BY <1>3 DEF Good

(* What From promises of the lines it takes.                               *)
Fits(s, lines, instant) ==
    /\ s \in Seq(ObservedLine)
    /\ \A i \in DOMAIN s : s[i] \in LinesIn(lines) /\ s[i].at >= instant

(* One more line that is late enough fits.                                 *)
LEMMA FitsAppend ==
    ASSUME NEW lines, NEW instant \in Int, NEW s, Fits(s, lines, instant),
           NEW line \in ObservedLine, line \in LinesIn(lines), line.at >= instant
    PROVE  Fits(Append(s, line), lines, instant)
<1>1. PICK r : r = Append(s, line)
  OBVIOUS
<1>2. s \in Seq(ObservedLine)
  BY DEF Fits
<1>3. r \in Seq(ObservedLine)
  BY <1>1, <1>2
<1>4. DOMAIN r = 1..(Len(s) + 1) /\ DOMAIN s = 1..Len(s) /\ Len(s) \in Nat
  BY <1>1, <1>2
<1>5. \A i \in DOMAIN r : r[i] = line \/ (i \in DOMAIN s /\ r[i] = s[i])
  BY <1>1, <1>2, <1>4
<1>6. \A i \in DOMAIN s : s[i] \in LinesIn(lines) /\ s[i].at >= instant
  BY DEF Fits
<1>7. \A i \in DOMAIN r : r[i] \in LinesIn(lines) /\ r[i].at >= instant
  BY <1>5, <1>6
<1> QED
  BY <1>1, <1>3, <1>7 DEF Fits

(* So every prefix taken fits.                                             *)
LEMMA TakenFits ==
    ASSUME NEW lines, NEW instant \in Int, NEW n \in Nat, NEW g,
           TakesFrom(g, lines, instant, n),
           \A m \in 1..n : lines[m] \in ObservedLine /\ lines[m] \in LinesIn(lines)
    PROVE  Fits(g[n], lines, instant)
<1> DEFINE Good == {m \in 0..n : Fits(g[m], lines, instant)}
<1>5. 0 \in Good
  <2>1. g[0] = <<>>
    BY DEF TakesFrom
  <2>2. Fits(<<>>, lines, instant)
    BY DEF Fits
  <2> QED
    BY <2>1, <2>2
<1>6. ASSUME NEW m \in 1..n, m - 1 \in Good PROVE m \in Good
  <2>1. PICK s : s = g[m - 1]
    OBVIOUS
  <2>2. g[m] = IF lines[m].at >= instant THEN Append(s, lines[m]) ELSE s
    <3>1. \A k \in 0..n : g[k] = IF k = 0 THEN <<>>
                        ELSE IF lines[k].at >= instant THEN Append(g[k - 1], lines[k])
                        ELSE g[k - 1]
      BY Zenon DEF TakesFrom
    <3>2. m \in 0..n /\ m # 0
      OBVIOUS
    <3> QED
      BY <2>1, <3>1, <3>2, Zenon
  <2>3. Fits(s, lines, instant)
    BY <1>6, <2>1
  <2>5. PICK line \in ObservedLine : line = lines[m]
    OBVIOUS
  <2>6. line \in LinesIn(lines)
    BY <2>5
  <2>7. line.at >= instant => Fits(Append(s, line), lines, instant)
    BY <2>3, <2>6, FitsAppend
  <2>8. Fits(g[m], lines, instant)
    BY <2>2, <2>3, <2>5, <2>7
  <2> QED
    BY <2>8
<1> HIDE DEF Good
<1>7. \A m \in 1..n : m - 1 \in Good => m \in Good
  BY <1>6
<1>8. n \in Good
  BY <1>5, <1>7, UpTo
<1> QED
  BY <1>8 DEF Good

(* And with it the lines From returns.                                     *)
LEMMA FromFits ==
    ASSUME NEW lines \in Seq(ObservedLine), NEW instant \in Int
    PROVE  Fits(From(lines, instant), lines, instant)
<1>1. PICK n \in Nat : n = Len(lines) /\ DOMAIN lines = 1..n
  OBVIOUS
<1>2. PICK g : g = CHOOSE k : TakesFrom(k, lines, instant, n)
  OBVIOUS
<1>3. TakesFrom(g, lines, instant, n)
  BY <1>2, TakesExists
<1>4. From(lines, instant) = g[n]
  BY <1>1, <1>2 DEF From, TakesFrom
<1>5. \A m \in 1..n : lines[m] \in ObservedLine /\ lines[m] \in LinesIn(lines)
  BY <1>1 DEF LinesIn
<1>6. Fits(g[n], lines, instant)
  BY <1>3, <1>5, TakenFits
<1> QED
  BY <1>4, <1>6

(* From returns lines of its argument, none before the instant.            *)
LEMMA FromIn ==
    ASSUME NEW lines \in Seq(ObservedLine), NEW instant \in Int
    PROVE  /\ From(lines, instant) \in Seq(ObservedLine)
           /\ \A i \in DOMAIN From(lines, instant) :
                /\ From(lines, instant)[i] \in LinesIn(lines)
                /\ From(lines, instant)[i].at >= instant
<1>1. PICK s : s = From(lines, instant)
  OBVIOUS
<1>2. Fits(s, lines, instant)
  BY <1>1, FromFits
<1> QED
  BY <1>1, <1>2 DEF Fits

(* The first lines taken are of the first lines, and no line is taken      *)
(* twice that is not there twice.                                          *)
Picks(s, lines, m) ==
    /\ s \in Seq(ObservedLine)
    /\ \A i \in DOMAIN s : \E j \in 1..m : s[i] = lines[j]
    /\ ~Doubled(s)

LEMMA PicksAppend ==
    ASSUME NEW lines, NEW m \in Nat \ {0}, NEW s, Picks(s, lines, m - 1),
           NEW line \in ObservedLine, line = lines[m],
           \A j \in 1..(m - 1) : lines[j].by # line.by
    PROVE  Picks(Append(s, line), lines, m)
<1>1. PICK r : r = Append(s, line)
  OBVIOUS
<1>2. s \in Seq(ObservedLine)
  BY DEF Picks
<1>3. r \in Seq(ObservedLine)
  BY <1>1, <1>2
<1>4. DOMAIN r = 1..(Len(s) + 1) /\ DOMAIN s = 1..Len(s) /\ Len(s) \in Nat
  BY <1>1, <1>2
<1>5. \A i \in DOMAIN r : \/ i = Len(s) + 1 /\ r[i] = line
                          \/ i \in DOMAIN s /\ r[i] = s[i]
  BY <1>1, <1>2, <1>4
<1>6. \A i \in DOMAIN s : \E j \in 1..(m - 1) : s[i] = lines[j]
  BY DEF Picks
<1>7. \A i \in DOMAIN s : s[i].by # line.by
  BY <1>6
<1>8. \A i, j \in DOMAIN s : s[i].by = s[j].by => i = j
  BY DEF Picks, Doubled
<1>9. \A i, j \in DOMAIN r : r[i].by = r[j].by => i = j
  BY <1>5, <1>7, <1>8
<1>10. \A i \in DOMAIN r : \E j \in 1..m : r[i] = lines[j]
  BY <1>5, <1>6
<1> QED
  BY <1>1, <1>3, <1>9, <1>10 DEF Picks, Doubled

(* So of lines each there once From takes each once.                       *)
LEMMA FromSingle ==
    ASSUME NEW lines \in Seq(ObservedLine), NEW instant \in Int, ~Doubled(lines)
    PROVE  ~Doubled(From(lines, instant))
<1>1. PICK n \in Nat : n = Len(lines) /\ DOMAIN lines = 1..n
  OBVIOUS
<1>2. PICK g : g = CHOOSE k : TakesFrom(k, lines, instant, n)
  OBVIOUS
<1>3. TakesFrom(g, lines, instant, n)
  BY <1>2, TakesExists
<1>4. From(lines, instant) = g[n]
  BY <1>1, <1>2 DEF From, TakesFrom
<1>5. \A i \in 1..n : lines[i] \in ObservedLine
  BY <1>1
<1>6. \A i, j \in 1..n : lines[i].by = lines[j].by => i = j
  BY <1>1 DEF Doubled
<1> DEFINE Good == {m \in 0..n : Picks(g[m], lines, m)}
<1>7. 0 \in Good
  <2>1. g[0] = <<>>
    BY <1>3 DEF TakesFrom
  <2>2. Picks(<<>>, lines, 0)
    BY DEF Picks, Doubled
  <2> QED
    BY <2>1, <2>2
<1>8. ASSUME NEW m \in 1..n, m - 1 \in Good PROVE m \in Good
  <2>1. PICK s : s = g[m - 1]
    OBVIOUS
  <2>2. g[m] = IF lines[m].at >= instant THEN Append(s, lines[m]) ELSE s
    <3>1. \A k \in 0..n : g[k] = IF k = 0 THEN <<>>
                        ELSE IF lines[k].at >= instant THEN Append(g[k - 1], lines[k])
                        ELSE g[k - 1]
      BY <1>3, Zenon DEF TakesFrom
    <3>2. m \in 0..n /\ m # 0
      OBVIOUS
    <3> QED
      BY <2>1, <3>1, <3>2, Zenon
  <2>3. Picks(s, lines, m - 1)
    BY <1>8, <2>1
  <2>4. PICK line \in ObservedLine : line = lines[m]
    BY <1>5
  <2>5. \A j \in 1..(m - 1) : lines[j].by # line.by
    <3>1. \A j \in 1..(m - 1) : j \in 1..n /\ j # m
      OBVIOUS
    <3> QED
      BY <1>6, <2>4, <3>1
  <2>6. Picks(Append(s, line), lines, m)
    <3>1. m \in Nat \ {0}
      OBVIOUS
    <3> HIDE DEF ObservedLine
    <3> QED
      BY <2>3, <2>4, <2>5, <3>1, PicksAppend
  <2>7. Picks(s, lines, m)
    <3>1. \A j \in 1..(m - 1) : j \in 1..m
      OBVIOUS
    <3> QED
      BY <2>3, <3>1 DEF Picks
  <2>8. Picks(g[m], lines, m)
    BY <2>2, <2>4, <2>6, <2>7
  <2> QED
    BY <2>8
<1> HIDE DEF Good
<1>9. \A m \in 1..n : m - 1 \in Good => m \in Good
  BY <1>8
<1>10. n \in Good
  <2>1. \A m \in 0..n : m \in Good
    BY <1>7, <1>9, UpTo
  <2>2. n \in 0..n
    OBVIOUS
  <2> QED
    BY <2>1, <2>2
<1>11. Picks(g[n], lines, n)
  BY <1>10 DEF Good
<1> QED
  BY <1>4, <1>11 DEF Picks

(* The maximum of naturals under a bound is one of them and the highest.   *)
LEMMA HighestIn ==
    ASSUME NEW S, S \subseteq Nat, S # {}, NEW bound \in Nat, \A n \in S : n <= bound
    PROVE  Max(S) \in S /\ \A n \in S : n <= Max(S)
<1> DEFINE T == {m \in Nat : bound - m \in S}
<1>1. T # {}
  <2>1. PICK n \in S : TRUE
    OBVIOUS
  <2>2. bound - n \in Nat /\ bound - (bound - n) = n
    BY <2>1
  <2>3. bound - n \in T
    BY <2>1, <2>2
  <2> QED
    BY <2>3
<1>2. PICK m \in T : \A k \in T : m <= k
  BY <1>1, NatLeast
<1>3. PICK top \in S : top = bound - m
  BY <1>2
<1>4. \A n \in S : top >= n
  <2> SUFFICES ASSUME NEW n \in S PROVE top >= n
    OBVIOUS
  <2>1. bound - n \in Nat /\ bound - (bound - n) = n
    OBVIOUS
  <2>2. bound - n \in T
    BY <2>1
  <2>3. m <= bound - n
    BY <1>2, <2>2
  <2> QED
    BY <1>3, <2>3
<1>5. Max(S) \in S /\ \A n \in S : Max(S) >= n
  <2>1. \E x \in S : \A n \in S : x >= n
    BY <1>4
  <2>2. Max(S) = CHOOSE x \in S : \A n \in S : x >= n
    BY DEF Max
  <2> QED
    BY <2>1, <2>2, Zenon
<1>6. \A n \in S : n <= Max(S)
  BY <1>5
<1> QED
  BY <1>5, <1>6

(* Lines that are not none have a latest timestamp: what Closing notes.    *)
LEMMA Highest ==
    ASSUME NEW lines \in Seq(ObservedLine), lines # <<>>
    PROVE  LET ats == {lines[i].at : i \in DOMAIN lines} IN
           /\ ats \subseteq Nat
           /\ Max(ats) \in ats /\ \A n \in ats : n <= Max(ats)
<1>1. PICK ats : ats = {lines[i].at : i \in DOMAIN lines}
  OBVIOUS
<1>2. PICK n \in Nat : n = Len(lines) /\ DOMAIN lines = 1..n /\ n # 0
  OBVIOUS
<1>3. \A i \in 1..n : lines[i].at \in Nat
  <2> SUFFICES ASSUME NEW i \in 1..n PROVE lines[i].at \in Nat
    OBVIOUS
  <2>1. PICK line \in ObservedLine : line = lines[i]
    BY <1>2
  <2>2. line.at \in Nat
    BY DEF ObservedLine
  <2> QED
    BY <2>1, <2>2
<1>4. ats \subseteq Nat /\ lines[1].at \in ats
  BY <1>1, <1>2, <1>3
<1>5. PICK f : f = [i \in 1..n |-> lines[i].at]
  OBVIOUS
<1>6. /\ \A i \in 1..n : f[i] \in Nat
      /\ ats = {f[i] : i \in 1..n}
  BY <1>1, <1>2, <1>3, <1>5
<1> DEFINE Good == {m \in 0..n : \E bound \in Nat : \A i \in 1..m : f[i] <= bound}
<1>7. 0 \in Good
  OBVIOUS
<1>8. ASSUME NEW m \in 1..n, m - 1 \in Good PROVE m \in Good
  <2>1. PICK bound \in Nat : \A i \in 1..(m - 1) : f[i] <= bound
    BY <1>8
  <2>2. PICK top \in Nat : top >= bound /\ top >= f[m]
    <3>1. f[m] \in Nat
      BY <1>6
    <3> QED
      BY <3>1
  <2>3. \A i \in 1..m : f[i] <= top
    BY <1>6, <2>1, <2>2
  <2> QED
    BY <2>3
<1> HIDE DEF Good
<1>9. \A m \in 1..n : m - 1 \in Good => m \in Good
  BY <1>8
<1>10. n \in Good
  BY <1>7, <1>9, UpTo
<1>11. PICK bound \in Nat : \A i \in 1..n : f[i] <= bound
  BY <1>10 DEF Good
<1>12. \A k \in ats : k <= bound
  BY <1>6, <1>11
<1>13. Max(ats) \in ats /\ \A k \in ats : k <= Max(ats)
  BY <1>4, <1>12, HighestIn
<1> QED
  BY <1>1, <1>4, <1>13, Zenon

(* The empty counts are counts.                                            *)
LEMMA Documents == Uncounted \in EvidenceCounts
  BY DEF Uncounted, EvidenceCounts

(* A hook that is done, or did not start, has its type.                    *)
LEMMA DoneTyped ==
    ASSUME NEW h PROVE RunTyped(Done, h) /\ RunTyped(Resting, h)
<1>1. <<>> \in Seq(ObservedLine) /\ Uncounted \in EvidenceCounts
  BY Documents
<1> HIDE DEF ObservedLine, EvidenceCounts
<1> QED
  BY <1>1 DEF RunTyped, Done, Resting, Rewriting, Places

(* Where one hook moves to a run of its type all keep theirs.              *)
LEMMA Moves ==
    ASSUME LearnTyped, NEW h \in Learners, NEW run, RunTyped(run, h), Proceeds(h, run)
    PROVE  /\ learners' = [g \in Learners |-> learners'[g]]
           /\ \A g \in Learners : RunTyped(learners'[g], g)
           /\ learners'[h] = run /\ \A g \in Learners \ {h} : learners'[g] = learners[g]
<1>1. PICK f : f = learners
  OBVIOUS
<1>2. f = [g \in Learners |-> f[g]] /\ \A g \in Learners : RunTyped(f[g], g)
  BY <1>1 DEF LearnTyped
<1>3. PICK k : k = learners'
  OBVIOUS
<1>4. k = [f EXCEPT ![h] = run]
  BY <1>1, <1>3 DEF Proceeds
<1>5. k[h] = run /\ \A g \in Learners \ {h} : k[g] = f[g]
  BY <1>2, <1>4
<1>6. k = [g \in Learners |-> k[g]]
  BY <1>2, <1>4
<1>7. \A g \in Learners : RunTyped(k[g], g)
  BY <1>2, <1>5
<1> QED
  BY <1>1, <1>3, <1>5, <1>6, <1>7

(* What follows a replacement is typed, whichever comes next.              *)
LEMMA FollowingTyped ==
    ASSUME NEW h \in Learners, NEW run, RunTyped(run, h), run.pc = "replacing"
    PROVE  RunTyped(Following(run), h)
<1> HIDE DEF ObservedLine, EvidenceCounts
<1>0. <<>> \in Seq(ObservedLine)
  OBVIOUS
<1>1. CASE run.next = "add"
  <2>1. run.lines \o run.seen \in Seq(ObservedLine)
    BY DEF RunTyped
  <2> QED
    BY <1>1, <2>1 DEF RunTyped, Following, Rewrite, Rewriting
<1>2. CASE run.next = "close"
  <2>1. PICK top : top = Max({run.lines[i].at : i \in DOMAIN run.lines})
    OBVIOUS
  <2>2. run.lines \in Seq(ObservedLine) /\ run.lines # <<>>
    BY <1>2 DEF RunTyped
  <2>3. top \in Nat
    <3>1. PICK lines : lines = run.lines
      OBVIOUS
    <3> QED
      BY <2>1, <2>2, <3>1, Highest
  <2>4. Following(run) = [run EXCEPT !.pc = "opening", !.file = "meta", !.text = top,
                                     !.next = "done"]
    BY <1>2, <2>1 DEF Following, Closing, Rewrite
  <2>5. h \in Extractors
    BY <1>2 DEF RunTyped, Rewriting
  <2> QED
    BY <2>3, <2>4, <2>5 DEF RunTyped, Rewriting
<1>3. CASE run.next = "done"
  BY <1>3, DoneTyped DEF Following
<1>4. CASE run.next = "filtering"
  <2>1. Following(run) = [run EXCEPT !.pc = "filtering", !.text = <<>>]
    BY <1>4 DEF Following
  <2>2. h \in Extractors /\ run.file = "observations"
    BY <1>4 DEF RunTyped, Rewriting
  <2> QED
    BY <1>0, <1>4, <2>1, <2>2 DEF RunTyped
<1>5. run.next \in {"add", "close", "done", "filtering"}
  BY DEF RunTyped, Rewriting
<1> QED
  BY <1>1, <1>2, <1>3, <1>4, <1>5

(* The part of the types that is of the files.                             *)
FilesTyped ==
    /\ contents = [observations |-> contents.observations, document |-> contents.document,
                   meta |-> contents.meta]
    /\ contents.observations \in Seq(ObservedLine) /\ contents.document \in EvidenceCounts
    /\ contents.meta \in Nat
    /\ siblings = [observations |-> siblings.observations, document |-> siblings.document,
                   meta |-> siblings.meta]
    /\ siblings.observations \in SUBSET Seq(ObservedLine)
    /\ siblings.document \in SUBSET EvidenceCounts /\ siblings.meta \in SUBSET Nat

(* Files that are not written keep their types.                            *)
LEMMA FilesStay == ASSUME LearnTyped, UNCHANGED <<contents, siblings>> PROVE FilesTyped'
  BY DEF LearnTyped, FilesTyped

(* So does a clock that stands.                                            *)
LEMMA ClockStays == ASSUME LearnTyped, UNCHANGED clock PROVE (clock \in Nat /\ clock >= 1)'
  BY DEF LearnTyped

(* A hook moves, and the files are typed after it: all is.                 *)
LEMMA HookMoves ==
    ASSUME LearnTyped, NEW h \in Learners, NEW run, RunTyped(run, h), Proceeds(h, run),
           UNCHANGED clock, FilesTyped'
    PROVE  LearnTyped'
<1>1. /\ learners' = [g \in Learners |-> learners'[g]]
      /\ \A g \in Learners : RunTyped(learners'[g], g)
  BY Moves
<1>2. (clock \in Nat /\ clock >= 1)'
  BY ClockStays
<1> HIDE DEF RunTyped
<1> QED
  BY <1>1, <1>2 DEF LearnTyped, FilesTyped

(* What a hook writes is of the kind of the file it writes.                *)
LEMMA FileKinds ==
    ASSUME NEW h \in Learners, NEW run, RunTyped(run, h)
    PROVE  /\ run.file \in Files
           /\ run.file = "observations" => run.text \in Seq(ObservedLine)
           /\ run.file = "document" => run.text \in EvidenceCounts
           /\ run.file = "meta" => run.text \in Nat
  BY DEF RunTyped, Files

(* An unreadable file counts as an empty one of its kind.                  *)
LEMMA UnreadTyped ==
    /\ Unread.observations \in Seq(ObservedLine) /\ Unread.document \in EvidenceCounts
    /\ Unread.meta \in Nat
    /\ Unread.observations = <<>> /\ Unread.document = Uncounted /\ Unread.meta = 0
    /\ DOMAIN Unread = Files
  BY Documents DEF Unread, Files

(* A sibling may be filled with a text of its file's kind,                 *)
LEMMA SiblingTyped ==
    ASSUME LearnTyped, NEW f \in Files, NEW text,
           f = "observations" => text \in Seq(ObservedLine),
           f = "document" => text \in EvidenceCounts,
           f = "meta" => text \in Nat,
           siblings' = [siblings EXCEPT ![f] = {text}], UNCHANGED contents
    PROVE  FilesTyped'
<1> HIDE DEF ObservedLine, EvidenceCounts
<1>1. CASE f = "observations"
  BY <1>1 DEF LearnTyped, FilesTyped
<1>2. CASE f = "document"
  BY <1>2 DEF LearnTyped, FilesTyped
<1>3. CASE f = "meta"
  BY <1>3 DEF LearnTyped, FilesTyped
<1> QED
  BY <1>1, <1>2, <1>3 DEF Files

(* or take the place of its file,                                          *)
LEMMA SiblingCleared ==
    ASSUME LearnTyped, NEW f \in Files, NEW text \in siblings[f],
           contents' = [contents EXCEPT ![f] = text], siblings' = [siblings EXCEPT ![f] = {}]
    PROVE  FilesTyped'
<1> HIDE DEF ObservedLine, EvidenceCounts
<1>1. CASE f = "observations"
  BY <1>1 DEF LearnTyped, FilesTyped
<1>2. CASE f = "document"
  BY <1>2 DEF LearnTyped, FilesTyped
<1>3. CASE f = "meta"
  BY <1>3 DEF LearnTyped, FilesTyped
<1> QED
  BY <1>1, <1>2, <1>3 DEF Files

(* or be filled when it already has taken it.                              *)
LEMMA FileTyped ==
    ASSUME LearnTyped, NEW f \in Files, NEW text,
           f = "observations" => text \in Seq(ObservedLine),
           f = "document" => text \in EvidenceCounts,
           f = "meta" => text \in Nat,
           contents' = [contents EXCEPT ![f] = text], UNCHANGED siblings
    PROVE  FilesTyped'
<1> HIDE DEF ObservedLine, EvidenceCounts
<1>1. CASE f = "observations"
  BY <1>1 DEF LearnTyped, FilesTyped
<1>2. CASE f = "document"
  BY <1>2 DEF LearnTyped, FilesTyped
<1>3. CASE f = "meta"
  BY <1>3 DEF LearnTyped, FilesTyped
<1> QED
  BY <1>1, <1>2, <1>3 DEF Files

(* The types hold at first.                                                *)
LEMMA TypedAtFirst == InstinctInit => LearnTyped
<1> SUFFICES ASSUME InstinctInit PROVE LearnTyped
  OBVIOUS
<1>1. PICK idle \in SUBSET Learners :
        learners = [h \in Learners |-> IF h \in idle THEN Done ELSE Resting]
  BY DEF InstinctInit
<1>2. learners = [h \in Learners |-> learners[h]] /\ \A h \in Learners : RunTyped(learners[h], h)
  BY <1>1, DoneTyped
<1>3. clock = 1 /\ contents = Unread /\ siblings = [f \in Files |-> {}]
  BY UnreadTyped DEF InstinctInit
<1>4. /\ siblings = [observations |-> siblings.observations, document |-> siblings.document,
                     meta |-> siblings.meta]
      /\ siblings.observations = {} /\ siblings.document = {} /\ siblings.meta = {}
  BY <1>3 DEF Files
<1>5. contents = [observations |-> contents.observations, document |-> contents.document,
                   meta |-> contents.meta]
  BY <1>3 DEF Unread
<1> QED
  BY <1>2, <1>3, <1>4, <1>5, UnreadTyped DEF LearnTyped

(* A run that goes on writing keeps its type.                              *)
LEMMA WritesOn ==
    ASSUME NEW h, NEW run, RunTyped(run, h), run.pc \in Rewriting,
           NEW pc \in Rewriting, NEW into \in Places
    PROVE  RunTyped([run EXCEPT !.pc = pc, !.into = into], h)
<1> HIDE DEF ObservedLine, EvidenceCounts
<1>1. PICK next : next = [run EXCEPT !.pc = pc, !.into = into]
  OBVIOUS
<1>2. next = [pc |-> pc, seen |-> run.seen, since |-> run.since, lines |-> run.lines,
              document |-> run.document, file |-> run.file, text |-> run.text,
              into |-> into, next |-> run.next]
  BY <1>1 DEF RunTyped
<1>3. RunTyped(next, h)
  BY <1>2 DEF RunTyped, Rewriting
<1> QED
  BY <1>1, <1>3

(* Each step keeps the types: opening the sibling,                         *)
LEMMA OpenKeepsTypes ==
    ASSUME LearnTyped, NEW h \in Learners, OpenSibling(h) PROVE LearnTyped'
<1>1. PICK run : run = learners[h]
  OBVIOUS
<1>2. RunTyped(run, h) /\ run.pc = "opening"
  BY <1>1 DEF LearnTyped, OpenSibling
<1>3. PICK f \in Files : f = run.file
  BY <1>2, FileKinds
<1>4. siblings' = [siblings EXCEPT ![f] = {Unread[f]}] /\ UNCHANGED <<clock, contents>>
      /\ Proceeds(h, [run EXCEPT !.pc = "filling", !.into = "sibling"])
  BY <1>1, <1>3 DEF OpenSibling
<1>5. RunTyped([run EXCEPT !.pc = "filling", !.into = "sibling"], h)
  <2> HIDE DEF RunTyped
  <2> QED
    BY <1>2, WritesOn DEF Rewriting, Places
<1>6. FilesTyped'
  <2>1. PICK text : text = Unread[f]
    OBVIOUS
  <2>2. /\ f = "observations" => text \in Seq(ObservedLine) 
        /\ f = "document" => text \in EvidenceCounts
        /\ f = "meta" => text \in Nat
    BY <2>1, UnreadTyped
  <2> QED
    BY <1>4, <2>1, <2>2, SiblingTyped
<1>7. PICK next : next = [run EXCEPT !.pc = "filling", !.into = "sibling"]
  OBVIOUS
<1>8. RunTyped(next, h) /\ Proceeds(h, next)
  BY <1>4, <1>5, <1>7
<1> QED
  BY <1>4, <1>6, <1>8, HookMoves

(* The end of a text that was longer has lines of that text.               *)
LEMMA EndOf ==
    ASSUME NEW s \in Seq(ObservedLine), NEW n \in Nat \ {0}
    PROVE  /\ SubSeq(s, n, Len(s)) \in Seq(ObservedLine)
           /\ LinesIn(SubSeq(s, n, Len(s))) \subseteq LinesIn(s)
<1>1. PICK r : r = SubSeq(s, n, Len(s))
  OBVIOUS
<1>2. DOMAIN s = 1..Len(s) /\ Len(s) \in Nat
  OBVIOUS
<1>3. CASE n > Len(s)
  <2>1. r = <<>>
    BY <1>1, <1>2, <1>3
  <2> QED
    BY <1>1, <2>1 DEF LinesIn
<1>4. CASE n <= Len(s)
  <2>1. r = [i \in 1..(Len(s) - n + 1) |-> s[i + n - 1]]
    BY <1>1, <1>2, <1>4
  <2>2. \A i \in 1..(Len(s) - n + 1) : i + n - 1 \in DOMAIN s
    BY <1>2, <1>4
  <2>3. Len(s) - n + 1 \in Nat
    BY <1>2, <1>4
  <2>4. r \in Seq(ObservedLine)
    BY <2>1, <2>2, <2>3
  <2>5. LinesIn(r) \subseteq LinesIn(s)
    BY <2>1, <2>2 DEF LinesIn
  <2> QED
    BY <1>1, <2>4, <2>5
<1> QED
  BY <1>2, <1>3, <1>4

(* Two sequences in a row have the lines of both.                          *)
LEMMA Joined ==
    ASSUME NEW s \in Seq(ObservedLine), NEW t \in Seq(ObservedLine)
    PROVE  LinesIn(s \o t) \subseteq LinesIn(s) \cup LinesIn(t)
<1>1. PICK r : r = s \o t
  OBVIOUS
<1>2. /\ DOMAIN s = 1..Len(s) /\ DOMAIN t = 1..Len(t) /\ DOMAIN r = 1..(Len(s) + Len(t))
      /\ Len(s) \in Nat /\ Len(t) \in Nat
  BY <1>1
<1>3. \A i \in DOMAIN r : \/ i \in DOMAIN s /\ r[i] = s[i]
                          \/ i - Len(s) \in DOMAIN t /\ r[i] = t[i - Len(s)]
  BY <1>1, <1>2
<1>4. LinesIn(r) \subseteq LinesIn(s) \cup LinesIn(t)
  BY <1>3 DEF LinesIn
<1> QED
  BY <1>1, <1>4

(* A text that is written over another is of the kind of its file, and has *)
(* lines of both.                                                          *)
OfKind(f, text) ==
    /\ f = "observations" => text \in Seq(ObservedLine)
    /\ f = "document" => text \in EvidenceCounts
    /\ f = "meta" => text \in Nat

LEMMA OverwrittenTyped ==
    ASSUME NEW f \in Files, NEW text, NEW under, OfKind(f, text), OfKind(f, under),
           NEW result \in Overwritten(f, text, under)
    PROVE  /\ OfKind(f, result)
           /\ f = "observations" =>
                LinesIn(result) \subseteq LinesIn(text) \cup LinesIn(under)
<1>1. CASE f = "observations"
  <2>1. PICK s \in Seq(ObservedLine) : s = text
    BY <1>1 DEF OfKind
  <2>2. PICK u \in Seq(ObservedLine) : u = under
    BY <1>1 DEF OfKind
  <2>3. \E n \in {Len(s) + 1, Len(s) + IF s = <<>> THEN 1 ELSE 2} :
          result = s \o SubSeq(u, n, Len(u))
    BY <1>1, <2>1, <2>2 DEF Overwritten
  <2>4. PICK n \in Nat \ {0} : result = s \o SubSeq(u, n, Len(u))
    <3>1. PICK n : /\ n = Len(s) + 1 \/ n = Len(s) + IF s = <<>> THEN 1 ELSE 2
                   /\ result = s \o SubSeq(u, n, Len(u))
      BY <2>3
    <3>2. Len(s) \in Nat
      OBVIOUS
    <3>3. n \in Nat \ {0}
      BY <3>1, <3>2
    <3> QED
      BY <3>1, <3>3
  <2>5. PICK t \in Seq(ObservedLine) :
          t = SubSeq(u, n, Len(u)) /\ LinesIn(t) \subseteq LinesIn(u)
    BY EndOf
  <2>6. LinesIn(s \o t) \subseteq LinesIn(s) \cup LinesIn(t)
    BY Joined
  <2>7. s \o t \in Seq(ObservedLine) /\ result = s \o t
    BY <2>4, <2>5
  <2> QED
    BY <1>1, <2>1, <2>2, <2>5, <2>6, <2>7 DEF OfKind
<1>2. CASE f = "document"
  <2>1. result \in {text, under, Unread.document}
    BY <1>2 DEF Overwritten
  <2> QED
    BY <1>2, <2>1, UnreadTyped DEF OfKind
<1>3. CASE f = "meta"
  BY <1>3 DEF Overwritten, OfKind
<1> QED
  BY <1>1, <1>2, <1>3 DEF Files

(* What a hook has opened reads as a text of the file's kind.              *)
LEMMA OpenedTyped ==
    ASSUME LearnTyped, NEW run, run.file \in Files, NEW under \in Opened(run)
    PROVE  /\ OfKind(run.file, under)
           /\ run.file = "observations" => \/ under \in siblings.observations
                                           \/ under = contents.observations \/ under = <<>>
<1>1. CASE run.file = "observations"
  BY <1>1, UnreadTyped DEF Opened, LearnTyped, OfKind
<1>2. CASE run.file = "document"
  BY <1>2, UnreadTyped DEF Opened, LearnTyped, OfKind
<1>3. CASE run.file = "meta"
  BY <1>3, UnreadTyped DEF Opened, LearnTyped, OfKind
<1> QED
  BY <1>1, <1>2, <1>3 DEF Files

(* What a hook that fills its file leaves there.                           *)
LEMMA Fills ==
    ASSUME LearnTyped, NEW h \in Learners, FillSibling(h)
    PROVE  \E under, text :
             LET run == learners[h] f == run.file IN
             /\ OfKind(f, text) /\ text \in Overwritten(f, run.text, under)
             /\ under \in Opened(run)
             /\ f = "observations" =>
                  /\ LinesIn(text) \subseteq LinesIn(run.text) \cup LinesIn(under)
                  /\ under \in siblings.observations \/ under = contents.observations
                                                   \/ under = <<>>
             /\ siblings' = IF run.into = "sibling" THEN [siblings EXCEPT ![f] = {text}]
                            ELSE siblings
             /\ contents' = IF run.into = "file" THEN [contents EXCEPT ![f] = text] ELSE contents
             /\ recounts' = (recounts \/ (f = "observations" /\ Doubled(text)))
<1>1. PICK run : run = learners[h] /\ RunTyped(run, h)
  BY DEF LearnTyped
<1>2. PICK f \in Files : f = run.file
  BY <1>1, FileKinds
<1>3. PICK under \in Opened(run) : \E text \in Overwritten(f, run.text, under) :
         /\ siblings' = IF run.into = "sibling" THEN [siblings EXCEPT ![f] = {text}]
                        ELSE siblings
         /\ contents' = IF run.into = "file" THEN [contents EXCEPT ![f] = text] ELSE contents
         /\ recounts' = (recounts \/ (f = "observations" /\ Doubled(text)))
  BY <1>1, <1>2 DEF FillSibling
<1>4. PICK text \in Overwritten(f, run.text, under) :
         /\ siblings' = IF run.into = "sibling" THEN [siblings EXCEPT ![f] = {text}]
                        ELSE siblings
         /\ contents' = IF run.into = "file" THEN [contents EXCEPT ![f] = text] ELSE contents
         /\ recounts' = (recounts \/ (f = "observations" /\ Doubled(text)))
  BY <1>3
<1>5. PICK written : written = run.text /\ OfKind(f, written)
  BY <1>1, <1>2, FileKinds DEF OfKind
<1>6. /\ OfKind(f, under)
      /\ f = "observations" => \/ under \in siblings.observations
                               \/ under = contents.observations \/ under = <<>>
  BY <1>2, OpenedTyped
<1>7. /\ OfKind(f, text)
      /\ f = "observations" => LinesIn(text) \subseteq LinesIn(written) \cup LinesIn(under)
  BY <1>4, <1>5, <1>6, OverwrittenTyped
<1> HIDE DEF Overwritten, Opened, OfKind
<1> QED
  BY <1>1, <1>2, <1>4, <1>5, <1>6, <1>7

(* filling it, or the file it has become,                                  *)
LEMMA FillKeepsTypes ==
    ASSUME LearnTyped, NEW h \in Learners, FillSibling(h) PROVE LearnTyped'
<1>1. PICK run : run = learners[h]
  OBVIOUS
<1>2. RunTyped(run, h) /\ run.pc = "filling"
  BY <1>1 DEF LearnTyped, FillSibling
<1>3. PICK f \in Files : f = run.file
  BY <1>2, FileKinds
<1>4. PICK text :
        /\ OfKind(f, text)
        /\ siblings' = IF run.into = "sibling" THEN [siblings EXCEPT ![f] = {text}] ELSE siblings
        /\ contents' = IF run.into = "file" THEN [contents EXCEPT ![f] = text] ELSE contents
  BY <1>1, <1>3, Fills
<1>5. UNCHANGED clock /\ Proceeds(h, [run EXCEPT !.pc = "replacing", !.into = "none"])
  BY <1>1 DEF FillSibling
<1>6. RunTyped([run EXCEPT !.pc = "replacing", !.into = "none"], h)
  <2> HIDE DEF RunTyped
  <2> QED
    BY <1>2, WritesOn DEF Rewriting, Places
<1>7. FilesTyped'
  <2>1. /\ f = "observations" => text \in Seq(ObservedLine)
        /\ f = "document" => text \in EvidenceCounts
        /\ f = "meta" => text \in Nat
    BY <1>4 DEF OfKind
  <2>2. CASE run.into = "sibling"
    BY <1>4, <2>1, <2>2, SiblingTyped
  <2>3. CASE run.into = "file"
    BY <1>4, <2>1, <2>3, FileTyped
  <2>4. CASE run.into \notin {"sibling", "file"}
    BY <1>4, <2>4, FilesStay
  <2> QED
    BY <2>2, <2>3, <2>4
<1>8. PICK next : next = [run EXCEPT !.pc = "replacing", !.into = "none"]
  OBVIOUS
<1>9. RunTyped(next, h) /\ Proceeds(h, next)
  BY <1>5, <1>6, <1>8
<1> QED
  BY <1>5, <1>7, <1>9, HookMoves

(* A sibling moves to a place.                                             *)
LEMMA PlacesMove == \A into \in Places : Moved[into] \in Places /\ Deleted[into] \in Places
<1>1. /\ Moved["none"] = "none" /\ Moved["sibling"] = "file"
      /\ Moved["file"] = "gone" /\ Moved["gone"] = "gone"
  BY DEF Moved
<1>2. /\ Deleted["none"] = "none" /\ Deleted["sibling"] = "gone"
      /\ Deleted["file"] = "file" /\ Deleted["gone"] = "gone"
  BY DEF Deleted, Moved
<1> QED
  BY <1>1, <1>2 DEF Places

(* Where one hook moves on and moves the sibling, the others are as they   *)
(* were but for the place of what they have open of the same file.         *)
LEMMA MovesOthers ==
    ASSUME LearnTyped, NEW h \in Learners, NEW run, RunTyped(run, h), NEW f, NEW place,
           \A into \in Places : place[into] \in Places, ProceedsMoving(h, run, f, place)
    PROVE  /\ learners' = [g \in Learners |-> learners'[g]]
           /\ \A g \in Learners : RunTyped(learners'[g], g)
           /\ learners'[h] = run
           /\ \A g \in Learners \ {h} :
                LET old == learners[g] new == learners'[g] IN
                /\ new.pc = old.pc /\ new.seen = old.seen /\ new.since = old.since
                /\ new.lines = old.lines /\ new.document = old.document /\ new.file = old.file
                /\ new.text = old.text /\ new.next = old.next
                /\ old.file # f => new.into = old.into
<1>1. PICK k : k = learners'
  OBVIOUS
<1>2. k = [g \in Learners |-> IF g = h THEN run
            ELSE IF learners[g].file = f THEN [learners[g] EXCEPT !.into = place[@]]
            ELSE learners[g]]
  BY <1>1 DEF ProceedsMoving
<1>3. k = [g \in Learners |-> k[g]] /\ k[h] = run
  BY <1>2
<1>4. ASSUME NEW g \in Learners \ {h}
      PROVE  LET old == learners[g] new == k[g] IN
             /\ RunTyped(new, g)
             /\ new.pc = old.pc /\ new.seen = old.seen /\ new.since = old.since
             /\ new.lines = old.lines /\ new.document = old.document /\ new.file = old.file
             /\ new.text = old.text /\ new.next = old.next
             /\ old.file # f => new.into = old.into
  <2>1. PICK old : old = learners[g] /\ RunTyped(old, g)
    BY DEF LearnTyped
  <2>2. PICK new : new = k[g]
    OBVIOUS
  <2>3. PICK into \in Places : into = place[old.into]
    BY <2>1 DEF RunTyped
  <2>4. new = IF old.file = f THEN [old EXCEPT !.into = into] ELSE old
    BY <1>2, <2>1, <2>2, <2>3
  <2>5. RunTyped([old EXCEPT !.into = into], g)
    <3> HIDE DEF ObservedLine, EvidenceCounts
    <3> QED
      BY <2>1, <2>3 DEF RunTyped, Rewriting
  <2>6. RunTyped(new, g)
    BY <2>1, <2>4, <2>5
  <2> QED
    BY <2>1, <2>2, <2>4, <2>6 DEF RunTyped
<1>5. \A g \in Learners : RunTyped(k[g], g)
  BY <1>3, <1>4
<1> HIDE DEF RunTyped
<1> QED
  BY <1>1, <1>3, <1>4, <1>5

(* A hook moves on so, and the files are typed after it: all is.           *)
LEMMA HookMovesOthers ==
    ASSUME LearnTyped, NEW h \in Learners, NEW run, RunTyped(run, h), NEW f, NEW place,
           \A into \in Places : place[into] \in Places, ProceedsMoving(h, run, f, place),
           UNCHANGED clock, FilesTyped'
    PROVE  LearnTyped'
<1>1. /\ learners' = [g \in Learners |-> learners'[g]]
      /\ \A g \in Learners : RunTyped(learners'[g], g)
  BY MovesOthers
<1>2. (clock \in Nat /\ clock >= 1)'
  BY ClockStays
<1> HIDE DEF RunTyped
<1> QED
  BY <1>1, <1>2 DEF LearnTyped, FilesTyped

(* replacing the file, which moves the sibling other hooks have open,      *)
LEMMA ReplaceKeepsTypes ==
    ASSUME LearnTyped, NEW h \in Learners, ReplaceFile(h) PROVE LearnTyped'
<1>1. PICK run : run = learners[h]
  OBVIOUS
<1>2. RunTyped(run, h) /\ run.pc = "replacing"
  BY <1>1 DEF LearnTyped, ReplaceFile
<1>3. PICK f \in Files : f = run.file
  BY <1>2, FileKinds
<1>4. PICK text \in siblings[f] : contents' = [contents EXCEPT ![f] = text]
  BY <1>1, <1>3 DEF ReplaceFile
<1>5. siblings' = [siblings EXCEPT ![f] = {}] /\ UNCHANGED clock
  BY <1>1, <1>3 DEF ReplaceFile
<1>6. FilesTyped'
  BY <1>4, <1>5, SiblingCleared
<1>7. PICK next : next = Following(run)
  OBVIOUS
<1>8. RunTyped(next, h)
  BY <1>2, <1>7, FollowingTyped
<1>9. ProceedsMoving(h, next, f, Moved)
  BY <1>1, <1>3, <1>7 DEF ReplaceFile
<1>10. PICK place : place = Moved /\ \A into \in Places : place[into] \in Places
  BY PlacesMove
<1> HIDE DEF RunTyped, ProceedsMoving
<1> QED
  BY <1>5, <1>6, <1>8, <1>9, <1>10, HookMovesOthers

(* and deleting it, which takes it from them.                              *)
LEMMA UnlinkKeepsTypes ==
    ASSUME LearnTyped, NEW h \in Learners, Unlink(h) PROVE LearnTyped'
<1>1. PICK f \in Files : f = learners[h].file
  BY FileKinds DEF LearnTyped
<1>2. siblings' = [siblings EXCEPT ![f] = {}] /\ UNCHANGED <<clock, contents>>
  BY <1>1 DEF Unlink
<1>3. FilesTyped'
  <2> HIDE DEF ObservedLine, EvidenceCounts
  <2>1. CASE f = "observations"
    BY <1>2, <2>1 DEF LearnTyped, FilesTyped
  <2>2. CASE f = "document"
    BY <1>2, <2>2 DEF LearnTyped, FilesTyped
  <2>3. CASE f = "meta"
    BY <1>2, <2>3 DEF LearnTyped, FilesTyped
  <2> QED
    BY <2>1, <2>2, <2>3 DEF Files
<1>4. PICK next : next = Done /\ RunTyped(next, h)
  BY DoneTyped
<1>5. ProceedsMoving(h, next, f, Deleted)
  BY <1>1, <1>4 DEF Unlink
<1>6. PICK place : place = Deleted /\ \A into \in Places : place[into] \in Places
  BY PlacesMove
<1> HIDE DEF RunTyped, ProceedsMoving
<1> QED
  BY <1>2, <1>3, <1>4, <1>5, <1>6, HookMovesOthers

(* A step that writes no file keeps the types if the run has its own.      *)
LEMMA HookSteps ==
    ASSUME LearnTyped, NEW h \in Learners, NEW run, RunTyped(run, h), Proceeds(h, run),
           UNCHANGED <<clock, contents, siblings>>
    PROVE  LearnTyped'
<1>1. FilesTyped'
  BY FilesStay
<1> QED
  BY <1>1, HookMoves

(* What is kept of the observations are observations.                      *)
LEMMA ResultOfReading ==
    ASSUME LearnTyped PROVE Kept(contents.observations) \in Seq(ObservedLine)
<1>1. contents.observations \in Seq(ObservedLine) /\ clock - Retention \in Int
  BY InstinctsAssumption DEF LearnTyped
<1> QED
  BY <1>1, FromIn DEF Kept

(* What is new are lines of those kept, and later than the last extraction *)
(* if there was one.                                                       *)
LEMMA NewIn ==
    ASSUME NEW lines \in Seq(ObservedLine), NEW since \in Nat
    PROVE  /\ New(lines, since) \in Seq(ObservedLine)
           /\ \A i \in DOMAIN New(lines, since) : New(lines, since)[i] \in LinesIn(lines)
           /\ since # 0 => \A i \in DOMAIN New(lines, since) : New(lines, since)[i].at >= since + 1
<1>1. CASE since = 0
  BY <1>1 DEF New, LinesIn
<1>2. CASE since # 0
  <2>1. since + 1 \in Int
    OBVIOUS
  <2>2. New(lines, since) = From(lines, since + 1)
    BY <1>2 DEF New
  <2> QED
    BY <2>1, <2>2, FromIn
<1> QED
  BY <1>1, <1>2

(* What is found in a sequence are places of it, finitely many.            *)
LEMMA RecoveriesFinite ==
    ASSUME NEW lines \in Seq(ObservedLine), NEW pair
    PROVE  IsFiniteSet(Recoveries(lines, pair)) /\ Cardinality(Recoveries(lines, pair)) \in Nat
<1>1. PICK n \in Nat : DOMAIN lines = 1..n
  OBVIOUS
<1>2. PICK T : T = (1..n) \X (1..n)
  OBVIOUS
<1>3. IsFiniteSet(1..n)
  BY FS_Interval
<1>4. IsFiniteSet(T)
  BY <1>2, <1>3, FS_Product
<1>5. PICK R : R = Recoveries(lines, pair)
  OBVIOUS
<1>6. R \subseteq T
  <2>1. R \subseteq (DOMAIN lines) \X (DOMAIN lines)
    BY <1>5, Zenon DEF Recoveries
  <2> QED
    BY <1>1, <1>2, <2>1
<1>7. IsFiniteSet(R)
  BY <1>4, <1>6, FS_Subset
<1> QED
  BY <1>5, <1>7, FS_CardinalityType

(* Counts with what was found are counts.                                  *)
LEMMA CountedTyped ==
    ASSUME NEW document \in EvidenceCounts, NEW lines \in Seq(ObservedLine)
    PROVE  Counted(document, lines) \in EvidenceCounts
<1>1. PICK merged : merged = Counted(document, lines)
  OBVIOUS
<1>2. DOMAIN document = Observers \X Observers
  BY DEF EvidenceCounts
<1>3. PICK found : found = [pair \in Observers \X Observers |-> Cardinality(Recoveries(lines, pair))]
  OBVIOUS
<1>4. \A pair \in Observers \X Observers : found[pair] \in Nat /\ document[pair] \in Nat
  <2> SUFFICES ASSUME NEW pair \in Observers \X Observers
               PROVE  found[pair] \in Nat /\ document[pair] \in Nat
    OBVIOUS
  <2>1. Cardinality(Recoveries(lines, pair)) \in Nat
    BY RecoveriesFinite
  <2> QED
    BY <1>3, <2>1 DEF EvidenceCounts
<1>5. merged = [pair \in Observers \X Observers |-> document[pair] + found[pair]]
  BY <1>1, <1>2, <1>3 DEF Counted
<1>6. \A pair \in Observers \X Observers : document[pair] + found[pair] \in Nat
  BY <1>4
<1> QED
  BY <1>1, <1>5, <1>6 DEF EvidenceCounts

(* A rewrite of each file is typed.                                        *)
LEMMA RewriteTyped ==
    ASSUME NEW h \in Learners, NEW run, RunTyped(run, h), NEW f \in Files, NEW text, NEW next,
           \/ /\ f = "observations" /\ text \in Seq(ObservedLine)
              /\ \/ h \in Observers /\ next \in {"add", "done"}
                 \/ h \in Extractors /\ next = "filtering"
           \/ f = "document" /\ text \in EvidenceCounts /\ h \in Extractors /\ next = "close"
              /\ run.lines # <<>>
           \/ f = "meta" /\ text \in Nat /\ h \in Extractors /\ next = "done"
    PROVE  RunTyped(Rewrite(run, f, text, next), h)
<1> HIDE DEF ObservedLine, EvidenceCounts
<1>1. PICK other : other = Rewrite(run, f, text, next)
  OBVIOUS
<1>2. other = [pc |-> "opening", seen |-> run.seen, since |-> run.since, lines |-> run.lines,
              document |-> run.document, file |-> f, text |-> text,
              into |-> run.into, next |-> next]
  BY <1>1 DEF RunTyped, Rewrite
<1>3. RunTyped(other, h)
  BY <1>2 DEF RunTyped, Rewriting
<1> QED
  BY <1>1, <1>3

(* So is the end of an extraction, and no line it counted is later than    *)
(* the time it notes.                                                      *)
LEMMA ClosingTyped ==
    ASSUME NEW h \in Extractors, NEW run, RunTyped(run, h), run.lines # <<>>
    PROVE  /\ RunTyped(Closing(run), h)
           /\ Closing(run).text \in Nat
           /\ \A i \in DOMAIN run.lines : run.lines[i].at <= Closing(run).text
           /\ Closing(run) = [run EXCEPT !.pc = "opening", !.file = "meta",
                                         !.text = Closing(run).text, !.next = "done"]
<1>1. PICK lines \in Seq(ObservedLine) : lines = run.lines
  BY DEF RunTyped
<1>2. PICK ats : ats = {lines[i].at : i \in DOMAIN lines}
  OBVIOUS
<1>3. PICK top : top = Max(ats)
  OBVIOUS
<1>4. top \in Nat /\ \A n \in ats : n <= top
  BY <1>1, <1>2, <1>3, Highest
<1>5. \A i \in DOMAIN lines : lines[i].at <= top
  BY <1>2, <1>4
<1>6. Closing(run) = Rewrite(run, "meta", top, "done")
  BY <1>1, <1>2, <1>3 DEF Closing
<1>7. "meta" \in Files /\ h \in Learners
  BY DEF Files, Learners
<1>8. RunTyped(Rewrite(run, "meta", top, "done"), h)
  BY <1>4, <1>7, RewriteTyped
<1>9. Rewrite(run, "meta", top, "done") =
        [run EXCEPT !.pc = "opening", !.file = "meta", !.text = top, !.next = "done"]
  BY DEF Rewrite
<1>10. Rewrite(run, "meta", top, "done").text = top
  BY <1>9 DEF RunTyped
<1> QED
  BY <1>1, <1>4, <1>5, <1>6, <1>8, <1>9, <1>10

(* The types are kept by an observer that starts,                          *)
LEMMA ObserveKeepsTypes ==
    ASSUME LearnTyped, NEW o \in Observers, Observe(o) PROVE LearnTyped'
<1>1. PICK chat \in Chats, kind \in Kinds : Proceeds(o,
          [Resting EXCEPT !.pc = "reading", !.seen = <<Observation(o, chat, kind)>>])
  BY DEF Observe
<1>2. PICK line : line = Observation(o, chat, kind)
  OBVIOUS
<1>3. line \in ObservedLine
  BY <1>2 DEF ObservedLine, Observation, LearnTyped
<1>4. PICK next : next = [Resting EXCEPT !.pc = "reading", !.seen = <<line>>]
  OBVIOUS
<1>5. next = [pc |-> "reading", seen |-> <<line>>, since |-> 0, lines |-> <<>>,
              document |-> Uncounted, file |-> "observations", text |-> <<>>,
              into |-> "none", next |-> "done"]
  BY <1>4 DEF Resting
<1>6. RunTyped(next, o)
  <2> HIDE DEF ObservedLine, EvidenceCounts
  <2>1. <<line>> \in Seq(ObservedLine) /\ <<>> \in Seq(ObservedLine)
    BY <1>3
  <2> QED
    BY <1>5, <2>1, Documents DEF RunTyped, Places
<1>7. o \in Learners /\ Proceeds(o, next) /\ UNCHANGED <<clock, contents, siblings>>
  BY <1>1, <1>2, <1>4 DEF Learners, Observe
<1> QED
  BY <1>6, <1>7, HookSteps

(* by a hook that reads and prunes,                                        *)
LEMMA ReadKeepsTypes ==
    ASSUME LearnTyped, NEW h \in Learners, ReadAndPrune(h) PROVE LearnTyped'
<1>1. PICK kept \in Seq(ObservedLine) : kept = Kept(contents.observations)
  BY ResultOfReading
<1>2. PICK run : run = [learners[h] EXCEPT !.lines = kept]
  OBVIOUS
<1>3. PICK old : old = learners[h] /\ RunTyped(old, h) /\ old.pc = "reading"
  BY DEF LearnTyped, ReadAndPrune
<1>4. run = [pc |-> "reading", seen |-> old.seen, since |-> old.since, lines |-> kept,
              document |-> old.document, file |-> old.file, text |-> old.text,
              into |-> old.into, next |-> old.next]
  BY <1>2, <1>3 DEF RunTyped
<1>5. RunTyped(run, h)
  <2> HIDE DEF ObservedLine, EvidenceCounts
  <2> QED
    BY <1>3, <1>4 DEF RunTyped, Rewriting
<1>6. PICK next : next = IF h \in Observers THEN "add" ELSE "filtering"
  OBVIOUS
<1>7. PICK after : after = Rewrite(run, "observations", kept, next)
  OBVIOUS
<1>8. RunTyped(after, h)
  <2>1. "observations" \in Files
    BY DEF Files
  <2>2. \/ h \in Observers /\ next \in {"add", "done"}
        \/ h \in Extractors /\ next = "filtering"
    BY <1>6 DEF Learners
  <2> HIDE DEF RunTyped
  <2> QED
    BY <1>5, <1>7, <2>1, <2>2, RewriteTyped
<1>9. Proceeds(h, after) /\ UNCHANGED <<clock, contents, siblings>>
  BY <1>1, <1>2, <1>6, <1>7 DEF ReadAndPrune
<1> QED
  BY <1>8, <1>9, HookSteps

(* by an extraction that starts,                                           *)
LEMMA ExtractKeepsTypes ==
    ASSUME LearnTyped, NEW e \in Extractors, Extract(e) PROVE LearnTyped'
<1>1. PICK next : next = [Resting EXCEPT !.pc = "reading", !.since = contents.meta]
  OBVIOUS
<1>2. next = [pc |-> "reading", seen |-> <<>>, since |-> contents.meta, lines |-> <<>>,
              document |-> Uncounted, file |-> "observations", text |-> <<>>,
              into |-> "none", next |-> "done"]
  BY <1>1 DEF Resting
<1>3. RunTyped(next, e)
  <2>1. <<>> \in Seq(ObservedLine) /\ contents.meta \in Nat
    BY DEF LearnTyped
  <2> HIDE DEF ObservedLine, EvidenceCounts
  <2> QED
    BY <1>2, <2>1, Documents DEF RunTyped, Places
<1>4. e \in Learners /\ Proceeds(e, next) /\ UNCHANGED <<clock, contents, siblings>>
  BY <1>1 DEF Learners, Extract
<1> QED
  BY <1>3, <1>4, HookSteps

(* that looks for what is new,                                             *)
LEMMA FilterKeepsTypes ==
    ASSUME LearnTyped, NEW e \in Extractors, Filter(e) PROVE LearnTyped'
<1>0. e \in Learners
  BY DEF Learners
<1>1. PICK run : run = learners[e] /\ RunTyped(run, e) /\ run.pc = "filtering"
  BY <1>0 DEF LearnTyped, Filter
<1>2. PICK new : new = New(run.lines, run.since)
  OBVIOUS
<1>3. new \in Seq(ObservedLine)
  <2>1. PICK lines \in Seq(ObservedLine) : lines = run.lines
    BY <1>1 DEF RunTyped
  <2>2. PICK since \in Nat : since = run.since
    BY <1>1 DEF RunTyped
  <2> QED
    BY <1>2, <2>1, <2>2, NewIn
<1>4. UNCHANGED <<clock, contents, siblings>>
  BY DEF Filter
<1>5. CASE new = <<>>
  <2>1. Proceeds(e, Done)
    BY <1>1, <1>2, <1>5 DEF Filter
  <2>2. PICK next : next = Done
    OBVIOUS
  <2>3. RunTyped(next, e) /\ Proceeds(e, next)
    BY <2>1, <2>2, DoneTyped
  <2> QED
    BY <1>0, <1>4, <2>3, HookSteps
<1>6. CASE new # <<>>
  <2>1. PICK next : next = [run EXCEPT !.pc = "merging", !.lines = new,
                                       !.document = contents.document]
    OBVIOUS
  <2>2. Proceeds(e, next)
    BY <1>1, <1>2, <1>6, <2>1 DEF Filter
  <2>3. next = [pc |-> "merging", seen |-> run.seen, since |-> run.since, lines |-> new,
              document |-> contents.document, file |-> run.file, text |-> run.text,
              into |-> run.into, next |-> run.next]
    BY <1>1, <2>1 DEF RunTyped
  <2>4. RunTyped(next, e)
    <3>1. contents.document \in EvidenceCounts
      BY DEF LearnTyped
    <3> HIDE DEF ObservedLine, EvidenceCounts
    <3> QED
      BY <1>1, <1>3, <1>6, <2>3, <3>1 DEF RunTyped, Rewriting
  <2> QED
    BY <1>0, <1>4, <2>2, <2>4, HookSteps
<1> QED
  BY <1>5, <1>6

(* that counts it,                                                         *)
LEMMA MergeKeepsTypes ==
    ASSUME LearnTyped, NEW e \in Extractors, MergeCounts(e) PROVE LearnTyped'
<1>0. e \in Learners
  BY DEF Learners
<1>1. PICK run : run = learners[e] /\ RunTyped(run, e) /\ run.pc = "merging"
  BY <1>0 DEF LearnTyped, MergeCounts
<1>2. PICK merged : merged = Counted(run.document, run.lines)
  OBVIOUS
<1>3. merged \in EvidenceCounts
  <2>1. PICK document \in EvidenceCounts : document = run.document
    BY <1>1 DEF RunTyped
  <2>2. PICK lines \in Seq(ObservedLine) : lines = run.lines
    BY <1>1 DEF RunTyped
  <2> QED
    BY <1>2, <2>1, <2>2, CountedTyped
<1>4. UNCHANGED <<clock, contents, siblings>> /\ run.lines # <<>>
  BY <1>1 DEF MergeCounts, RunTyped, Rewriting
<1>5. PICK next : next = IF merged = contents.document THEN Closing(run)
                         ELSE Rewrite(run, "document", merged, "close")
  OBVIOUS
<1>6. Proceeds(e, next)
  BY <1>1, <1>2, <1>5 DEF MergeCounts
<1>7. RunTyped(next, e)
  <2>1. RunTyped(Closing(run), e)
    BY <1>1, <1>4, ClosingTyped
  <2>2. "document" \in Files
    BY DEF Files
  <2> HIDE DEF RunTyped
  <2>3. RunTyped(Rewrite(run, "document", merged, "close"), e)
    BY <1>0, <1>1, <1>3, <1>4, <2>2, RewriteTyped
  <2> QED
    BY <1>5, <2>1, <2>3
<1> QED
  BY <1>0, <1>4, <1>6, <1>7, HookSteps

(* by a hook that dies,                                                    *)
LEMMA EndKeepsTypes ==
    ASSUME LearnTyped, NEW h \in Learners, DieLearning(h) PROVE LearnTyped'
<1>1. PICK next : next = Done
  OBVIOUS
<1>2. RunTyped(next, h)
  BY <1>1, DoneTyped
<1>3. Proceeds(h, next) /\ UNCHANGED <<clock, contents, siblings>>
  BY <1>1 DEF DieLearning
<1> QED
  BY <1>2, <1>3, HookSteps

(* or finds its sibling gone,                                              *)
LEMMA FailKeepsTypes ==
    ASSUME LearnTyped, NEW h \in Learners, ReplaceFails(h) PROVE LearnTyped'
<1>1. PICK run : run = learners[h] /\ RunTyped(run, h) /\ run.pc = "replacing"
  BY DEF LearnTyped, ReplaceFails
<1>2. PICK next : next = [run EXCEPT !.pc = "unlinking"]
  OBVIOUS
<1>3. next = [pc |-> "unlinking", seen |-> run.seen, since |-> run.since, lines |-> run.lines,
              document |-> run.document, file |-> run.file, text |-> run.text,
              into |-> run.into, next |-> run.next]
  BY <1>1, <1>2 DEF RunTyped
<1>4. RunTyped(next, h)
  <2> HIDE DEF ObservedLine, EvidenceCounts
  <2> QED
    BY <1>1, <1>3 DEF RunTyped, Rewriting
<1>5. Proceeds(h, next) /\ UNCHANGED <<clock, contents, siblings>>
  BY <1>1, <1>2 DEF ReplaceFails
<1> QED
  BY <1>4, <1>5, HookSteps

(* and by the clock.                                                       *)
LEMMA SecondKeepsTypes ==
    ASSUME LearnTyped, Second PROVE LearnTyped'
<1> HIDE DEF ObservedLine, EvidenceCounts, RunTyped
<1>1. (clock \in Nat /\ clock >= 1)' /\ UNCHANGED <<contents, siblings, learners>>
  BY InstinctsAssumption DEF LearnTyped, Second
<1> QED
  BY <1>1 DEF LearnTyped

(* No line is new but of an observer that only starts, and no hook starts  *)
(* again.                                                                  *)
Calm ==
    /\ \A line \in Held' : line \in Held \/ (line.by \in Observers /\ learners[line.by].pc = "off")
    /\ \A h \in Learners : learners[h].pc # "off" => learners'[h].pc # "off"

(* No line is new at all.                                                  *)
Quiet ==
    /\ Held' \subseteq Held
    /\ \A h \in Learners : learners[h].pc # "off" => learners'[h].pc # "off"

(* Such a step keeps the times of all lines.                               *)
LEMMA QuietKeepsNoted ==
    ASSUME NotedOnce, Quiet PROVE NotedOnce' /\ Calm
<1> HIDE DEF Held, ObservedLine
<1>1. PICK before : before = Held
  OBVIOUS
<1>2. PICK after : after = Held'
  OBVIOUS
<1>3. /\ after \subseteq before
      /\ \A line \in before : /\ line \in ObservedLine /\ line.at >= 1
                              /\ learners[line.by].pc # "off"
  BY <1>1, <1>2 DEF Quiet, NotedOnce
<1>4. \A line \in ObservedLine : line.by \in Observers
  BY DEF ObservedLine
<1>5. \A line \in after : line \in ObservedLine /\ line.at >= 1 /\ learners'[line.by].pc # "off"
  BY <1>3, <1>4 DEF Quiet, Learners
<1>6. \A line, other \in after : line.by = other.by => line.at = other.at
  BY <1>1, <1>3 DEF NotedOnce
<1> QED
  BY <1>1, <1>2, <1>3, <1>5, <1>6 DEF NotedOnce, Calm, Quiet

(* Where the counts stay, an instant they are behind stays one.            *)
LEMMA BehindStays ==
    ASSUME Calm, contents'.document = contents.document, NEW instant, Behind(instant)
    PROVE  Behind(instant)'
<1> HIDE DEF Held
<1> SUFFICES ASSUME NEW pair \in Observers \X Observers, contents.document[pair] >= 1
             PROVE  /\ learners'[pair[1]].pc # "off"
                    /\ \A line \in Held' : line.by = pair[1] => line.at <= instant
  BY DEF Behind
<1>1. /\ learners[pair[1]].pc # "off"
      /\ \A line \in Held : line.by = pair[1] => line.at <= instant
  BY DEF Behind
<1>2. pair[1] \in Learners
  BY DEF Learners
<1> QED
  BY <1>1, <1>2 DEF Calm

(* Nothing more is held if nothing more is in a file, a sibling or a run.  *)
LEMMA HeldLess ==
    ASSUME LinesIn(contents'.observations) \subseteq Held,
           \A text \in siblings'.observations : LinesIn(text) \subseteq Held,
           \A h \in Learners : RunLines(learners'[h]) \subseteq Held
    PROVE  Held' \subseteq Held
<1>1. PICK before : before = Held
  OBVIOUS
<1>2. Held' \subseteq before
  BY <1>1 DEF Held
<1> QED
  BY <1>1, <1>2

(* What those hold is held.                                                *)
LEMMA HeldIn ==
    /\ LinesIn(contents.observations) \subseteq Held
    /\ \A text \in siblings.observations : LinesIn(text) \subseteq Held
    /\ \A h \in Learners : RunLines(learners[h]) \subseteq Held
  BY DEF Held

(* Where one hook proceeds the others are as they were.                    *)
LEMMA OneProceeds ==
    ASSUME LearnTyped, NEW h \in Learners, NEW run, Proceeds(h, run)
    PROVE  learners'[h] = run /\ \A g \in Learners \ {h} : learners'[g] = learners[g]
<1>1. PICK f : f = learners
  OBVIOUS
<1>2. PICK k : k = learners'
  OBVIOUS
<1>3. f = [g \in Learners |-> f[g]] /\ k = [f EXCEPT ![h] = run]
  BY <1>1, <1>2 DEF LearnTyped, Proceeds
<1>4. k[h] = run /\ \A g \in Learners \ {h} : k[g] = f[g]
  BY <1>3
<1> QED
  BY <1>1, <1>2, <1>4

(* A hook that goes on with lines that were held adds none,                *)
LEMMA OneHolds ==
    ASSUME LinesIn(contents'.observations) \subseteq Held,
           \A text \in siblings'.observations : LinesIn(text) \subseteq Held,
           LearnTyped, NEW h \in Learners, NEW run, RunLines(run) \subseteq Held,
           run.pc # "off", Proceeds(h, run)
    PROVE  Quiet
<1> HIDE DEF Held
<1>1. learners'[h] = run /\ \A g \in Learners \ {h} : learners'[g] = learners[g]
  BY OneProceeds
<1>2. \A g \in Learners : RunLines(learners[g]) \subseteq Held
  BY HeldIn
<1>3. \A g \in Learners : RunLines(learners'[g]) \subseteq Held
  BY <1>1, <1>2
<1>4. Held' \subseteq Held
  BY <1>3, HeldLess
<1> QED
  BY <1>1, <1>4 DEF Quiet

(* A hook that is done holds nothing.                                      *)
LEMMA DoneHolds == RunLines(Done) = {} /\ Done.pc = "done"
  BY DEF RunLines, LinesIn, Done, Resting

(* The lines of a run depend on four of its fields.                        *)
LEMMA SameLines ==
    ASSUME NEW run, NEW other, other.seen = run.seen, other.lines = run.lines,
           other.file = run.file, other.text = run.text
    PROVE  RunLines(other) = RunLines(run)
  BY DEF RunLines

(* also where it writes no file,                                           *)
LEMMA StepHolds ==
    ASSUME LearnTyped, UNCHANGED <<contents, siblings>>,
           NEW h \in Learners, NEW run, RunLines(run) \subseteq Held,
           run.pc # "off", Proceeds(h, run)
    PROVE  Quiet
<1> HIDE DEF Held
<1>1. /\ LinesIn(contents'.observations) \subseteq Held
      /\ \A text \in siblings'.observations : LinesIn(text) \subseteq Held
  BY HeldIn
<1> QED
  BY <1>1, OneHolds

(* or ends.                                                                *)
LEMMA EndHolds ==
    ASSUME LearnTyped, NEW h \in Learners, Proceeds(h, Done), UNCHANGED <<contents, siblings>>
    PROVE  Quiet
<1>1. PICK next : next = Done
  OBVIOUS
<1>2. RunLines(next) \subseteq Held /\ next.pc # "off" /\ Proceeds(h, next)
  BY <1>1, DoneHolds
<1> QED
  BY <1>2, StepHolds

(* Nor does time.                                                          *)
LEMMA SecondHolds == ASSUME Second PROVE Quiet
<1>1. UNCHANGED <<contents, siblings, learners>>
  BY DEF Second
<1>2. Held' = Held
  BY <1>1 DEF Held, RunLines
<1> QED
  BY <1>1, <1>2 DEF Quiet

(* Pruning drops lines.                                                    *)
LEMMA KeptIn ==
    ASSUME LearnTyped
    PROVE  LinesIn(Kept(contents.observations)) \subseteq LinesIn(contents.observations)
<1>1. PICK lines \in Seq(ObservedLine) : lines = contents.observations
  BY DEF LearnTyped
<1>2. PICK instant \in Int : instant = clock - Retention
  BY InstinctsAssumption DEF LearnTyped
<1>3. PICK kept : kept = From(lines, instant)
  OBVIOUS
<1>4. \A i \in DOMAIN kept : kept[i] \in LinesIn(lines)
  BY <1>3, FromIn
<1>5. LinesIn(kept) \subseteq LinesIn(lines)
  BY <1>4 DEF LinesIn
<1> QED
  BY <1>1, <1>2, <1>3, <1>5 DEF Kept

(* No line is new where a hook reads and prunes,                           *)
LEMMA ReadHolds ==
    ASSUME LearnTyped, NEW h \in Learners, ReadAndPrune(h) PROVE Quiet
<1>1. PICK old : old = learners[h] /\ RunTyped(old, h)
  BY DEF LearnTyped
<1>2. PICK kept : kept = Kept(contents.observations)
  OBVIOUS
<1>3. PICK after : after = Rewrite([old EXCEPT !.lines = kept], "observations", kept,
                             IF h \in Observers THEN "add" ELSE "filtering")
  OBVIOUS
<1>4. Proceeds(h, after) /\ UNCHANGED <<contents, siblings>>
  BY <1>1, <1>2, <1>3 DEF ReadAndPrune
<1>5. /\ after.seen = old.seen /\ after.lines = kept /\ after.file = "observations"
      /\ after.text = kept /\ after.pc = "opening"
  BY <1>1, <1>3 DEF RunTyped, Rewrite
<1>6. LinesIn(kept) \subseteq Held
  BY <1>2, KeptIn, HeldIn
<1>7. LinesIn(old.seen) \subseteq Held
  BY <1>1, HeldIn DEF RunLines
<1>8. RunLines(after) \subseteq Held
  BY <1>5, <1>6, <1>7 DEF RunLines
<1> QED
  BY <1>4, <1>5, <1>8, StepHolds

(* where an extraction starts,                                             *)
LEMMA ExtractHolds ==
    ASSUME LearnTyped, NEW e \in Extractors, Extract(e) PROVE Quiet
<1>1. PICK next : next = [Resting EXCEPT !.pc = "reading", !.since = contents.meta]
  OBVIOUS
<1>2. next = [pc |-> "reading", seen |-> <<>>, since |-> contents.meta, lines |-> <<>>,
              document |-> Uncounted, file |-> "observations", text |-> <<>>,
              into |-> "none", next |-> "done"]
  BY <1>1 DEF Resting
<1>3. e \in Learners /\ Proceeds(e, next) /\ UNCHANGED <<contents, siblings>>
  BY <1>1 DEF Extract, Learners
<1>5. RunLines(next) \subseteq Held
  BY <1>2 DEF RunLines, LinesIn
<1>6. next.pc # "off"
  BY <1>2
<1> QED
  BY <1>3, <1>5, <1>6, StepHolds

(* looks for what is new,                                                  *)
LEMMA FilterHolds ==
    ASSUME LearnTyped, NEW e \in Extractors, Filter(e) PROVE Quiet
<1>1. PICK run : run = learners[e]
  OBVIOUS
<1>2. e \in Learners /\ UNCHANGED <<contents, siblings>>
  BY DEF Learners, Filter
<1>3. PICK new : new = New(run.lines, run.since)
  OBVIOUS
<1>4. CASE new = <<>>
  <2>1. Proceeds(e, Done)
    BY <1>1, <1>3, <1>4 DEF Filter
  <2> QED
    BY <1>2, <2>1, EndHolds
<1>5. CASE new # <<>>
  <2>1. PICK next : next = [run EXCEPT !.pc = "merging", !.lines = new,
                                       !.document = contents.document]
    OBVIOUS
  <2>2. Proceeds(e, next)
    BY <1>1, <1>3, <1>5, <2>1 DEF Filter
  <2>3. RunTyped(run, e)
    BY <1>1, <1>2 DEF LearnTyped
  <2>4. /\ next.seen = run.seen /\ next.lines = new /\ next.file = run.file
        /\ next.text = run.text /\ next.pc = "merging"
    BY <2>1, <2>3 DEF RunTyped
  <2>5. LinesIn(new) \subseteq LinesIn(run.lines)
    <3>1. PICK lines \in Seq(ObservedLine) : lines = run.lines
      BY <2>3 DEF RunTyped
    <3>2. PICK since \in Nat : since = run.since
      BY <2>3 DEF RunTyped
    <3>3. \A i \in DOMAIN new : new[i] \in LinesIn(lines)
      BY <1>3, <3>1, <3>2, NewIn
    <3> QED
      BY <3>1, <3>3 DEF LinesIn
  <2>6. RunLines(run) \subseteq Held
    BY <1>1, <1>2, HeldIn
  <2>7. RunLines(next) \subseteq RunLines(run)
    BY <2>4, <2>5 DEF RunLines
  <2>8. RunLines(next) \subseteq Held /\ next.pc # "off"
    BY <2>4, <2>6, <2>7
  <2> QED
    BY <1>2, <2>2, <2>8, StepHolds
<1> QED
  BY <1>4, <1>5

(* counts,                                                                 *)
LEMMA MergeHolds ==
    ASSUME LearnTyped, NEW e \in Extractors, MergeCounts(e) PROVE Quiet
<1>1. PICK run : run = learners[e]
  OBVIOUS
<1>2. e \in Learners /\ UNCHANGED <<contents, siblings>>
  BY DEF Learners, MergeCounts
<1>3. PICK merged : merged = Counted(run.document, run.lines)
  OBVIOUS
<1>4. PICK next : next = IF merged = contents.document THEN Closing(run)
                         ELSE Rewrite(run, "document", merged, "close")
  OBVIOUS
<1>5. Proceeds(e, next)
  BY <1>1, <1>3, <1>4 DEF MergeCounts
<1>6. RunTyped(run, e)
  BY <1>1, <1>2 DEF LearnTyped
<1>7. /\ next.seen = run.seen /\ next.lines = run.lines
      /\ next.file # "observations" /\ next.pc = "opening"
  BY <1>4, <1>6 DEF RunTyped, Rewrite, Closing
<1>8. RunLines(run) \subseteq Held
  BY <1>1, <1>2, HeldIn
<1>9. RunLines(next) \subseteq Held /\ next.pc # "off"
  BY <1>7, <1>8 DEF RunLines
<1> QED
  BY <1>2, <1>5, <1>9, StepHolds

(* where a sibling is opened,                                              *)
LEMMA OpenHolds ==
    ASSUME LearnTyped, NEW h \in Learners, OpenSibling(h) PROVE Quiet
<1>1. PICK run : run = learners[h] /\ RunTyped(run, h)
  BY DEF LearnTyped
<1>2. PICK next : next = [run EXCEPT !.pc = "filling", !.into = "sibling"]
  OBVIOUS
<1>3. PICK f \in Files : f = run.file
  BY <1>1, FileKinds
<1>4. Proceeds(h, next) /\ siblings' = [siblings EXCEPT ![f] = {Unread[f]}] /\ UNCHANGED contents
  BY <1>1, <1>2, <1>3 DEF OpenSibling
<1>5. /\ next.seen = run.seen /\ next.lines = run.lines /\ next.file = run.file
      /\ next.text = run.text /\ next.pc = "filling"
  BY <1>1, <1>2 DEF RunTyped
<1>6. RunLines(next) = RunLines(run)
  BY <1>5, SameLines
<1>7. RunLines(next) \subseteq Held /\ next.pc # "off"
  BY <1>1, <1>5, <1>6, HeldIn
<1>8. LinesIn(contents'.observations) \subseteq Held
  BY <1>4, HeldIn
<1>9. \A text \in siblings'.observations : LinesIn(text) \subseteq Held
  <2>1. CASE f = "observations"
    <3>1. siblings'.observations = {<<>>}
      BY <1>4, <2>1, UnreadTyped DEF LearnTyped
    <3> QED
      BY <3>1 DEF LinesIn
  <2>2. CASE f # "observations"
    <3>1. siblings'.observations = siblings.observations
      BY <1>4, <2>2 DEF LearnTyped
    <3> QED
      BY <3>1, HeldIn
  <2> QED
    BY <2>1, <2>2
<1> QED
  BY <1>4, <1>7, <1>8, <1>9, OneHolds

(* filled,                                                                 *)
LEMMA FillHolds ==
    ASSUME LearnTyped, NEW h \in Learners, FillSibling(h) PROVE Quiet
<1>1. PICK run : run = learners[h] /\ RunTyped(run, h)
  BY DEF LearnTyped
<1>2. PICK next : next = [run EXCEPT !.pc = "replacing", !.into = "none"]
  OBVIOUS
<1>3. PICK f \in Files : f = run.file
  BY <1>1, FileKinds
<1>4. PICK under, text :
        /\ f = "observations" =>
             /\ LinesIn(text) \subseteq LinesIn(run.text) \cup LinesIn(under)
             /\ under \in siblings.observations \/ under = contents.observations \/ under = <<>>
        /\ siblings' = IF run.into = "sibling" THEN [siblings EXCEPT ![f] = {text}] ELSE siblings
        /\ contents' = IF run.into = "file" THEN [contents EXCEPT ![f] = text] ELSE contents
  BY <1>1, <1>3, Fills
<1>5. Proceeds(h, next)
  BY <1>1, <1>2 DEF FillSibling
<1>6. /\ next.seen = run.seen /\ next.lines = run.lines /\ next.file = run.file
      /\ next.text = run.text /\ next.pc = "replacing"
  BY <1>1, <1>2 DEF RunTyped
<1>7. RunLines(next) = RunLines(run)
  BY <1>6, SameLines
<1>8. RunLines(next) \subseteq Held /\ next.pc # "off"
  BY <1>1, <1>6, <1>7, HeldIn
<1>9. f = "observations" => LinesIn(text) \subseteq Held
  <2>1. LinesIn(<<>>) = {}
    BY DEF LinesIn
  <2>2. f = "observations" => LinesIn(run.text) \subseteq Held
    BY <1>1, <1>3, HeldIn DEF RunLines
  <2>3. f = "observations" => LinesIn(under) \subseteq Held
    BY <1>4, <2>1, HeldIn
  <2> HIDE DEF Held
  <2> QED
    BY <1>4, <2>2, <2>3
<1>10. LinesIn(contents'.observations) \subseteq Held
  <2>1. \/ contents'.observations = contents.observations
        \/ f = "observations" /\ contents'.observations = text
    BY <1>4 DEF LearnTyped
  <2> QED
    BY <1>9, <2>1, HeldIn
<1>11. \A other \in siblings'.observations : LinesIn(other) \subseteq Held
  <2>1. \/ siblings'.observations = siblings.observations
        \/ f = "observations" /\ siblings'.observations = {text}
    BY <1>4 DEF LearnTyped
  <2> QED
    BY <1>9, <2>1, HeldIn
<1> QED
  BY <1>5, <1>8, <1>10, <1>11, OneHolds

(* Nor where the sibling cannot replace the file,                          *)
LEMMA FailHolds ==
    ASSUME LearnTyped, NEW h \in Learners, ReplaceFails(h) PROVE Quiet
<1>1. PICK run : run = learners[h] /\ RunTyped(run, h)
  BY DEF LearnTyped
<1>2. PICK next : next = [run EXCEPT !.pc = "unlinking"]
  OBVIOUS
<1>3. Proceeds(h, next) /\ UNCHANGED <<contents, siblings>>
  BY <1>1, <1>2 DEF ReplaceFails
<1>4. /\ next.seen = run.seen /\ next.lines = run.lines /\ next.file = run.file
      /\ next.text = run.text /\ next.pc = "unlinking"
  BY <1>1, <1>2 DEF RunTyped
<1>5. RunLines(next) = RunLines(run)
  BY <1>4, SameLines
<1>6. RunLines(next) \subseteq Held /\ next.pc # "off"
  BY <1>1, <1>4, <1>5, HeldIn
<1> QED
  BY <1>3, <1>6, StepHolds

(* or moves as one hook goes on with lines that were held.                 *)
LEMMA MovingHolds ==
    ASSUME LinesIn(contents'.observations) \subseteq Held,
           \A text \in siblings'.observations : LinesIn(text) \subseteq Held,
           LearnTyped, NEW h \in Learners, NEW run, RunTyped(run, h),
           RunLines(run) \subseteq Held, run.pc # "off", NEW f, NEW place,
           \A into \in Places : place[into] \in Places, ProceedsMoving(h, run, f, place)
    PROVE  Quiet
<1> HIDE DEF Held, RunTyped, ProceedsMoving
<1>1. /\ learners'[h] = run
      /\ \A g \in Learners \ {h} :
           /\ learners'[g].seen = learners[g].seen /\ learners'[g].lines = learners[g].lines
           /\ learners'[g].file = learners[g].file /\ learners'[g].text = learners[g].text
           /\ learners'[g].pc = learners[g].pc
  BY MovesOthers
<1>2. \A g \in Learners \ {h} : RunLines(learners'[g]) = RunLines(learners[g])
  BY <1>1, SameLines
<1>3. \A g \in Learners : RunLines(learners'[g]) \subseteq Held
  BY <1>1, <1>2, HeldIn
<1>4. Held' \subseteq Held
  BY <1>3, HeldLess
<1> QED
  BY <1>1, <1>4 DEF Quiet

(* What follows a replacement holds nothing else.                          *)
LEMMA FollowingHolds ==
    ASSUME NEW h \in Learners, NEW run, RunTyped(run, h), run.pc = "replacing"
    PROVE  RunLines(Following(run)) \subseteq RunLines(run) /\ Following(run).pc # "off"
<1> HIDE DEF ObservedLine, EvidenceCounts
<1>1. CASE run.next = "add"
  <2>1. PICK s \in Seq(ObservedLine) : s = run.lines
    BY DEF RunTyped
  <2>2. PICK t \in Seq(ObservedLine) : t = run.seen
    BY DEF RunTyped
  <2>3. PICK r : r = s \o t
    OBVIOUS
  <2>4. LinesIn(r) \subseteq LinesIn(s) \cup LinesIn(t)
    BY <2>3, Joined
  <2>5. Following(run) = [run EXCEPT !.pc = "opening", !.file = "observations", !.text = r,
                                     !.next = "done"]
    BY <1>1, <2>1, <2>2, <2>3 DEF Following, Rewrite
  <2>6. /\ Following(run).seen = t /\ Following(run).lines = s /\ Following(run).text = r
        /\ Following(run).file = "observations" /\ Following(run).pc = "opening"
    BY <2>1, <2>2, <2>5 DEF RunTyped
  <2> HIDE DEF Following, RunTyped
  <2> QED
    BY <2>1, <2>2, <2>4, <2>6 DEF RunLines
<1>2. CASE run.next = "close"
  <2>1. Following(run) = Closing(run)
    BY <1>2 DEF Following
  <2>2. /\ Closing(run).seen = run.seen /\ Closing(run).lines = run.lines
        /\ Closing(run).file = "meta" /\ Closing(run).pc = "opening"
    BY DEF RunTyped, Closing, Rewrite
  <2> HIDE DEF Following, Closing
  <2> QED
    BY <2>1, <2>2 DEF RunLines
<1>3. CASE run.next = "done"
  BY <1>3, DoneHolds DEF Following
<1>4. CASE run.next = "filtering"
  <2>1. Following(run) = [run EXCEPT !.pc = "filtering", !.text = <<>>]
    BY <1>4 DEF Following
  <2>2. /\ Following(run).seen = run.seen /\ Following(run).lines = run.lines
        /\ Following(run).text = <<>> /\ Following(run).file = run.file
        /\ Following(run).pc = "filtering"
    BY <2>1 DEF RunTyped
  <2>3. LinesIn(<<>>) = {}
    BY DEF LinesIn
  <2> HIDE DEF Following, RunTyped
  <2> QED
    BY <2>2, <2>3 DEF RunLines
<1>5. run.next \in {"add", "close", "done", "filtering"}
  BY DEF RunTyped, Rewriting
<1> QED
  BY <1>1, <1>2, <1>3, <1>4, <1>5

(* So it does where a sibling takes the place of its file                  *)
LEMMA ReplaceHolds ==
    ASSUME LearnTyped, NEW h \in Learners, ReplaceFile(h) PROVE Quiet
<1>1. PICK run : run = learners[h] /\ RunTyped(run, h) /\ run.pc = "replacing"
  BY DEF LearnTyped, ReplaceFile
<1>2. PICK f \in Files : f = run.file
  BY <1>1, FileKinds
<1>3. PICK text \in siblings[f] : contents' = [contents EXCEPT ![f] = text]
  BY <1>1, <1>2 DEF ReplaceFile
<1>4. siblings' = [siblings EXCEPT ![f] = {}]
  BY <1>1, <1>2 DEF ReplaceFile
<1>5. PICK next : next = Following(run)
  OBVIOUS
<1>6. RunTyped(next, h) /\ RunLines(next) \subseteq RunLines(run) /\ next.pc # "off"
  BY <1>1, <1>5, FollowingTyped, FollowingHolds
<1>7. ProceedsMoving(h, next, f, Moved)
  BY <1>1, <1>2, <1>5 DEF ReplaceFile
<1>8. LinesIn(contents'.observations) \subseteq Held
  <2>1. \/ contents'.observations = contents.observations
        \/ f = "observations" /\ contents'.observations = text
    BY <1>3 DEF LearnTyped
  <2> QED
    BY <1>3, <2>1, HeldIn
<1>9. \A other \in siblings'.observations : LinesIn(other) \subseteq Held
  <2>1. siblings'.observations = siblings.observations \/ siblings'.observations = {}
    BY <1>4 DEF LearnTyped
  <2> QED
    BY <2>1, HeldIn
<1>10. RunLines(next) \subseteq Held
  BY <1>1, <1>6, HeldIn
<1>11. PICK place : place = Moved /\ \A into \in Places : place[into] \in Places
  BY PlacesMove
<1> HIDE DEF Held, RunTyped, ProceedsMoving, Quiet
<1> QED
  BY <1>6, <1>7, <1>8, <1>9, <1>10, <1>11, MovingHolds

(* or is deleted.                                                          *)
LEMMA UnlinkHolds ==
    ASSUME LearnTyped, NEW h \in Learners, Unlink(h) PROVE Quiet
<1>1. PICK f \in Files : f = learners[h].file
  BY FileKinds DEF LearnTyped
<1>2. siblings' = [siblings EXCEPT ![f] = {}] /\ UNCHANGED contents
  BY <1>1 DEF Unlink
<1>3. PICK next : next = Done
  OBVIOUS
<1>4. RunTyped(next, h) /\ RunLines(next) \subseteq Held /\ next.pc # "off"
  BY <1>3, DoneTyped, DoneHolds
<1>5. ProceedsMoving(h, next, f, Deleted)
  BY <1>1, <1>3 DEF Unlink
<1>6. LinesIn(contents'.observations) \subseteq Held
  BY <1>2, HeldIn
<1>7. \A other \in siblings'.observations : LinesIn(other) \subseteq Held
  <2>1. siblings'.observations = siblings.observations \/ siblings'.observations = {}
    BY <1>2 DEF LearnTyped
  <2> QED
    BY <2>1, HeldIn
<1>8. PICK place : place = Deleted /\ \A into \in Places : place[into] \in Places
  BY PlacesMove
<1> HIDE DEF Held, RunTyped, ProceedsMoving, Quiet
<1> QED
  BY <1>4, <1>5, <1>6, <1>7, <1>8, MovingHolds

(* An observer that starts holds the only line of its own.                 *)
LEMMA ObserveHolds ==
    ASSUME LearnTyped, NotedOnce, NEW o \in Observers, Observe(o) PROVE NotedOnce' /\ Calm
<1>1. PICK chat \in Chats, kind \in Kinds : Proceeds(o,
          [Resting EXCEPT !.pc = "reading", !.seen = <<Observation(o, chat, kind)>>])
  BY DEF Observe
<1>2. PICK line : line = Observation(o, chat, kind)
  OBVIOUS
<1>3. line \in ObservedLine /\ line.by = o /\ line.at >= 1
  BY <1>2 DEF ObservedLine, Observation, LearnTyped
<1>4. PICK next : next = [Resting EXCEPT !.pc = "reading", !.seen = <<line>>]
  OBVIOUS
<1>5. o \in Learners /\ Proceeds(o, next) /\ UNCHANGED <<contents, siblings>>
      /\ learners[o].pc = "off"
  BY <1>1, <1>2, <1>4 DEF Learners, Observe
<1>6. next.pc = "reading" /\ RunLines(next) = {line}
  <2>1. next.seen = <<line>> /\ next.lines = <<>> /\ next.file = "observations"
        /\ next.text = <<>> /\ next.pc = "reading"
    BY <1>4 DEF Resting
  <2>2. LinesIn(<<line>>) = {line} /\ LinesIn(<<>>) = {}
    BY DEF LinesIn
  <2> QED
    BY <2>1, <2>2 DEF RunLines
<1>7. learners'[o] = next /\ \A g \in Learners \ {o} : learners'[g] = learners[g]
  BY <1>5, OneProceeds
<1>8. PICK before : before = Held
  OBVIOUS
<1>9. PICK after : after = Held'
  OBVIOUS
<1>10. after \subseteq before \cup {line}
  <2>1. /\ LinesIn(contents.observations) \subseteq before
        /\ \A text \in siblings.observations : LinesIn(text) \subseteq before
        /\ \A h \in Learners : RunLines(learners[h]) \subseteq before
    BY <1>8, HeldIn
  <2>2. \A h \in Learners : RunLines(learners'[h]) \subseteq before \cup {line}
    BY <1>6, <1>7, <2>1
  <2>3. contents' = contents /\ siblings' = siblings
    BY <1>5
  <2> QED
    BY <1>9, <2>1, <2>2, <2>3 DEF Held
<1>11. \A h \in Learners : learners[h].pc # "off" => learners'[h].pc # "off"
  BY <1>5, <1>6, <1>7
<1>12. /\ \A x \in before : x \in ObservedLine /\ x.at >= 1 /\ learners[x.by].pc # "off"
       /\ \A x, other \in before : x.by = other.by => x.at = other.at
  BY <1>8 DEF NotedOnce
<1>13. \A x \in ObservedLine : x.by \in Learners
  BY DEF ObservedLine, Learners
<1> HIDE DEF Held, ObservedLine
<1>14. \A x \in after : x \in ObservedLine /\ x.at >= 1 /\ learners'[x.by].pc # "off"
  BY <1>3, <1>6, <1>7, <1>10, <1>11, <1>12, <1>13
<1>15. \A x \in before : x.by # o
  BY <1>5, <1>12
<1>16. \A x, other \in after : x.by = other.by => x.at = other.at
  BY <1>3, <1>10, <1>12, <1>15
<1>17. \A x \in after : x \in before \/ (x.by \in Observers /\ learners[x.by].pc = "off")
  BY <1>3, <1>5, <1>10
<1> QED
  BY <1>8, <1>9, <1>11, <1>14, <1>16, <1>17 DEF NotedOnce, Calm

(* The sequences of observations that the file, its sibling, or a hook     *)
(* holds, but for the observer's own line.                                 *)
RunTexts(run) == {run.lines} \cup (IF run.file = "observations" THEN {run.text} ELSE {})
Listings ==
    {contents.observations} \cup siblings.observations
      \cup (UNION {RunTexts(learners[h]) : h \in Learners})

(* An observer that has not added its line yet,                            *)
Keeping(run) ==
    run.pc \in {"off", "reading"} \/ (run.pc \in Rewriting /\ run.next = "add")

(* is in no such sequence, and nobody is in one twice.                     *)
Clean(text) ==
    /\ text \in Seq(ObservedLine) /\ ~Doubled(text)
    /\ \A line \in LinesIn(text) : ~Keeping(learners[line.by])

OwnSeen(run, h) == \A i \in DOMAIN run.seen : i = 1 /\ run.seen[i].by = h

AllClean ==
    /\ \A text \in Listings : Clean(text)
    /\ \A h \in Learners : OwnSeen(learners[h], h)

(* What a file, its sibling or a hook holds is among the sequences.        *)
LEMMA ListingsIn ==
    /\ contents.observations \in Listings
    /\ \A text \in siblings.observations : text \in Listings
    /\ \A h \in Learners : RunTexts(learners[h]) \subseteq Listings
  BY DEF Listings

(* The lines of a sequence are of observers.                               *)
LEMMA LinesBy ==
    ASSUME NEW text, text \in Seq(ObservedLine)
    PROVE  \A line \in LinesIn(text) : line.by \in Observers
<1>1. \A i \in DOMAIN text : text[i] \in ObservedLine
  OBVIOUS
<1>2. \A line \in ObservedLine : line.by \in Observers
  BY DEF ObservedLine
<1> HIDE DEF ObservedLine
<1> QED
  BY <1>1, <1>2 DEF LinesIn

(* Nothing is clean.                                                       *)
LEMMA NothingClean == Clean(<<>>) /\ Clean(<<>>)'
  BY DEF Clean, Doubled, LinesIn

(* A clean sequence stays so, as no observer takes its line back.          *)
LEMMA CleanStays ==
    ASSUME NEW text, Clean(text),
           \A o \in Observers : Keeping(learners'[o]) => Keeping(learners[o])
    PROVE  Clean(text)'
<1>1. \A line \in LinesIn(text) : line.by \in Observers
  BY LinesBy DEF Clean
<1> HIDE DEF Keeping, ObservedLine, LinesIn, Doubled
<1> QED
  BY <1>1 DEF Clean

(* A sequence whose lines are of a clean one is clean if none is twice.    *)
LEMMA CleanPart ==
    ASSUME NEW text, Clean(text), NEW part \in Seq(ObservedLine), ~Doubled(part),
           LinesIn(part) \subseteq LinesIn(text)
    PROVE  Clean(part)
  BY DEF Clean

(* What has to be shown where a hook proceeds, and others stay but for the *)
(* place of their sibling.                                                 *)
LEMMA CleanStep ==
    ASSUME AllClean, NEW h \in Learners, NEW run, learners'[h] = run,
           \A g \in Learners \ {h} :
             /\ learners'[g].seen = learners[g].seen /\ learners'[g].lines = learners[g].lines
             /\ learners'[g].file = learners[g].file /\ learners'[g].text = learners[g].text
             /\ learners'[g].pc = learners[g].pc /\ learners'[g].next = learners[g].next,
           h \in Observers => (Keeping(run) => Keeping(learners[h])),
           OwnSeen(run, h),
           \A text \in RunTexts(run) : text \in Listings \/ Clean(text)',
           NEW file, file = contents'.observations, file \in Listings \/ Clean(file)',
           \A text \in siblings'.observations : text \in Listings \/ Clean(text)'
    PROVE  AllClean'
<1>1. \A o \in Observers : Keeping(learners'[o]) => Keeping(learners[o])
  BY DEF Keeping, Learners
<1>2. \A text \in Listings : Clean(text)'
  BY <1>1, CleanStays DEF AllClean
<1>3. \A g \in Learners : OwnSeen(learners'[g], g)
  BY DEF OwnSeen, AllClean
<1>4. \A g \in Learners \ {h} : RunTexts(learners'[g]) = RunTexts(learners[g])
  BY DEF RunTexts
<1> HIDE DEF Clean, OwnSeen, RunTexts, Keeping
<1>5. \A g \in Learners : \A text \in RunTexts(learners'[g]) : Clean(text)'
  <2> SUFFICES ASSUME NEW g \in Learners, NEW text \in RunTexts(learners'[g])
               PROVE  Clean(text)'
    OBVIOUS
  <2>1. text \in Listings \/ Clean(text)'
    BY <1>4, ListingsIn
  <2> QED
    BY <1>2, <2>1
<1>6. PICK all : all = Listings'
  OBVIOUS
<1>7. \A text \in all : \/ text = file \/ text \in siblings'.observations
                        \/ \E g \in Learners : text \in RunTexts(learners'[g])
  BY <1>6 DEF Listings
<1>8. Clean(file)' /\ \A text \in siblings'.observations : Clean(text)'
  BY <1>2
<1>9. \A text \in all : Clean(text)'
  BY <1>5, <1>7, <1>8
<1> QED
  BY <1>3, <1>6, <1>9 DEF AllClean

(* A hook that is done, or has only started, holds nothing.                *)
LEMMA NothingHeld ==
    ASSUME NEW run, run.seen = <<>>, run.lines = <<>>, run.text = <<>>, NEW h
    PROVE  OwnSeen(run, h) /\ \A text \in RunTexts(run) : Clean(text)'
  BY NothingClean DEF OwnSeen, RunTexts

LEMMA DoneIs ==
    /\ Done.seen = <<>> /\ Done.lines = <<>> /\ Done.text = <<>> /\ Done.pc = "done"
    /\ Resting.seen = <<>> /\ Resting.lines = <<>> /\ Resting.text = <<>> /\ Resting.pc = "off"
    /\ Resting.file = "observations"
  BY DEF Done, Resting

(* Where a hook writes no file:                                            *)
LEMMA ProceedsClean ==
    ASSUME LearnTyped, AllClean, NEW h \in Learners, NEW run, Proceeds(h, run),
           UNCHANGED <<contents, siblings>>,
           h \in Observers => (Keeping(run) => Keeping(learners[h])),
           OwnSeen(run, h), \A text \in RunTexts(run) : text \in Listings \/ Clean(text)'
    PROVE  AllClean'
<1>1. learners'[h] = run /\ \A g \in Learners \ {h} : learners'[g] = learners[g]
  BY OneProceeds
<1>2. PICK file : file = contents'.observations /\ file \in Listings
  BY ListingsIn
<1>3. \A text \in siblings'.observations : text \in Listings
  BY ListingsIn
<1> HIDE DEF Keeping, OwnSeen, RunTexts, Clean, Listings
<1> QED
  BY <1>1, <1>2, <1>3, CleanStep

(* Every step keeps the sequences clean: the clock,                        *)
LEMMA SecondClean == ASSUME AllClean, Second PROVE AllClean'
<1>1. contents' = contents /\ siblings' = siblings /\ learners' = learners
  BY DEF Second
<1>2. Listings' = Listings
  BY <1>1 DEF Listings, RunTexts
<1> QED
  BY <1>1, <1>2 DEF AllClean, Clean, OwnSeen, Keeping

(* an observer that starts,                                                *)
LEMMA ObserveClean ==
    ASSUME LearnTyped, AllClean, NEW o \in Observers, Observe(o) PROVE AllClean'
<1>1. PICK chat \in Chats, kind \in Kinds : Proceeds(o,
          [Resting EXCEPT !.pc = "reading", !.seen = <<Observation(o, chat, kind)>>])
  BY DEF Observe
<1>2. PICK line : line = Observation(o, chat, kind)
  OBVIOUS
<1>9. line.by = o
  BY <1>2 DEF Observation
<1>3. PICK next : next = [Resting EXCEPT !.pc = "reading", !.seen = <<line>>]
  OBVIOUS
<1>4. /\ next.seen = <<line>> /\ next.lines = <<>> /\ next.file = "observations"
      /\ next.text = <<>>
  BY <1>3 DEF Resting
<1>5. OwnSeen(next, o)
  BY <1>9, <1>4 DEF OwnSeen
<1>6. \A text \in RunTexts(next) : Clean(text)'
  BY <1>4, NothingClean DEF RunTexts
<1>7. Keeping(learners[o])
  BY DEF Observe, Keeping
<1>8. o \in Learners /\ Proceeds(o, next) /\ UNCHANGED <<contents, siblings>>
  BY <1>1, <1>2, <1>3 DEF Observe, Learners
<1> HIDE DEF Keeping, OwnSeen, RunTexts, Clean, Listings
<1> QED
  BY <1>5, <1>6, <1>7, <1>8, ProceedsClean

(* an extraction that starts, and a hook that dies,                        *)
LEMMA StartClean ==
    ASSUME LearnTyped, AllClean, NEW h \in Learners, NEW run, Proceeds(h, run),
           UNCHANGED <<contents, siblings>>, h \in Extractors \/ run.pc = "done",
           run.seen = <<>>, run.lines = <<>>, run.text = <<>>
    PROVE  AllClean'
<1>1. h \in Observers => (Keeping(run) => Keeping(learners[h]))
  BY InstinctsAssumption DEF Keeping, Rewriting
<1>2. OwnSeen(run, h) /\ \A text \in RunTexts(run) : Clean(text)'
  BY NothingHeld
<1> HIDE DEF Keeping, OwnSeen, RunTexts, Clean, Listings
<1> QED
  BY <1>1, <1>2, ProceedsClean

LEMMA EndClean ==
    ASSUME LearnTyped, AllClean, NEW h \in Learners,
           Proceeds(h, Done), UNCHANGED <<contents, siblings>>
    PROVE  AllClean'
<1>1. PICK next : next = Done /\ next.seen = <<>> /\ next.lines = <<>> /\ next.text = <<>>
                  /\ next.pc = "done"
  BY DoneIs
<1> QED
  BY <1>1, StartClean

LEMMA ExtractClean ==
    ASSUME LearnTyped, AllClean, NEW e \in Extractors, Extract(e) PROVE AllClean'
<1>1. PICK next : next = [Resting EXCEPT !.pc = "reading", !.since = contents.meta]
  OBVIOUS
<1>2. next.seen = <<>> /\ next.lines = <<>> /\ next.text = <<>>
  BY <1>1 DEF Resting
<1>3. e \in Learners /\ Proceeds(e, next) /\ UNCHANGED <<contents, siblings>>
  BY <1>1 DEF Extract, Learners
<1> QED
  BY <1>2, <1>3, StartClean

(* a hook that reads and prunes,                                           *)
LEMMA ReadClean ==
    ASSUME LearnTyped, AllClean, NEW h \in Learners, ReadAndPrune(h) PROVE AllClean'
<1>1. PICK old : old = learners[h] /\ RunTyped(old, h) /\ old.pc = "reading"
  BY DEF LearnTyped, ReadAndPrune
<1>2. PICK lines \in Seq(ObservedLine) : lines = contents.observations /\ Clean(lines)
  BY ListingsIn DEF LearnTyped, AllClean
<1>3. PICK kept : kept = Kept(lines)
  OBVIOUS
<1>4. PICK after : after = Rewrite([old EXCEPT !.lines = kept], "observations", kept,
                             IF h \in Observers THEN "add" ELSE "filtering")
  OBVIOUS
<1>5. Proceeds(h, after) /\ UNCHANGED <<contents, siblings>>
  BY <1>1, <1>2, <1>3, <1>4 DEF ReadAndPrune
<1>6. /\ after.seen = old.seen /\ after.lines = kept /\ after.text = kept
  BY <1>1, <1>4 DEF RunTyped, Rewrite
<1>7. Clean(kept)
  <2>1. PICK instant \in Int : instant = clock - Retention
    BY InstinctsAssumption DEF LearnTyped
  <2>2. kept = From(lines, instant)
    BY <1>3, <2>1 DEF Kept
  <2>3. kept \in Seq(ObservedLine) /\ LinesIn(kept) \subseteq LinesIn(lines)
    BY <2>2, FromIn DEF LinesIn
  <2>4. ~Doubled(kept)
    BY <1>2, <2>2, FromSingle DEF Clean
  <2> QED
    BY <1>2, <2>3, <2>4, CleanPart
<1>8. Keeping(old)
  BY <1>1 DEF Keeping
<1>9. \A o \in Observers : Keeping(learners'[o]) => Keeping(learners[o])
  BY <1>1, <1>5, <1>8, OneProceeds DEF Learners
<1>10. Clean(kept)'
  <2> HIDE DEF Clean, Keeping
  <2> QED
    BY <1>7, <1>9, CleanStays
<1>11. OwnSeen(after, h)
  BY <1>1, <1>6 DEF OwnSeen, AllClean
<1>12. \A text \in RunTexts(after) : Clean(text)'
  BY <1>6, <1>10 DEF RunTexts
<1> HIDE DEF Keeping, OwnSeen, RunTexts, Clean, Listings
<1> QED
  BY <1>1, <1>5, <1>8, <1>11, <1>12, ProceedsClean

(* a hook that goes on with the texts it has,                              *)
LEMMA SameTextsClean ==
    ASSUME LearnTyped, AllClean, NEW h \in Learners, NEW run, Proceeds(h, run),
           UNCHANGED <<contents, siblings>>,
           run.seen = learners[h].seen, run.lines = learners[h].lines,
           \/ run.file # "observations"
           \/ run.file = learners[h].file /\ run.text = learners[h].text,
           h \in Observers => (Keeping(run) => Keeping(learners[h]))
    PROVE  AllClean'
<1>1. RunTexts(run) \subseteq RunTexts(learners[h])
  BY DEF RunTexts
<1>2. \A text \in RunTexts(run) : text \in Listings
  BY <1>1, ListingsIn
<1>3. OwnSeen(run, h)
  BY DEF OwnSeen, AllClean
<1> HIDE DEF Keeping, OwnSeen, RunTexts, Clean, Listings
<1> QED
  BY <1>2, <1>3, ProceedsClean

(* an extraction that looks for what is new,                               *)
LEMMA FilterClean ==
    ASSUME LearnTyped, AllClean, NEW e \in Extractors, Filter(e) PROVE AllClean'
<1>0. e \in Learners /\ e \notin Observers /\ UNCHANGED <<contents, siblings>>
  BY InstinctsAssumption DEF Learners, Filter
<1>1. PICK run : run = learners[e] /\ RunTyped(run, e)
  BY <1>0 DEF LearnTyped
<1>2. PICK lines \in Seq(ObservedLine) : lines = run.lines /\ Clean(lines)
  <2>1. run.lines \in Seq(ObservedLine)
    BY <1>1 DEF RunTyped
  <2>2. run.lines \in Listings
    BY <1>0, <1>1, ListingsIn DEF RunTexts
  <2> QED
    BY <2>1, <2>2 DEF AllClean
<1>3. PICK since \in Nat : since = run.since
  BY <1>1 DEF RunTyped
<1>4. PICK new : new = New(lines, since)
  OBVIOUS
<1>5. CASE new = <<>>
  <2>1. Proceeds(e, Done)
    BY <1>1, <1>2, <1>3, <1>4, <1>5 DEF Filter
  <2> QED
    BY <1>0, <2>1, EndClean
<1>6. CASE new # <<>>
  <2>1. PICK next : next = [run EXCEPT !.pc = "merging", !.lines = new,
                                       !.document = contents.document]
    OBVIOUS
  <2>2. Proceeds(e, next)
    BY <1>1, <1>2, <1>3, <1>4, <1>6, <2>1 DEF Filter
  <2>3. next.seen = run.seen /\ next.lines = new /\ next.file = run.file /\ next.text = run.text
    BY <1>1, <2>1 DEF RunTyped
  <2>4. new \in Seq(ObservedLine) /\ LinesIn(new) \subseteq LinesIn(lines)
    BY <1>4, NewIn DEF LinesIn
  <2>5. ~Doubled(new)
    <3>1. ~Doubled(lines)
      BY <1>2 DEF Clean
    <3>2. CASE since = 0
      BY <1>4, <3>1, <3>2 DEF New
    <3>3. CASE since # 0
      <4>1. since + 1 \in Int /\ new = From(lines, since + 1)
        BY <1>4, <3>3 DEF New
      <4> QED
        BY <3>1, <4>1, FromSingle
    <3> QED
      BY <3>2, <3>3
  <2>6. Clean(new)
    BY <1>2, <2>4, <2>5, CleanPart
  <2>7. \A o \in Observers : learners'[o] = learners[o]
    BY <1>0, <2>2, OneProceeds DEF Learners
  <2>8. Clean(new)'
    <3> HIDE DEF Clean, Keeping
    <3> QED
      BY <2>6, <2>7, CleanStays
  <2>9. OwnSeen(next, e)
    BY <1>0, <1>1, <2>3 DEF OwnSeen, AllClean
  <2>10. \A text \in RunTexts(next) : text \in Listings \/ Clean(text)'
    <3>1. \A text \in RunTexts(next) : text = new \/ text \in RunTexts(run)
      BY <2>3 DEF RunTexts
    <3> QED
      BY <1>0, <1>1, <2>8, <3>1, ListingsIn
  <2> HIDE DEF Keeping, OwnSeen, RunTexts, Clean, Listings
  <2> QED
    BY <1>0, <2>2, <2>9, <2>10, ProceedsClean
<1> QED
  BY <1>5, <1>6

(* or counts it,                                                           *)
LEMMA MergeClean ==
    ASSUME LearnTyped, AllClean, NEW e \in Extractors, MergeCounts(e) PROVE AllClean'
<1>0. e \in Learners /\ e \notin Observers /\ UNCHANGED <<contents, siblings>>
  BY InstinctsAssumption DEF Learners, MergeCounts
<1>1. PICK run : run = learners[e] /\ RunTyped(run, e)
  BY <1>0 DEF LearnTyped
<1>2. PICK merged : merged = Counted(run.document, run.lines)
  OBVIOUS
<1>3. PICK next : next = IF merged = contents.document THEN Closing(run)
                         ELSE Rewrite(run, "document", merged, "close")
  OBVIOUS
<1>4. Proceeds(e, next)
  BY <1>1, <1>2, <1>3 DEF MergeCounts
<1>5. next.seen = run.seen /\ next.lines = run.lines /\ next.file # "observations"
  BY <1>1, <1>3 DEF RunTyped, Rewrite, Closing
<1> HIDE DEF Keeping
<1> QED
  BY <1>0, <1>1, <1>4, <1>5, SameTextsClean

(* a hook that finds its sibling gone,                                     *)
LEMMA FailClean ==
    ASSUME LearnTyped, AllClean, NEW h \in Learners, ReplaceFails(h) PROVE AllClean'
<1>1. PICK run : run = learners[h] /\ RunTyped(run, h) /\ run.pc = "replacing"
  BY DEF LearnTyped, ReplaceFails
<1>2. PICK next : next = [run EXCEPT !.pc = "unlinking"]
  OBVIOUS
<1>3. /\ next.seen = run.seen /\ next.lines = run.lines /\ next.file = run.file
      /\ next.text = run.text /\ next.next = run.next
  BY <1>1, <1>2 DEF RunTyped
<1>4. Keeping(next) => Keeping(run)
  BY <1>1, <1>2, <1>3 DEF Keeping, Rewriting, RunTyped
<1>5. Proceeds(h, next) /\ UNCHANGED <<contents, siblings>>
  BY <1>1, <1>2 DEF ReplaceFails
<1> HIDE DEF Keeping
<1> QED
  BY <1>1, <1>3, <1>4, <1>5, SameTextsClean

(* opens the sibling,                                                      *)
LEMMA OpenClean ==
    ASSUME LearnTyped, AllClean, NEW h \in Learners, OpenSibling(h) PROVE AllClean'
<1>1. PICK run : run = learners[h] /\ RunTyped(run, h) /\ run.pc = "opening"
  BY DEF LearnTyped, OpenSibling
<1>2. PICK next : next = [run EXCEPT !.pc = "filling", !.into = "sibling"]
  OBVIOUS
<1>3. /\ next.seen = run.seen /\ next.lines = run.lines /\ next.file = run.file
      /\ next.text = run.text /\ next.next = run.next /\ next.pc = "filling"
  BY <1>1, <1>2 DEF RunTyped
<1>4. Keeping(next) => Keeping(run)
  BY <1>1, <1>3 DEF Keeping, Rewriting
<1>5. PICK f \in Files : f = run.file
  BY <1>1, FileKinds
<1>6. Proceeds(h, next) /\ siblings' = [siblings EXCEPT ![f] = {Unread[f]}] /\ UNCHANGED contents
  BY <1>1, <1>2, <1>5 DEF OpenSibling
<1>7. \A text \in siblings'.observations : text \in Listings \/ Clean(text)'
  <2>1. siblings'.observations = siblings.observations \/ siblings'.observations = {<<>>}
    BY <1>6, UnreadTyped DEF LearnTyped
  <2> QED
    BY <2>1, ListingsIn, NothingClean
<1>8. PICK file : file = contents'.observations /\ file \in Listings
  BY <1>6, ListingsIn
<1>9. OwnSeen(next, h)
  BY <1>1, <1>3 DEF OwnSeen, AllClean
<1>10. \A text \in RunTexts(next) : text \in Listings
  BY <1>1, <1>3, ListingsIn DEF RunTexts
<1>11. learners'[h] = next /\ \A g \in Learners \ {h} : learners'[g] = learners[g]
  BY <1>6, OneProceeds
<1> HIDE DEF Keeping, OwnSeen, RunTexts, Clean, Listings
<1> QED
  BY <1>1, <1>4, <1>7, <1>8, <1>9, <1>10, <1>11, CleanStep

(* fills it, where that leaves no line twice,                              *)
LEMMA FillClean ==
    ASSUME LearnTyped, AllClean, NEW h \in Learners, FillSibling(h), ~recounts' PROVE AllClean'
<1>1. PICK run : run = learners[h] /\ RunTyped(run, h) /\ run.pc = "filling"
  BY DEF LearnTyped, FillSibling
<1>2. PICK next : next = [run EXCEPT !.pc = "replacing", !.into = "none"]
  OBVIOUS
<1>3. /\ next.seen = run.seen /\ next.lines = run.lines /\ next.file = run.file
      /\ next.text = run.text /\ next.next = run.next /\ next.pc = "replacing"
  BY <1>1, <1>2 DEF RunTyped
<1>4. Keeping(next) => Keeping(run)
  BY <1>1, <1>3 DEF Keeping, Rewriting
<1>5. PICK f \in Files : f = run.file
  BY <1>1, FileKinds
<1>6. PICK under, text :
        /\ OfKind(f, text)
        /\ f = "observations" =>
             /\ LinesIn(text) \subseteq LinesIn(run.text) \cup LinesIn(under)
             /\ under \in siblings.observations \/ under = contents.observations \/ under = <<>>
        /\ siblings' = IF run.into = "sibling" THEN [siblings EXCEPT ![f] = {text}] ELSE siblings
        /\ contents' = IF run.into = "file" THEN [contents EXCEPT ![f] = text] ELSE contents
        /\ recounts' = (recounts \/ (f = "observations" /\ Doubled(text)))
  BY <1>1, <1>5, Fills
<1>7. Proceeds(h, next)
  BY <1>1, <1>2 DEF FillSibling
<1>8. learners'[h] = next /\ \A g \in Learners \ {h} : learners'[g] = learners[g]
  BY <1>7, OneProceeds
<1>9. \A o \in Observers : Keeping(learners'[o]) => Keeping(learners[o])
  BY <1>1, <1>4, <1>8 DEF Learners
<1>10. f = "observations" => Clean(text)'
  <2> SUFFICES ASSUME f = "observations" PROVE Clean(text)'
    OBVIOUS
  <2>1. Clean(run.text)
    BY <1>1, <1>5, ListingsIn DEF RunTexts, AllClean
  <2>2. Clean(under)
    BY <1>6, ListingsIn, NothingClean DEF AllClean
  <2>3. text \in Seq(ObservedLine) /\ ~Doubled(text)
    BY <1>6 DEF OfKind
  <2>4. Clean(text)
    <3>1. \A line \in LinesIn(text) : line \in LinesIn(run.text) \/ line \in LinesIn(under)
      BY <1>6
    <3> HIDE DEF Keeping, Doubled, LinesIn, ObservedLine
    <3> QED
      BY <2>1, <2>2, <2>3, <3>1 DEF Clean
  <2> HIDE DEF Clean, Keeping
  <2> QED
    BY <1>9, <2>4, CleanStays
<1>11. PICK file : file = contents'.observations /\ (file \in Listings \/ Clean(file)')
  <2>1. \/ contents'.observations = contents.observations
        \/ f = "observations" /\ contents'.observations = text
    BY <1>6 DEF LearnTyped
  <2> HIDE DEF Clean
  <2>2. CASE contents'.observations = contents.observations
    BY <2>2, ListingsIn
  <2>3. CASE f = "observations" /\ contents'.observations = text
    BY <1>10, <2>3
  <2> QED
    BY <2>1, <2>2, <2>3
<1>12. \A other \in siblings'.observations : other \in Listings \/ Clean(other)'
  <2>1. \/ siblings'.observations = siblings.observations
        \/ f = "observations" /\ siblings'.observations = {text}
    BY <1>6 DEF LearnTyped
  <2> HIDE DEF Clean
  <2> QED
    BY <1>10, <2>1, ListingsIn
<1>13. OwnSeen(next, h)
  BY <1>1, <1>3 DEF OwnSeen, AllClean
<1>14. \A other \in RunTexts(next) : other \in Listings
  BY <1>1, <1>3, ListingsIn DEF RunTexts
<1> HIDE DEF Keeping, OwnSeen, RunTexts, Clean, Listings
<1> QED
  BY <1>1, <1>4, <1>8, <1>11, <1>12, <1>13, <1>14, CleanStep

(* An observer adds its line to lines of others.                           *)
LEMMA AddedSingle ==
    ASSUME NEW s \in Seq(ObservedLine), NEW t \in Seq(ObservedLine), NEW h, ~Doubled(s),
           \A line \in LinesIn(s) : line.by # h,
           \A i \in DOMAIN t : i = 1 /\ t[i].by = h
    PROVE  ~Doubled(s \o t)
<1>1. PICK r : r = s \o t
  OBVIOUS
<1>2. /\ DOMAIN s = 1..Len(s) /\ DOMAIN t = 1..Len(t) /\ DOMAIN r = 1..(Len(s) + Len(t))
      /\ Len(s) \in Nat /\ Len(t) \in Nat
  BY <1>1
<1>3. \A i \in DOMAIN r : \/ i \in DOMAIN s /\ r[i] = s[i]
                          \/ i - Len(s) \in DOMAIN t /\ r[i] = t[i - Len(s)]
  BY <1>1, <1>2
<1>4. \A i \in DOMAIN s : s[i].by # h
  BY DEF LinesIn
<1>5. \A i \in DOMAIN r : \/ i \in DOMAIN s /\ r[i] = s[i] /\ r[i].by # h
                          \/ i = Len(s) + 1 /\ r[i].by = h
  BY <1>2, <1>3, <1>4
<1>6. \A i, j \in DOMAIN s : s[i].by = s[j].by => i = j
  BY DEF Doubled
<1>7. \A i, j \in DOMAIN r : r[i].by = r[j].by => i = j
  BY <1>5, <1>6
<1> QED
  BY <1>1, <1>7 DEF Doubled

(* What follows a replacement is clean: the line an observer adds is in no *)
(* sequence before.                                                        *)
LEMMA FollowingClean ==
    ASSUME LearnTyped, AllClean, NEW h \in Learners, learners[h].pc = "replacing",
           NEW next, next = Following(learners[h]), learners'[h] = next,
           \A g \in Learners \ {h} : learners'[g].pc = learners[g].pc
                                     /\ learners'[g].next = learners[g].next
    PROVE  /\ OwnSeen(next, h) /\ (h \in Observers => ~Keeping(next))
           /\ \A text \in RunTexts(next) : text \in Listings \/ Clean(text)'
<1>1. PICK run : run = learners[h] /\ RunTyped(run, h) /\ run.pc = "replacing"
  BY DEF LearnTyped
<1>2. OwnSeen(run, h) /\ RunTexts(run) \subseteq Listings
  BY <1>1, ListingsIn DEF AllClean
<1>3. CASE run.next = "add"
  <2>1. PICK s \in Seq(ObservedLine) : s = run.lines /\ s \in Listings /\ Clean(s)
    BY <1>1, <1>2 DEF RunTyped, RunTexts, AllClean
  <2>2. PICK t \in Seq(ObservedLine) : t = run.seen
    BY <1>1 DEF RunTyped
  <2>3. PICK r \in Seq(ObservedLine) : r = s \o t
    <3>1. s \o t \in Seq(ObservedLine)
      BY <2>1, <2>2
    <3> HIDE DEF ObservedLine
    <3> QED
      BY <3>1
  <2>4. next = [run EXCEPT !.pc = "opening", !.file = "observations", !.text = r,
                           !.next = "done"]
    BY <1>1, <1>3, <2>1, <2>2, <2>3 DEF Following, Rewrite
  <2>5. /\ next.seen = t /\ next.lines = s /\ next.text = r
        /\ next.file = "observations" /\ next.pc = "opening" /\ next.next = "done"
    BY <1>1, <2>1, <2>2, <2>4 DEF RunTyped
  <2>6. OwnSeen(next, h)
    BY <1>2, <2>2, <2>5 DEF OwnSeen
  <2>7. ~Keeping(next)
    BY <2>5 DEF Keeping
  <2>8. \A line \in LinesIn(s) : line.by # h /\ line.by \in Observers /\ ~Keeping(learners[line.by])
    <3>1. Keeping(learners[h])
      BY <1>1, <1>3 DEF Keeping, Rewriting
    <3>2. \A line \in LinesIn(s) : line.by \in Observers
      BY <2>1, LinesBy
    <3> HIDE DEF Keeping, LinesIn
    <3> QED
      BY <2>1, <3>1, <3>2 DEF Clean
  <2>9. \A i \in DOMAIN t : i = 1 /\ t[i].by = h
    BY <1>2, <2>2 DEF OwnSeen
  <2>10. ~Doubled(r)
    <3>1. ~Doubled(s)
      BY <2>1 DEF Clean
    <3> HIDE DEF Doubled, LinesIn
    <3> QED
      BY <2>3, <2>8, <2>9, <3>1, AddedSingle
  <2>11. LinesIn(r) \subseteq LinesIn(s) \cup LinesIn(t)
    BY <2>3, Joined
  <2>12. \A line \in LinesIn(t) : line.by = h
    BY <2>9 DEF LinesIn
  <2>13. \A line \in LinesIn(r) : ~Keeping(learners'[line.by])
    <3> SUFFICES ASSUME NEW line \in LinesIn(r) PROVE ~Keeping(learners'[line.by])
      OBVIOUS
    <3>1. CASE line.by = h
      BY <2>7, <3>1
    <3>2. CASE line.by # h
      <4>1. line.by \in Learners \ {h} /\ ~Keeping(learners[line.by])
        BY <2>8, <2>11, <2>12, <3>2 DEF Learners
      <4> QED
        BY <4>1 DEF Keeping
    <3> QED
      BY <3>1, <3>2
  <2>14. Clean(r)'
    BY <2>10, <2>13 DEF Clean
  <2>15. RunTexts(next) = {s, r}
    BY <2>5 DEF RunTexts
  <2> QED
    BY <2>1, <2>6, <2>7, <2>14, <2>15
<1>4. CASE run.next = "close"
  <2>1. next = Closing(run)
    BY <1>1, <1>4 DEF Following
  <2>2. next.seen = run.seen /\ next.lines = run.lines /\ next.file = "meta"
    BY <1>1, <2>1 DEF RunTyped, Closing, Rewrite
  <2>3. h \notin Observers
    BY <1>1, <1>4, InstinctsAssumption DEF RunTyped, Rewriting
  <2>4. RunTexts(next) \subseteq RunTexts(run)
    BY <2>2 DEF RunTexts
  <2>5. OwnSeen(next, h)
    BY <1>2, <2>2 DEF OwnSeen
  <2> QED
    BY <1>2, <2>3, <2>4, <2>5
<1>5. CASE run.next = "done"
  <2>1. next = Done
    BY <1>1, <1>5 DEF Following
  <2>2. next.seen = <<>> /\ next.lines = <<>> /\ next.text = <<>> /\ next.pc = "done"
    BY <2>1, DoneIs
  <2>3. ~Keeping(next)
    BY <2>2 DEF Keeping, Rewriting
  <2> QED
    BY <2>2, <2>3, NothingHeld
<1>6. CASE run.next = "filtering"
  <2>1. next = [run EXCEPT !.pc = "filtering", !.text = <<>>]
    BY <1>1, <1>6 DEF Following
  <2>2. /\ next.seen = run.seen /\ next.lines = run.lines
        /\ next.text = <<>> /\ next.pc = "filtering"
    BY <1>1, <2>1 DEF RunTyped
  <2>3. ~Keeping(next)
    BY <2>2 DEF Keeping, Rewriting
  <2>4. \A text \in RunTexts(next) : text = <<>> \/ text \in RunTexts(run)
    BY <2>2 DEF RunTexts
  <2>5. OwnSeen(next, h)
    BY <1>2, <2>2 DEF OwnSeen
  <2> QED
    BY <1>2, <2>3, <2>4, <2>5, NothingClean
<1>7. run.next \in {"add", "close", "done", "filtering"}
  BY <1>1 DEF RunTyped, Rewriting
<1> QED
  BY <1>3, <1>4, <1>5, <1>6, <1>7

(* replaces the file,                                                      *)
LEMMA ReplaceClean ==
    ASSUME LearnTyped, AllClean, NEW h \in Learners, ReplaceFile(h) PROVE AllClean'
<1>1. PICK run : run = learners[h] /\ RunTyped(run, h) /\ run.pc = "replacing"
  BY DEF LearnTyped, ReplaceFile
<1>2. PICK f \in Files : f = run.file
  BY <1>1, FileKinds
<1>3. PICK text \in siblings[f] : contents' = [contents EXCEPT ![f] = text]
  BY <1>1, <1>2 DEF ReplaceFile
<1>4. siblings' = [siblings EXCEPT ![f] = {}]
  BY <1>1, <1>2 DEF ReplaceFile
<1>5. PICK next : next = Following(run) /\ RunTyped(next, h)
  BY <1>1, FollowingTyped
<1>6. ProceedsMoving(h, next, f, Moved)
  BY <1>1, <1>2, <1>5 DEF ReplaceFile
<1>7. PICK place : place = Moved /\ \A into \in Places : place[into] \in Places
  BY PlacesMove
<1>8. /\ learners'[h] = next
      /\ \A g \in Learners \ {h} :
             /\ learners'[g].seen = learners[g].seen /\ learners'[g].lines = learners[g].lines
             /\ learners'[g].file = learners[g].file /\ learners'[g].text = learners[g].text
             /\ learners'[g].pc = learners[g].pc /\ learners'[g].next = learners[g].next
  <2> HIDE DEF RunTyped, ProceedsMoving
  <2> QED
    BY <1>5, <1>6, <1>7, MovesOthers
<1>9. PICK file : file = contents'.observations /\ file \in Listings
  <2>1. \/ contents'.observations = contents.observations
        \/ f = "observations" /\ contents'.observations = text
    BY <1>3 DEF LearnTyped
  <2> QED
    BY <1>3, <2>1, ListingsIn
<1>10. \A other \in siblings'.observations : other \in Listings
  <2>1. siblings'.observations = siblings.observations \/ siblings'.observations = {}
    BY <1>4 DEF LearnTyped
  <2> QED
    BY <2>1, ListingsIn
<1> HIDE DEF Keeping, OwnSeen, RunTexts, Clean, Listings, Following, RunTyped
<1>11. /\ OwnSeen(next, h) /\ (h \in Observers => ~Keeping(next))
       /\ \A other \in RunTexts(next) : other \in Listings \/ Clean(other)'
  BY <1>1, <1>5, <1>8, FollowingClean
<1> QED
  BY <1>8, <1>9, <1>10, <1>11, CleanStep

(* or deletes the sibling.                                                 *)
LEMMA UnlinkClean ==
    ASSUME LearnTyped, AllClean, NEW h \in Learners, Unlink(h) PROVE AllClean'
<1>1. PICK f \in Files : f = learners[h].file
  BY FileKinds DEF LearnTyped
<1>2. siblings' = [siblings EXCEPT ![f] = {}] /\ UNCHANGED contents
  BY <1>1 DEF Unlink
<1>3. PICK next : /\ next = Done /\ RunTyped(next, h) /\ next.pc = "done"
                  /\ next.seen = <<>> /\ next.lines = <<>> /\ next.text = <<>>
  BY DoneTyped, DoneIs
<1>4. ProceedsMoving(h, next, f, Deleted)
  BY <1>1, <1>3 DEF Unlink
<1>5. PICK place : place = Deleted /\ \A into \in Places : place[into] \in Places
  BY PlacesMove
<1>6. /\ learners'[h] = next
      /\ \A g \in Learners \ {h} :
             /\ learners'[g].seen = learners[g].seen /\ learners'[g].lines = learners[g].lines
             /\ learners'[g].file = learners[g].file /\ learners'[g].text = learners[g].text
             /\ learners'[g].pc = learners[g].pc /\ learners'[g].next = learners[g].next
  <2> HIDE DEF RunTyped, ProceedsMoving
  <2> QED
    BY <1>3, <1>4, <1>5, MovesOthers
<1>7. PICK file : file = contents'.observations /\ file \in Listings
  BY <1>2, ListingsIn
<1>8. \A other \in siblings'.observations : other \in Listings
  <2>1. siblings'.observations = siblings.observations \/ siblings'.observations = {}
    BY <1>2 DEF LearnTyped
  <2> QED
    BY <2>1, ListingsIn
<1>9. ~Keeping(next)
  BY <1>3 DEF Keeping, Rewriting
<1>10. OwnSeen(next, h) /\ \A text \in RunTexts(next) : Clean(text)'
  BY <1>3, NothingHeld
<1> HIDE DEF Keeping, OwnSeen, RunTexts, Clean, Listings, RunTyped
<1> QED
  BY <1>6, <1>7, <1>8, <1>9, <1>10, CleanStep

(* The counts and lastExtractedAt, and the siblings that will replace      *)
(* them, are as they were; so is what each extraction knows.               *)
Elsewhere ==
    /\ contents'.document = contents.document /\ contents'.meta = contents.meta
    /\ siblings'.document = siblings.document /\ siblings'.meta = siblings.meta

ExtractionsStay ==
    \A e \in Extractors :
        LET run == learners[e] next == learners'[e] IN
        /\ next.pc = run.pc /\ next.file = run.file /\ next.since = run.since
        /\ next.lines = run.lines /\ next.document = run.document /\ next.text = run.text
        /\ run.file # "observations" => next.into = run.into

(* A step that leaves both alone keeps all that is said of extractions.    *)
LEMMA OthersStay ==
    ASSUME LearnTyped, Calm, Elsewhere, ExtractionsStay, OnlyOnce PROVE OnlyOnce'
<1>1. \A instant : Behind(instant) => Behind(instant)'
  BY BehindStays DEF Elsewhere
<1> HIDE DEF Behind
<1>2. ASSUME NEW e \in Extractors, Extracting(e) PROVE Extracting(e)'
  <2>1. PICK run : run = learners[e]
    OBVIOUS
  <2>2. PICK next : next = learners'[e]
    OBVIOUS
  <2>3. /\ next.pc = run.pc /\ next.file = run.file /\ next.since = run.since
        /\ next.lines = run.lines /\ next.document = run.document /\ next.text = run.text
        /\ run.file # "observations" => next.into = run.into
    BY <2>1, <2>2 DEF ExtractionsStay
  <2>4. run.file \in Files
    BY <2>1, FileKinds DEF LearnTyped, Learners
  <2>5. run.file # "observations" => siblings'[run.file] = siblings[run.file]
    BY <2>4 DEF Elsewhere, Files
  <2>6. run.file = "meta" => Behind(run.text) /\ Behind(run.text)'
    BY <1>1, <1>2, <2>1 DEF Extracting
  <2>7. run.file = "meta" => Behind(learners[e].text)'
    BY <2>1, <2>2, <2>3, <2>6
  <2>8. Extracting(e)
    BY <1>2
  <2> QED
    BY <2>1, <2>2, <2>3, <2>5, <2>7, <2>8 DEF Extracting, Elsewhere
<1>3. \A e \in Extractors : Working(e)' => Working(e)
  BY DEF Working, ExtractionsStay
<1>4. /\ \A d, e \in Extractors : Working(d) /\ Working(e) => d = e
      /\ \A pair \in Observers \X Observers : contents.document[pair] <= 1
      /\ \A e \in Extractors : Working(e) => Extracting(e)
      /\ (\A e \in Extractors : Working(e) => learners[e].file # "meta") => Behind(contents.meta)
  BY DEF OnlyOnce
<1>5. \A d, e \in Extractors : Working(d)' /\ Working(e)' => d = e
  BY <1>3, <1>4
<1>6. \A pair \in Observers \X Observers : contents'.document[pair] <= 1
  BY <1>4 DEF Elsewhere
<1>7. \A e \in Extractors : Working(e)' => Extracting(e)'
  BY <1>2, <1>3, <1>4
<1>8. ASSUME \A e \in Extractors : Working(e)' => learners'[e].file # "meta"
      PROVE  Behind(contents.meta)'
  <2>1. \A e \in Extractors : Working(e) => learners[e].file # "meta"
    BY <1>8 DEF Working, ExtractionsStay
  <2>2. PICK instant : instant = contents.meta /\ instant = contents'.meta
    BY DEF Elsewhere
  <2>3. Behind(instant)'
    BY <1>1, <1>4, <2>1, <2>2
  <2> QED
    BY <2>2, <2>3
<1> HIDE DEF Working, Extracting
<1> QED
  BY <1>5, <1>6, <1>7, <1>8 DEF OnlyOnce

(* Where the only extraction at work goes on, what has to be shown.        *)
LEMMA OneExtracts ==
    ASSUME OnlyOnce, NEW h \in Extractors, Working(h),
           \A g \in Extractors \ {h} : learners'[g].pc = learners[g].pc,
           \A pair \in Observers \X Observers : contents'.document[pair] <= 1,
           Working(h)' => Extracting(h)',
           (Working(h)' => learners'[h].file # "meta") => Behind(contents.meta)'
    PROVE  OnlyOnce'
<1> HIDE DEF Behind, Extracting
<1>1. \A g \in Extractors \ {h} : ~Working(g)
  BY DEF OnlyOnce
<1>2. \A g \in Extractors \ {h} : ~Working(g)'
  BY <1>1 DEF Working
<1>3. \A d, e \in Extractors : Working(d)' /\ Working(e)' => d = e
  BY <1>2
<1>4. \A e \in Extractors : Working(e)' => Extracting(e)'
  BY <1>2
<1>5. (\A e \in Extractors : Working(e)' => learners'[e].file # "meta") => Behind(contents.meta)'
  OBVIOUS
<1> HIDE DEF Working
<1> QED
  BY <1>3, <1>4, <1>5 DEF OnlyOnce

(* Observers write the observations only.                                  *)
LEMMA ObserverWrites ==
    ASSUME LearnTyped, NEW h \in Observers
    PROVE  h \in Learners /\ h \notin Extractors /\ learners[h].file = "observations"
<1>1. h \in Learners /\ h \notin Extractors
  BY InstinctsAssumption DEF Learners
<1>2. RunTyped(learners[h], h)
  BY <1>1 DEF LearnTyped
<1> QED
  BY <1>1, <1>2 DEF RunTyped

(* What they do leaves the extractions as they were.                       *)
LEMMA ObserverStays ==
    ASSUME LearnTyped, NEW h \in Observers, NEW run, Proceeds(h, run) PROVE ExtractionsStay
<1>1. h \in Learners /\ h \notin Extractors
  BY ObserverWrites
<1>2. \A e \in Extractors : learners'[e] = learners[e]
  BY <1>1, OneProceeds DEF Learners
<1> QED
  BY <1>2 DEF ExtractionsStay

(* A hook that replaces or deletes a sibling leaves the others where they  *)
(* are.                                                                    *)
LEMMA MovingStays ==
    ASSUME LearnTyped, NEW h \in Learners, NEW next, RunTyped(next, h), NEW f \in Files,
           ProceedsMoving(h, next, f, Moved) \/ ProceedsMoving(h, next, f, Deleted)
    PROVE  /\ learners'[h] = next
           /\ \A g \in Learners \ {h} :
                LET old == learners[g] new == learners'[g] IN
                /\ new.pc = old.pc /\ new.since = old.since /\ new.lines = old.lines
                /\ new.document = old.document /\ new.file = old.file /\ new.text = old.text
                /\ old.file # f => new.into = old.into
<1> HIDE DEF RunTyped, ProceedsMoving
<1>1. PICK place : /\ \A into \in Places : place[into] \in Places
                   /\ ProceedsMoving(h, next, f, place)
  BY PlacesMove
<1> QED
  BY <1>1, MovesOthers

(* No extraction takes notice of the observers, whatever they interrupt,   *)
LEMMA ObserverKeeps ==
    ASSUME LearnTyped, Calm, OnlyOnce, NEW h \in Observers,
           \/ Observe(h) \/ ReadAndPrune(h) \/ DieLearning(h) \/ OpenSibling(h)
           \/ FillSibling(h) \/ ReplaceFile(h) \/ ReplaceFails(h) \/ Unlink(h)
    PROVE  OnlyOnce'
<1>1. h \in Learners /\ h \notin Extractors /\ learners[h].file = "observations"
  BY ObserverWrites
<1>2. CASE Observe(h) \/ ReadAndPrune(h) \/ DieLearning(h) \/ ReplaceFails(h)
  <2>1. UNCHANGED <<contents, siblings>> /\ \E run : Proceeds(h, run)
    BY <1>2 DEF Observe, ReadAndPrune, DieLearning, ReplaceFails
  <2>2. Elsewhere
    BY <2>1 DEF Elsewhere
  <2> QED
    BY <2>1, <2>2, ObserverStays, OthersStay
<1>3. CASE OpenSibling(h) \/ FillSibling(h)
  <2>1. \E run : Proceeds(h, run)
    BY <1>3 DEF OpenSibling, FillSibling
  <2>2. Elsewhere
    <3>1. CASE OpenSibling(h)
      BY <1>1, <3>1 DEF OpenSibling, LearnTyped, Elsewhere
    <3>2. CASE FillSibling(h)
      <4>1. PICK text :
              /\ siblings' = siblings \/ siblings' = [siblings EXCEPT !.observations = {text}]
              /\ contents' = contents \/ contents' = [contents EXCEPT !.observations = text]
        BY <1>1, <3>2 DEF FillSibling
      <4> QED
        BY <4>1 DEF LearnTyped, Elsewhere
    <3> QED
      BY <1>3, <3>1, <3>2
  <2> QED
    BY <2>1, <2>2, ObserverStays, OthersStay
<1>4. CASE ReplaceFile(h) \/ Unlink(h)
  <2>1. Elsewhere
    BY <1>1, <1>4 DEF ReplaceFile, Unlink, LearnTyped, Elsewhere
  <2>2. PICK next : /\ RunTyped(next, h)
                    /\ \/ ProceedsMoving(h, next, "observations", Moved)
                       \/ ProceedsMoving(h, next, "observations", Deleted)
    <3>1. RunTyped(learners[h], h)
      BY <1>1 DEF LearnTyped
    <3> HIDE DEF RunTyped, ProceedsMoving, Following, Done, Moved, Deleted
    <3>2. CASE ReplaceFile(h)
      <4>1. PICK after : after = Following(learners[h])
        OBVIOUS
      <4>2. RunTyped(after, h)
        BY <1>1, <3>1, <3>2, <4>1, FollowingTyped DEF ReplaceFile
      <4> QED
        BY <1>1, <3>2, <4>1, <4>2 DEF ReplaceFile
    <3>3. CASE Unlink(h)
      BY <1>1, <3>3, DoneTyped DEF Unlink
    <3> QED
      BY <1>4, <3>2, <3>3
  <2>3. "observations" \in Files
    BY DEF Files
  <2>4. \A g \in Learners \ {h} :
                LET old == learners[g] new == learners'[g] IN
                /\ new.pc = old.pc /\ new.since = old.since /\ new.lines = old.lines
                /\ new.document = old.document /\ new.file = old.file /\ new.text = old.text
                /\ old.file # "observations" => new.into = old.into
    <3>1. PICK f \in Files : f = "observations"
      BY <2>3
    <3> HIDE DEF RunTyped, ProceedsMoving
    <3> QED
      BY <1>1, <2>2, <3>1, MovingStays
  <2>5. ExtractionsStay
    BY <1>1, <2>4 DEF ExtractionsStay, Learners
  <2> QED
    BY <2>1, <2>5, OthersStay
<1> QED
  BY <1>2, <1>3, <1>4

(* or of the clock.                                                        *)
LEMMA SecondKeeps == ASSUME LearnTyped, Calm, OnlyOnce, Second PROVE OnlyOnce'
<1>1. Elsewhere /\ ExtractionsStay
  BY DEF Second, Elsewhere, ExtractionsStay
<1> QED
  BY <1>1, OthersStay

(* An extraction that starts alone knows nothing yet but lastExtractedAt.  *)
LEMMA ExtractKeeps ==
    ASSUME LearnTyped, Calm, OnlyOnce, NEW h \in Extractors, Extract(h), ~recounts'
    PROVE  OnlyOnce'
<1> HIDE DEF Behind
<1>1. \A e \in Extractors : ~Working(e)
  BY DEF Extract, Working
<1>2. PICK next : next = [Resting EXCEPT !.pc = "reading", !.since = contents.meta]
  OBVIOUS
<1>3. Proceeds(h, next) /\ UNCHANGED <<contents, siblings>>
  BY <1>2 DEF Extract
<1>4. next.pc = "reading" /\ next.file = "observations" /\ next.since = contents.meta
  BY <1>2 DEF Resting
<1>5. learners'[h] = next /\ \A g \in Extractors \ {h} : learners'[g] = learners[g]
  BY <1>3, OneProceeds DEF Learners
<1>6. \A e \in Extractors : Working(e)' => e = h
  BY <1>1, <1>5 DEF Working
<1>7. Extracting(h)'
  BY <1>3, <1>4, <1>5 DEF Extracting
<1>8. \A pair \in Observers \X Observers : contents'.document[pair] <= 1
  BY <1>3 DEF OnlyOnce
<1>9. Behind(contents.meta)'
  <2>1. PICK instant : instant = contents.meta /\ instant = contents'.meta
    BY <1>3
  <2>2. Behind(instant)
    BY <1>1, <2>1 DEF OnlyOnce
  <2>3. Behind(instant)'
    BY <1>3, <2>2, BehindStays
  <2> QED
    BY <2>1, <2>3
<1> HIDE DEF Extracting, Working
<1>10. \A e \in Extractors : Working(e)' => Extracting(e)'
  BY <1>6, <1>7
<1> QED
  BY <1>6, <1>8, <1>9, <1>10 DEF OnlyOnce

(* Until it counts, an extraction writes neither counts nor                *)
(* lastExtractedAt.                                                        *)
LEMMA EarlyStep ==
    ASSUME LearnTyped, Calm, OnlyOnce, NEW h \in Extractors, Working(h),
           learners[h].file = "observations", Elsewhere,
           learners'[h].file = "observations", learners'[h].pc \notin {"merging", "unlinking"},
           learners'[h].since = learners[h].since,
           \A g \in Extractors \ {h} : learners'[g].pc = learners[g].pc
    PROVE  OnlyOnce'
<1> HIDE DEF Behind
<1>1. \A pair \in Observers \X Observers : contents'.document[pair] <= 1
  BY DEF OnlyOnce, Elsewhere
<1>2. Extracting(h)'
  BY DEF Extracting, OnlyOnce, Elsewhere
<1>3. Behind(contents.meta)'
  <2>1. PICK instant : instant = contents.meta /\ instant = contents'.meta
    BY DEF Elsewhere
  <2>2. Behind(instant)
    BY <2>1 DEF OnlyOnce
  <2>3. Behind(instant)'
    BY <2>2, BehindStays DEF Elsewhere
  <2> QED
    BY <2>1, <2>3
<1> QED
  BY <1>1, <1>2, <1>3, OneExtracts

(* The other extractions stay where they are while one proceeds,           *)
LEMMA OthersRest ==
    ASSUME LearnTyped, NEW h \in Extractors, NEW run, Proceeds(h, run)
    PROVE  learners'[h] = run /\ \A g \in Extractors \ {h} : learners'[g].pc = learners[g].pc
  BY OneProceeds DEF Learners

(* also where it replaces a file.                                          *)
LEMMA OthersWait ==
    ASSUME LearnTyped, NEW h \in Extractors, ReplaceFile(h)
    PROVE  /\ learners'[h] = Following(learners[h])
           /\ \A g \in Extractors \ {h} : learners'[g].pc = learners[g].pc
<1>1. h \in Learners /\ learners[h].pc = "replacing"
  BY DEF ReplaceFile, Learners
<1>2. PICK run : run = learners[h] /\ RunTyped(run, h)
  BY <1>1 DEF LearnTyped
<1>3. PICK f \in Files : f = run.file
  BY <1>1, <1>2, FileKinds
<1>4. PICK next : next = Following(run) /\ RunTyped(next, h)
  BY <1>1, <1>2, FollowingTyped
<1>5. ProceedsMoving(h, next, f, Moved)
  BY <1>2, <1>3, <1>4 DEF ReplaceFile
<1>6. Extractors \subseteq Learners
  BY DEF Learners
<1> HIDE DEF RunTyped, ProceedsMoving, Following
<1> QED
  BY <1>1, <1>2, <1>4, <1>5, <1>6, MovingStays

(* Pruning the observations, with all its steps, keeps what is said.       *)
LEMMA EarlyKeeps ==
    ASSUME LearnTyped, Calm, OnlyOnce, NEW h \in Extractors,
           learners[h].file = "observations",
           ReadAndPrune(h) \/ OpenSibling(h) \/ FillSibling(h) \/ ReplaceFile(h)
    PROVE  OnlyOnce'
<1>0. h \in Learners /\ h \notin Observers
  BY InstinctsAssumption DEF Learners
<1>1. PICK run : run = learners[h] /\ RunTyped(run, h) /\ run.file = "observations"
  BY <1>0 DEF LearnTyped
<1>2. Working(h)
  BY DEF ReadAndPrune, OpenSibling, FillSibling, ReplaceFile, Working
<1>3. Elsewhere
  <2>1. CASE ReadAndPrune(h) \/ OpenSibling(h) \/ ReplaceFile(h)
    BY <1>1, <2>1 DEF ReadAndPrune, OpenSibling, ReplaceFile, LearnTyped, Elsewhere
  <2>2. CASE FillSibling(h)
    <3>1. PICK text :
            /\ siblings' = siblings \/ siblings' = [siblings EXCEPT !.observations = {text}]
            /\ contents' = contents \/ contents' = [contents EXCEPT !.observations = text]
      BY <1>1, <2>2 DEF FillSibling
    <3> QED
      BY <3>1 DEF LearnTyped, Elsewhere
  <2> QED
    BY <2>1, <2>2
<1>4. PICK next : next = learners'[h]
  OBVIOUS
<1>5. CASE ReadAndPrune(h)
  <2>1. PICK kept : kept = Kept(contents.observations)
    OBVIOUS
  <2>2. PICK after : after = Rewrite([run EXCEPT !.lines = kept], "observations", kept, "filtering")
    OBVIOUS
  <2>3. Proceeds(h, after)
    BY <1>0, <1>1, <1>5, <2>1, <2>2 DEF ReadAndPrune
  <2>4. after.file = "observations" /\ after.pc = "opening" /\ after.since = run.since
    BY <1>1, <2>2 DEF Rewrite, RunTyped
  <2> QED
    BY <1>1, <1>2, <1>3, <2>3, <2>4, OthersRest, EarlyStep
<1>6. CASE OpenSibling(h)
  <2>1. PICK after : after = [run EXCEPT !.pc = "filling", !.into = "sibling"]
    OBVIOUS
  <2>2. Proceeds(h, after)
    BY <1>1, <1>6, <2>1 DEF OpenSibling
  <2>3. after.file = "observations" /\ after.pc = "filling" /\ after.since = run.since
    BY <1>1, <2>1 DEF RunTyped
  <2> QED
    BY <1>1, <1>2, <1>3, <2>2, <2>3, OthersRest, EarlyStep
<1>7. CASE FillSibling(h)
  <2>1. PICK after : after = [run EXCEPT !.pc = "replacing", !.into = "none"]
    OBVIOUS
  <2>2. Proceeds(h, after)
    BY <1>1, <1>7, <2>1 DEF FillSibling
  <2>3. after.file = "observations" /\ after.pc = "replacing" /\ after.since = run.since
    BY <1>1, <2>1 DEF RunTyped
  <2> QED
    BY <1>1, <1>2, <1>3, <2>2, <2>3, OthersRest, EarlyStep
<1>8. CASE ReplaceFile(h)
  <2>1. run.pc = "replacing"
    BY <1>1, <1>8 DEF ReplaceFile
  <2>2. run.next = "filtering"
    BY <1>0, <1>1, <2>1 DEF RunTyped, Rewriting
  <2>3. PICK after : after = [run EXCEPT !.pc = "filtering", !.text = <<>>]
    OBVIOUS
  <2>4. Following(run) = after
    BY <2>2, <2>3 DEF Following
  <2>5. after.file = "observations" /\ after.pc = "filtering" /\ after.since = run.since
    BY <1>1, <2>3 DEF RunTyped
  <2>6. learners'[h] = after /\ \A g \in Extractors \ {h} : learners'[g].pc = learners[g].pc
    BY <1>1, <1>8, <2>4, OthersWait
  <2> QED
    BY <1>1, <1>2, <1>3, <2>5, <2>6, EarlyStep
<1> QED
  BY <1>5, <1>6, <1>7, <1>8

(* While an extraction at work has not come to lastExtractedAt, the counts *)
(* are behind it.                                                          *)
LEMMA BehindMeta ==
    ASSUME OnlyOnce, NEW h \in Extractors, Working(h), learners[h].file # "meta"
    PROVE  Behind(contents.meta) /\ learners[h].since = contents.meta
<1> HIDE DEF Behind
<1> QED
  BY DEF OnlyOnce, Extracting

(* What is new is later than lastExtractedAt, that is, not counted yet.    *)
LEMMA FilterKeeps ==
    ASSUME LearnTyped, NotedOnce, Calm, OnlyOnce, NEW h \in Extractors, Filter(h)
    PROVE  OnlyOnce'
<1>0. h \in Learners
  BY DEF Learners
<1>1. PICK run : run = learners[h] /\ RunTyped(run, h) /\ run.pc = "filtering"
  BY <1>0 DEF LearnTyped, Filter
<1>2. Working(h) /\ run.file = "observations" /\ UNCHANGED <<contents, siblings>>
  BY <1>1 DEF Working, RunTyped, Rewriting, Filter
<1>3. PICK meta \in Nat : meta = contents.meta /\ meta = contents'.meta
  BY <1>2 DEF LearnTyped
<1>4. Behind(meta) /\ run.since = meta
  BY <1>1, <1>2, <1>3, BehindMeta
<1>5. Behind(contents.meta)'
  <2>1. Behind(meta)'
    BY <1>2, <1>4, BehindStays
  <2> QED
    BY <1>3, <2>1
<1>6. \A pair \in Observers \X Observers : contents'.document[pair] <= 1
  BY <1>2 DEF OnlyOnce
<1>7. PICK new : new = New(run.lines, run.since)
  OBVIOUS
<1>8. CASE new = <<>>
  <2>1. PICK next : next = Done
    OBVIOUS
  <2>2. Proceeds(h, next)
    BY <1>1, <1>7, <1>8, <2>1 DEF Filter
  <2>3. next.pc = "done"
    BY <2>1, DoneHolds
  <2>4. learners'[h] = next /\ \A g \in Extractors \ {h} : learners'[g].pc = learners[g].pc
    BY <2>2, OthersRest
  <2>5. ~Working(h)'
    BY <2>3, <2>4 DEF Working
  <2> QED
    BY <1>2, <1>5, <1>6, <2>4, <2>5, OneExtracts
<1>9. CASE new # <<>>
  <2>1. PICK next : next = [run EXCEPT !.pc = "merging", !.lines = new,
                                       !.document = contents.document]
    OBVIOUS
  <2>2. Proceeds(h, next)
    BY <1>1, <1>7, <1>9, <2>1 DEF Filter
  <2>3. /\ next.pc = "merging" /\ next.lines = new /\ next.document = contents.document
        /\ next.file = "observations" /\ next.since = meta
    BY <1>1, <1>2, <1>4, <2>1 DEF RunTyped
  <2>4. learners'[h] = next /\ \A g \in Extractors \ {h} : learners'[g].pc = learners[g].pc
    BY <2>2, OthersRest
  <2>5. \A i \in DOMAIN new : new[i].at > meta
    <3>1. PICK lines \in Seq(ObservedLine) : lines = run.lines
      BY <1>1 DEF RunTyped
    <3>2. /\ new \in Seq(ObservedLine)
          /\ \A i \in DOMAIN new : new[i] \in LinesIn(lines)
          /\ meta # 0 => \A i \in DOMAIN new : new[i].at >= meta + 1
      BY <1>4, <1>7, <3>1, NewIn
    <3>3. LinesIn(lines) \subseteq Held
      BY <1>0, <1>1, <3>1, HeldIn DEF RunLines
    <3>4. \A i \in DOMAIN new : new[i].at \in Nat /\ new[i].at >= 1
      <4>1. \A line \in Held : line.at \in Nat /\ line.at >= 1
        BY DEF NotedOnce, ObservedLine
      <4> QED
        BY <3>2, <3>3, <4>1
    <3> QED
      BY <3>2, <3>4
  <2>6. Extracting(h)'
    <3> HIDE DEF Behind
    <3> QED
      BY <1>2, <1>3, <2>3, <2>4, <2>5 DEF Extracting
  <2> QED
    BY <1>2, <1>5, <1>6, <2>4, <2>6, OneExtracts
<1> QED
  BY <1>8, <1>9

(* Behind, of counts that are yet to replace the document.                 *)
Known(document, instant) ==
    \A pair \in Observers \X Observers : document[pair] >= 1 =>
        /\ learners[pair[1]].pc # "off"
        /\ \A line \in Held : line.by = pair[1] => line.at <= instant

(* Once they have replaced it they are the counts.                         *)
LEMMA KnownStays ==
    ASSUME Calm, NEW document, NEW instant, Known(document, instant),
           contents'.document = document
    PROVE  Behind(instant)'
<1> HIDE DEF Held
<1> SUFFICES ASSUME NEW pair \in Observers \X Observers, document[pair] >= 1
             PROVE  /\ learners'[pair[1]].pc # "off"
                    /\ \A line \in Held' : line.by = pair[1] => line.at <= instant
  BY DEF Behind
<1>1. /\ learners[pair[1]].pc # "off"
      /\ \A line \in Held : line.by = pair[1] => line.at <= instant
  BY DEF Known
<1>2. pair[1] \in Learners
  BY DEF Learners
<1> QED
  BY <1>1, <1>2 DEF Calm

(* A merge adds one to a pair at most, and only for a failure among the    *)
(* new lines, of which none is there twice.                                *)
LEMMA CountedOne ==
    ASSUME NEW document \in EvidenceCounts, NEW lines \in Seq(ObservedLine), ~Doubled(lines),
           NEW pair \in Observers \X Observers
    PROVE  \/ Counted(document, lines)[pair] = document[pair]
           \/ /\ Counted(document, lines)[pair] = document[pair] + 1
              /\ \E i \in DOMAIN lines : lines[i].by = pair[1]
<1>1. PICK merged : merged = Counted(document, lines)
  OBVIOUS
<1>2. DOMAIN document = Observers \X Observers /\ document[pair] \in Nat
  BY DEF EvidenceCounts
<1>3. PICK found : found = Recoveries(lines, pair)
  OBVIOUS
<1>4. merged[pair] = document[pair] + Cardinality(found)
  BY <1>1, <1>2, <1>3, Zenon DEF Counted
<1>5. \A ij \in found : /\ ij \in (DOMAIN lines) \X (DOMAIN lines)
                       /\ lines[ij[1]].by = pair[1] /\ lines[ij[2]].by = pair[2]
  <2> HIDE DEF Before
  <2>1. \A ij \in found : /\ ij \in (DOMAIN lines) \X (DOMAIN lines)
                         /\ pair = <<lines[ij[1]].by, lines[ij[2]].by>>
    BY <1>3 DEF Recoveries
  <2> QED
    BY <2>1
<1>6. \A i, j \in DOMAIN lines : lines[i].by = lines[j].by => i = j
  BY DEF Doubled
<1>7. CASE found = {}
  <2>1. Cardinality(found) = 0
    BY <1>7, FS_EmptySet
  <2> QED
    BY <1>1, <1>2, <1>4, <2>1
<1>8. CASE found # {}
  <2>1. PICK ij \in found : TRUE
    BY <1>8
  <2>2. \A kl \in found : kl = ij
    BY <1>5, <1>6, <2>1
  <2>3. found = {ij}
    BY <2>1, <2>2
  <2>4. Cardinality(found) = 1
    BY <2>3, FS_Singleton
  <2>5. \E i \in DOMAIN lines : lines[i].by = pair[1]
    BY <1>5, <2>1
  <2> QED
    BY <1>1, <1>4, <2>4, <2>5
<1> QED
  BY <1>7, <1>8

(* What an extraction that closes knows: the time it writes is not before  *)
(* any line of what then is counted.                                       *)
LEMMA ClosingKnows ==
    ASSUME NotedOnce, NEW lines \in Seq(ObservedLine), lines # <<>>, LinesIn(lines) \subseteq Held,
           NEW meta \in Nat, \A i \in DOMAIN lines : lines[i].at > meta, Behind(meta),
           NEW top \in Nat, \A i \in DOMAIN lines : lines[i].at <= top,
           NEW document,
           \A pair \in Observers \X Observers : document[pair] >= 1 =>
             contents.document[pair] >= 1 \/ \E i \in DOMAIN lines : lines[i].by = pair[1]
    PROVE  Known(document, top)
<1> HIDE DEF Held
<1>1. PICK lined : lined = LinesIn(lines)
  OBVIOUS
<1>2. /\ \A line \in lined : line.at > meta /\ line.at <= top
      /\ \A i \in DOMAIN lines : lines[i] \in lined
      /\ lined # {} /\ lined \subseteq Held
  <2>1. 1 \in DOMAIN lines
    OBVIOUS
  <2>2. \A line \in lined : \E i \in DOMAIN lines : line = lines[i]
    BY <1>1 DEF LinesIn
  <2>3. \A i \in DOMAIN lines : lines[i] \in lined
    BY <1>1 DEF LinesIn
  <2> QED
    BY <1>1, <2>1, <2>2, <2>3
<1>3. \A line \in Held : line.at \in Nat /\ learners[line.by].pc # "off"
  BY DEF NotedOnce, ObservedLine
<1>4. \A line, other \in Held : line.by = other.by => line.at = other.at
  BY DEF NotedOnce
<1>5. meta <= top
  BY <1>2, <1>3
<1> SUFFICES ASSUME NEW pair \in Observers \X Observers, document[pair] >= 1
             PROVE  /\ learners[pair[1]].pc # "off"
                    /\ \A line \in Held : line.by = pair[1] => line.at <= top
  BY DEF Known
<1>6. CASE contents.document[pair] >= 1
  <2>1. /\ learners[pair[1]].pc # "off"
        /\ \A line \in Held : line.by = pair[1] => line.at <= meta
    BY <1>6 DEF Behind
  <2> QED
    BY <1>3, <1>5, <2>1
<1>7. CASE \E i \in DOMAIN lines : lines[i].by = pair[1]
  <2>1. PICK line \in lined : line.by = pair[1]
    BY <1>2, <1>7
  <2> QED
    BY <1>2, <1>3, <1>4, <2>1
<1> QED
  BY <1>6, <1>7

(* The merge: whoever is new was not counted.                              *)
LEMMA MergeKeeps ==
    ASSUME LearnTyped, NotedOnce, Calm, AllClean, OnlyOnce, NEW h \in Extractors,
           MergeCounts(h)
    PROVE  OnlyOnce'
<1>0. h \in Learners
  BY DEF Learners
<1>1. PICK run : run = learners[h] /\ RunTyped(run, h) /\ run.pc = "merging"
  BY <1>0 DEF LearnTyped, MergeCounts
<1>2. /\ Working(h) /\ run.file = "observations" /\ run.lines # <<>>
      /\ UNCHANGED <<contents, siblings>>
  BY <1>1 DEF Working, RunTyped, Rewriting, MergeCounts
<1>3. PICK meta \in Nat : meta = contents.meta /\ meta = contents'.meta
  BY <1>2 DEF LearnTyped
<1>4. Behind(meta) /\ run.since = meta
  BY <1>1, <1>2, <1>3, BehindMeta
<1>5. Behind(meta)'
  BY <1>2, <1>4, BehindStays
<1>6. PICK document \in EvidenceCounts :
        document = contents.document /\ document = contents'.document
  BY <1>2 DEF LearnTyped
<1>7. \A pair \in Observers \X Observers : document[pair] <= 1
  BY <1>6 DEF OnlyOnce
<1>8. PICK lines \in Seq(ObservedLine) : lines = run.lines
  BY <1>1 DEF RunTyped
<1>9. (\A i \in DOMAIN lines : lines[i].at > meta) /\ run.document = document
  <2> HIDE DEF Behind
  <2> QED
    BY <1>1, <1>2, <1>4, <1>6, <1>8 DEF OnlyOnce, Extracting
<1>10. LinesIn(lines) \subseteq Held /\ ~Doubled(lines)
  <2>1. lines \in Listings
    BY <1>0, <1>1, <1>8, ListingsIn DEF RunTexts
  <2>2. Clean(lines)
    BY <2>1 DEF AllClean
  <2>3. ~Doubled(lines)
    BY <2>2 DEF Clean
  <2> QED
    BY <1>0, <1>1, <1>8, <2>3, HeldIn DEF RunLines
<1>11. PICK merged : merged = Counted(document, lines)
  OBVIOUS
<1>12. Proceeds(h, IF merged = document THEN Closing(run)
                   ELSE Rewrite(run, "document", merged, "close"))
  BY <1>1, <1>6, <1>8, <1>9, <1>11 DEF MergeCounts
<1>13. \A pair \in Observers \X Observers : contents'.document[pair] <= 1
  BY <1>6, <1>7
<1>14. CASE merged = document
  <2>1. PICK next : next = Closing(run)
    OBVIOUS
  <2>2. Proceeds(h, next)
    BY <1>12, <1>14, <2>1
  <2>3. PICK top \in Nat : top = next.text /\ \A i \in DOMAIN lines : lines[i].at <= top
    BY <1>1, <1>2, <1>8, <2>1, ClosingTyped
  <2>4. next.file = "meta" /\ next.pc = "opening"
    BY <1>1, <2>1 DEF RunTyped, Closing, Rewrite
  <2>5. Known(document, top)
    <3>1. \A pair \in Observers \X Observers : document[pair] >= 1 =>
             contents.document[pair] >= 1 \/ \E i \in DOMAIN lines : lines[i].by = pair[1]
      BY <1>6
    <3> HIDE DEF Behind, Known, Held
    <3> QED
      BY <1>2, <1>4, <1>8, <1>9, <1>10, <2>3, <3>1, ClosingKnows
  <2>6. Behind(top)'
    BY <1>6, <2>5, KnownStays
  <2>7. learners'[h] = next /\ \A g \in Extractors \ {h} : learners'[g].pc = learners[g].pc
    BY <2>2, OthersRest
  <2>8. Extracting(h)'
    <3>1. Behind(learners[h].text)'
      BY <2>3, <2>6, <2>7
    <3> HIDE DEF Behind
    <3> QED
      BY <2>4, <2>7, <3>1 DEF Extracting
  <2>9. learners'[h].file = "meta" /\ Working(h)'
    BY <2>4, <2>7 DEF Working
  <2> HIDE DEF Extracting, Working, Behind
  <2> QED
    BY <1>2, <1>13, <2>7, <2>8, <2>9, OneExtracts
<1>15. CASE merged # document
  <2>1. PICK next : next = Rewrite(run, "document", merged, "close")
    OBVIOUS
  <2>2. Proceeds(h, next)
    BY <1>12, <1>15, <2>1
  <2>3. /\ next.file = "document" /\ next.pc = "opening" /\ next.lines = lines
        /\ next.text = merged /\ next.since = meta
    BY <1>1, <1>4, <1>8, <2>1 DEF RunTyped, Rewrite
  <2>4. learners'[h] = next /\ \A g \in Extractors \ {h} : learners'[g].pc = learners[g].pc
    BY <2>2, OthersRest
  <2>5. ASSUME NEW pair \in Observers \X Observers
        PROVE  /\ merged[pair] <= 1
               /\ merged[pair] >= 1 =>
                    \/ document[pair] >= 1
                    \/ \E i \in DOMAIN lines : lines[i].by = pair[1]
    <3>1. \/ merged[pair] = document[pair]
          \/ /\ merged[pair] = document[pair] + 1
             /\ \E i \in DOMAIN lines : lines[i].by = pair[1]
      <4> HIDE DEF Counted, Doubled
      <4> QED
        BY <1>10, <1>11, CountedOne
    <3>2. document[pair] \in Nat /\ document[pair] <= 1
      BY <1>7 DEF EvidenceCounts
    <3>3. CASE merged[pair] = document[pair]
      BY <3>2, <3>3
    <3>4. CASE /\ merged[pair] = document[pair] + 1
               /\ \E i \in DOMAIN lines : lines[i].by = pair[1]
      <4>1. PICK i \in DOMAIN lines : lines[i].by = pair[1]
        BY <3>4
      <4>2. lines[i] \in Held /\ lines[i].at > meta /\ lines[i].at \in Nat
        <5>1. lines[i] \in Held
          BY <1>10 DEF LinesIn
        <5>2. \A line \in Held : line.at \in Nat
          BY DEF NotedOnce, ObservedLine
        <5> QED
          BY <1>9, <5>1, <5>2
      <4>3. document[pair] >= 1 => lines[i].at <= meta
        BY <1>4, <1>6, <4>1, <4>2 DEF Behind
      <4>4. document[pair] = 0
        BY <3>2, <4>2, <4>3
      <4> QED
        BY <3>4, <4>1, <4>4
    <3> QED
      BY <3>1, <3>3, <3>4
  <2>6. Extracting(h)'
    <3> HIDE DEF Behind
    <3> QED
      BY <1>3, <1>6, <1>9, <2>3, <2>4, <2>5 DEF Extracting
  <2>7. Behind(contents.meta)'
    BY <1>3, <1>5
  <2> HIDE DEF Extracting, Behind
  <2> QED
    BY <1>2, <1>13, <2>4, <2>6, <2>7, OneExtracts
<1> QED
  BY <1>14, <1>15

(* The extraction fills the sibling that will replace the counts or        *)
(* lastExtractedAt; no other hook touches it meanwhile.                    *)
LEMMA FillingKeeps ==
    ASSUME LearnTyped, Calm, OnlyOnce, NEW h \in Extractors,
           learners[h].file # "observations", OpenSibling(h) \/ FillSibling(h)
    PROVE  OnlyOnce'
<1>0. h \in Learners
  BY DEF Learners
<1>1. PICK run : run = learners[h] /\ RunTyped(run, h) /\ run.file \in {"document", "meta"}
  BY <1>0, FileKinds DEF LearnTyped, Files
<1>2. Working(h)
  BY DEF OpenSibling, FillSibling, Working
<1>3. Extracting(h)
  BY <1>2 DEF OnlyOnce
<1>4. FillSibling(h) => run.into = "sibling" /\ siblings[run.file] = {Unread[run.file]}
  <2> HIDE DEF Behind
  <2> QED
    BY <1>1, <1>3 DEF Extracting, FillSibling
<1>5. PICK next : next = IF run.pc = "opening"
                         THEN [run EXCEPT !.pc = "filling", !.into = "sibling"]
                         ELSE [run EXCEPT !.pc = "replacing", !.into = "none"]
  OBVIOUS
<1>6. Proceeds(h, next) /\ UNCHANGED contents
  BY <1>1, <1>4, <1>5 DEF OpenSibling, FillSibling
<1>7. /\ next.file = run.file /\ next.since = run.since /\ next.lines = run.lines
      /\ next.document = run.document /\ next.text = run.text
      /\ next.pc = "filling" \/ next.pc = "replacing"
      /\ next.pc = "filling" => next.into = "sibling" /\ run.pc = "opening"
  BY <1>1, <1>5 DEF RunTyped
<1>8. next.pc = "replacing" => siblings'[run.file] = {run.text}
  <2>1. ASSUME next.pc = "replacing" PROVE FillSibling(h)
    <3>1. run.pc # "opening"
      BY <1>1, <1>5, <2>1 DEF RunTyped
    <3> QED
      BY <1>1, <3>1 DEF OpenSibling
  <2>2. ASSUME FillSibling(h) PROVE siblings'[run.file] = {run.text}
    <3>1. Opened(run) = {Unread[run.file]}
      BY <1>4, <2>2 DEF Opened
    <3>2. Overwritten(run.file, run.text, Unread[run.file]) = {run.text}
      BY <1>1 DEF Overwritten
    <3>3. siblings' = [siblings EXCEPT ![run.file] = {run.text}]
      <4> HIDE DEF Overwritten, Opened
      <4>1. \E under \in Opened(run) : \E text \in Overwritten(run.file, run.text, under) :
              siblings' = IF run.into = "sibling"
                          THEN [siblings EXCEPT ![run.file] = {text}] ELSE siblings
        BY <1>1, <2>2 DEF FillSibling
      <4>2. \E text \in Overwritten(run.file, run.text, Unread[run.file]) :
              siblings' = [siblings EXCEPT ![run.file] = {text}]
        BY <1>4, <2>2, <3>1, <4>1
      <4> QED
        BY <3>2, <4>2
    <3> QED
      BY <1>1, <3>3 DEF LearnTyped
  <2> QED
    BY <2>1, <2>2
<1>14. next.pc = "filling" => siblings'[run.file] = {Unread[run.file]}
  <2> SUFFICES ASSUME next.pc = "filling" PROVE siblings'[run.file] = {Unread[run.file]}
    OBVIOUS
  <2>1. OpenSibling(h)
    BY <1>1, <1>7 DEF FillSibling
  <2>2. siblings' = [siblings EXCEPT ![run.file] = {Unread[run.file]}]
    BY <1>1, <2>1 DEF OpenSibling
  <2> QED
    BY <1>1, <2>2 DEF LearnTyped
<1>9. learners'[h] = next /\ \A g \in Extractors \ {h} : learners'[g].pc = learners[g].pc
  BY <1>6, OthersRest
<1>10. run.file = "meta" => Behind(learners[h].text)'
  <2> SUFFICES ASSUME run.file = "meta" PROVE Behind(learners[h].text)'
    OBVIOUS
  <2>1. PICK top : top = run.text
    OBVIOUS
  <2>2. Behind(top)
    BY <1>1, <1>3, <2>1 DEF Extracting
  <2>3. Behind(top)'
    BY <1>6, <2>2, BehindStays
  <2> QED
    BY <1>7, <1>9, <2>1, <2>3
<1>11. Extracting(h)'
  <2> HIDE DEF Behind
  <2> QED
    BY <1>1, <1>3, <1>6, <1>7, <1>8, <1>9, <1>10, <1>14 DEF Extracting
<1>12. \A pair \in Observers \X Observers : contents'.document[pair] <= 1
  BY <1>6 DEF OnlyOnce
<1>13. (Working(h)' => learners'[h].file # "meta") => Behind(contents.meta)'
  <2> SUFFICES ASSUME Working(h)' => learners'[h].file # "meta" PROVE Behind(contents.meta)'
    OBVIOUS
  <2>1. Working(h)'
    BY <1>7, <1>9 DEF Working
  <2>2. run.file # "meta"
    BY <1>7, <1>9, <2>1
  <2>3. PICK meta : meta = contents.meta /\ meta = contents'.meta
    BY <1>6
  <2>4. Behind(meta)
    BY <1>1, <1>2, <2>2, <2>3, BehindMeta
  <2>5. Behind(meta)'
    BY <1>6, <2>4, BehindStays
  <2> QED
    BY <2>3, <2>5
<1> HIDE DEF Extracting, Working, Behind
<1> QED
  BY <1>2, <1>9, <1>11, <1>12, <1>13, OneExtracts

(* The new counts take their place, and lastExtractedAt is yet to follow.  *)
LEMMA CountsReplaced ==
    ASSUME LearnTyped, NotedOnce, Calm, OnlyOnce, NEW h \in Extractors,
           learners[h].file = "document", ReplaceFile(h)
    PROVE  OnlyOnce'
<1>0. h \in Learners
  BY DEF Learners
<1>1. PICK run : run = learners[h] /\ RunTyped(run, h) /\ run.file = "document"
  BY <1>0 DEF LearnTyped
<1>2. Working(h) /\ run.pc = "replacing"
  BY <1>1 DEF ReplaceFile, Working
<1>3. PICK text \in EvidenceCounts : text = run.text
  BY <1>0, <1>1, FileKinds
<1>4. PICK lines \in Seq(ObservedLine) : lines = run.lines /\ lines # <<>>
  BY <1>1 DEF RunTyped
<1>5. PICK meta \in Nat : meta = contents.meta
  BY DEF LearnTyped
<1>6. Behind(meta) /\ run.since = meta
  BY <1>1, <1>2, <1>5, BehindMeta
<1>7. /\ \A i \in DOMAIN lines : lines[i].at > meta
      /\ \A pair \in Observers \X Observers :
           /\ text[pair] <= 1
           /\ text[pair] >= 1 =>
                contents.document[pair] >= 1 \/ \E i \in DOMAIN lines : lines[i].by = pair[1]
      /\ siblings.document = {text}
  <2>1. Extracting(h)
    BY <1>2 DEF OnlyOnce
  <2> HIDE DEF Behind
  <2> QED
    BY <1>1, <1>2, <1>3, <1>4, <1>6, <2>1 DEF Extracting
<1>8. contents'.document = text
  BY <1>1, <1>7 DEF ReplaceFile, LearnTyped
<1>9. PICK next : next = Closing(run)
  OBVIOUS
<1>10. PICK top \in Nat : top = next.text /\ \A i \in DOMAIN lines : lines[i].at <= top
  BY <1>1, <1>4, <1>9, ClosingTyped
<1>11. next.file = "meta" /\ next.pc = "opening"
  BY <1>1, <1>9 DEF RunTyped, Closing, Rewrite
<1>12. LinesIn(lines) \subseteq Held
  BY <1>0, <1>1, <1>4, HeldIn DEF RunLines
<1>13. Known(text, top)
  <2>1. \A pair \in Observers \X Observers : text[pair] >= 1 =>
             contents.document[pair] >= 1 \/ \E i \in DOMAIN lines : lines[i].by = pair[1]
    BY <1>7
  <2> HIDE DEF Behind, Known, Held
  <2> QED
    BY <1>4, <1>6, <1>7, <1>10, <1>12, <2>1, ClosingKnows
<1>14. Behind(top)'
  BY <1>8, <1>13, KnownStays
<1>15. Following(run) = next
  <2>1. run.next = "close"
    BY <1>1, <1>2 DEF RunTyped
  <2> QED
    BY <1>9, <2>1 DEF Following
<1>16. learners'[h] = next /\ \A g \in Extractors \ {h} : learners'[g].pc = learners[g].pc
  BY <1>1, <1>15, OthersWait
<1>17. Extracting(h)'
  <2>1. Behind(learners[h].text)'
    BY <1>10, <1>14, <1>16
  <2> HIDE DEF Behind
  <2> QED
    BY <1>11, <1>16, <2>1 DEF Extracting
<1>18. \A pair \in Observers \X Observers : contents'.document[pair] <= 1
  BY <1>7, <1>8
<1>19. learners'[h].file = "meta" /\ Working(h)'
  BY <1>11, <1>16 DEF Working
<1> HIDE DEF Extracting, Working, Behind
<1> QED
  BY <1>2, <1>16, <1>17, <1>18, <1>19, OneExtracts

(* It follows, and the extraction is done.                                 *)
LEMMA MetaReplaced ==
    ASSUME LearnTyped, Calm, OnlyOnce, NEW h \in Extractors,
           learners[h].file = "meta", ReplaceFile(h)
    PROVE  OnlyOnce'
<1>0. h \in Learners
  BY DEF Learners
<1>1. PICK run : run = learners[h] /\ RunTyped(run, h) /\ run.file = "meta"
  BY <1>0 DEF LearnTyped
<1>2. Working(h) /\ run.pc = "replacing"
  BY <1>1 DEF ReplaceFile, Working
<1>3. PICK top : top = run.text
  OBVIOUS
<1>4. Extracting(h)
  BY <1>2 DEF OnlyOnce
<1>5. Behind(top) /\ siblings.meta = {top}
  <2> HIDE DEF Behind
  <2> QED
    BY <1>1, <1>2, <1>3, <1>4 DEF Extracting
<1>6. contents'.meta = top /\ contents'.document = contents.document
  BY <1>1, <1>5 DEF ReplaceFile, LearnTyped
<1>7. Behind(contents.meta)'
  <2>1. Behind(top)'
    BY <1>5, <1>6, BehindStays
  <2> QED
    BY <1>6, <2>1
<1>8. Following(run) = Done
  BY <1>1, <1>2 DEF RunTyped, Following
<1>9. learners'[h] = Done /\ \A g \in Extractors \ {h} : learners'[g].pc = learners[g].pc
  BY <1>1, <1>8, OthersWait
<1>10. ~Working(h)'
  BY <1>9, DoneHolds DEF Working
<1>11. \A pair \in Observers \X Observers : contents'.document[pair] <= 1
  BY <1>6 DEF OnlyOnce
<1> QED
  BY <1>2, <1>7, <1>9, <1>10, <1>11, OneExtracts

(* With the sequences clean as well, this is the invariant.                *)
LearnInv == LearnTyped /\ NotedOnce /\ (~recounts => AllClean /\ OnlyOnce)

(* It all holds at first.                                                  *)
LEMMA LearnInitially == InstinctInit => LearnInv
<1> SUFFICES ASSUME InstinctInit PROVE NotedOnce /\ AllClean /\ OnlyOnce
  BY TypedAtFirst DEF LearnInv
<1>1. PICK idle \in SUBSET Learners :
        learners = [h \in Learners |-> IF h \in idle THEN Done ELSE Resting]
  BY DEF InstinctInit
<1>2. \A h \in Learners : learners[h].pc \in {"off", "done"} /\ RunLines(learners[h]) = {}
  <2>1. RunLines(Resting) = {} /\ Resting.pc = "off"
    BY DEF RunLines, LinesIn, Resting
  <2> QED
    BY <1>1, <2>1, DoneHolds
<1>3. LinesIn(contents.observations) = {} /\ siblings.observations = {}
      /\ contents.document = Uncounted
  BY UnreadTyped DEF InstinctInit, LinesIn, Files
<1>4. Held = {}
  BY <1>2, <1>3 DEF Held
<1>5. NotedOnce
  BY <1>4 DEF NotedOnce
<1>6. \A e \in Extractors : ~Working(e)
  BY <1>2 DEF Working, Learners
<1>7. \A pair \in Observers \X Observers : contents.document[pair] = 0
  BY <1>3 DEF Uncounted
<1>8. \A h \in Learners : learners[h].seen = <<>> /\ RunTexts(learners[h]) = {<<>>}
  <2>1. /\ Resting.seen = <<>> /\ Resting.lines = <<>> /\ Resting.text = <<>>
        /\ Done.seen = <<>> /\ Done.lines = <<>> /\ Done.text = <<>>
    BY DoneIs DEF Resting
  <2> HIDE DEF Done, Resting
  <2> QED
    BY <1>1, <2>1 DEF RunTexts
<1>9. contents.observations = <<>>
  BY UnreadTyped DEF InstinctInit, Unread
<1>10. AllClean
  <2>1. Listings \subseteq {<<>>}
    BY <1>3, <1>8, <1>9 DEF Listings
  <2>2. \A h \in Learners : OwnSeen(learners[h], h)
    BY <1>8 DEF OwnSeen
  <2> HIDE DEF Clean, OwnSeen, Listings
  <2> QED
    BY <2>1, <2>2, NothingClean DEF AllClean
<1> QED
  BY <1>5, <1>6, <1>7, <1>10 DEF OnlyOnce, Behind

(* Every step keeps the types and the times,                               *)
LEMMA LearnStep ==
    ASSUME LearnTyped, NotedOnce, InstinctNext
    PROVE  LearnTyped' /\ NotedOnce' /\ Calm /\ (~recounts' => ~recounts)
<1>1. CASE Second
  BY <1>1, SecondKeepsTypes, SecondHolds, QuietKeepsNoted DEF Second
<1>2. ASSUME NEW o \in Observers, Observe(o)
      PROVE  LearnTyped' /\ NotedOnce' /\ Calm /\ (~recounts' => ~recounts)
  BY <1>2, ObserveKeepsTypes, ObserveHolds DEF Observe
<1>3. ASSUME NEW e \in Extractors, Extract(e)
      PROVE  LearnTyped' /\ NotedOnce' /\ Calm /\ (~recounts' => ~recounts)
  BY <1>3, ExtractKeepsTypes, ExtractHolds, QuietKeepsNoted DEF Extract
<1>4. ASSUME NEW e \in Extractors, Filter(e)
      PROVE  LearnTyped' /\ NotedOnce' /\ Calm /\ (~recounts' => ~recounts)
  BY <1>4, FilterKeepsTypes, FilterHolds, QuietKeepsNoted DEF Filter
<1>5. ASSUME NEW e \in Extractors, MergeCounts(e)
      PROVE  LearnTyped' /\ NotedOnce' /\ Calm /\ (~recounts' => ~recounts)
  BY <1>5, MergeKeepsTypes, MergeHolds, QuietKeepsNoted DEF MergeCounts
<1>6. ASSUME NEW h \in Learners, ReadAndPrune(h)
      PROVE  LearnTyped' /\ NotedOnce' /\ Calm /\ (~recounts' => ~recounts)
  BY <1>6, ReadKeepsTypes, ReadHolds, QuietKeepsNoted DEF ReadAndPrune
<1>7. ASSUME NEW h \in Learners, DieLearning(h)
      PROVE  LearnTyped' /\ NotedOnce' /\ Calm /\ (~recounts' => ~recounts)
  <2>1. Proceeds(h, Done) /\ UNCHANGED <<clock, contents, siblings>> /\ (~recounts' => ~recounts)
    BY <1>7 DEF DieLearning
  <2> QED
    BY <1>7, <2>1, EndKeepsTypes, EndHolds, QuietKeepsNoted
<1>11. ASSUME NEW h \in Learners, ReplaceFails(h)
      PROVE  LearnTyped' /\ NotedOnce' /\ Calm /\ (~recounts' => ~recounts)
  BY <1>11, FailKeepsTypes, FailHolds, QuietKeepsNoted DEF ReplaceFails
<1>12. ASSUME NEW h \in Learners, Unlink(h)
      PROVE  LearnTyped' /\ NotedOnce' /\ Calm /\ (~recounts' => ~recounts)
  BY <1>12, UnlinkKeepsTypes, UnlinkHolds, QuietKeepsNoted DEF Unlink
<1>8. ASSUME NEW h \in Learners, OpenSibling(h)
      PROVE  LearnTyped' /\ NotedOnce' /\ Calm /\ (~recounts' => ~recounts)
  BY <1>8, OpenKeepsTypes, OpenHolds, QuietKeepsNoted DEF OpenSibling
<1>9. ASSUME NEW h \in Learners, FillSibling(h)
      PROVE  LearnTyped' /\ NotedOnce' /\ Calm /\ (~recounts' => ~recounts)
  <2>1. ~recounts' => ~recounts
    BY <1>9 DEF FillSibling
  <2> QED
    BY <1>9, <2>1, FillKeepsTypes, FillHolds, QuietKeepsNoted
<1>10. ASSUME NEW h \in Learners, ReplaceFile(h)
      PROVE  LearnTyped' /\ NotedOnce' /\ Calm /\ (~recounts' => ~recounts)
  BY <1>10, ReplaceKeepsTypes, ReplaceHolds, QuietKeepsNoted DEF ReplaceFile
<1> QED
  BY <1>1, <1>2, <1>3, <1>4, <1>5, <1>6, <1>7, <1>8, <1>9, <1>10, <1>11, <1>12 DEF InstinctNext

(* that no sequence has a line twice, but for the step that notes one,     *)
LEMMA CleanKept ==
    ASSUME LearnTyped, AllClean, InstinctNext, ~recounts' PROVE AllClean'
<1>1. CASE Second
  BY <1>1, SecondClean
<1>2. ASSUME NEW o \in Observers, Observe(o) PROVE AllClean'
  BY <1>2, ObserveClean
<1>3. ASSUME NEW e \in Extractors, Extract(e) \/ Filter(e) \/ MergeCounts(e) PROVE AllClean'
  BY <1>3, ExtractClean, FilterClean, MergeClean
<1>4. ASSUME NEW h \in Learners, ReadAndPrune(h) \/ OpenSibling(h) \/ FillSibling(h)
      PROVE  AllClean'
  BY <1>4, ReadClean, OpenClean, FillClean
<1>5. ASSUME NEW h \in Learners,
             DieLearning(h) \/ ReplaceFile(h) \/ ReplaceFails(h) \/ Unlink(h)
      PROVE  AllClean'
  <2>1. DieLearning(h) => Proceeds(h, Done) /\ UNCHANGED <<contents, siblings>>
    BY DEF DieLearning
  <2> QED
    BY <1>5, <2>1, EndClean, ReplaceClean, FailClean, UnlinkClean
<1> QED
  BY <1>1, <1>2, <1>3, <1>4, <1>5 DEF InstinctNext

(* and, while extractions come one after the other, that evidence is       *)
(* counted once.                                                           *)
LEMMA OnceStep ==
    ASSUME LearnTyped, NotedOnce, Calm, AllClean, OnlyOnce, InstinctNext, ~recounts'
    PROVE  OnlyOnce'
<1>1. CASE Second
  BY <1>1, SecondKeeps
<1>2. ASSUME NEW h \in Observers,
             \/ Observe(h) \/ ReadAndPrune(h) \/ DieLearning(h) \/ OpenSibling(h)
             \/ FillSibling(h) \/ ReplaceFile(h) \/ ReplaceFails(h) \/ Unlink(h)
      PROVE  OnlyOnce'
  BY <1>2, ObserverKeeps
<1>3. ASSUME NEW e \in Extractors, Extract(e) \/ Filter(e) \/ MergeCounts(e) PROVE OnlyOnce'
  BY <1>3, ExtractKeeps, FilterKeeps, MergeKeeps
<1>4. ASSUME NEW h \in Extractors, ReadAndPrune(h) PROVE OnlyOnce'
  <2>1. RunTyped(learners[h], h) /\ learners[h].pc = "reading"
    BY <1>4 DEF ReadAndPrune, LearnTyped, Learners
  <2>2. learners[h].file = "observations"
    BY <2>1 DEF RunTyped, Rewriting
  <2> QED
    BY <1>4, <2>2, EarlyKeeps
<1>5. ASSUME NEW h \in Extractors, DieLearning(h) \/ ReplaceFails(h) PROVE OnlyOnce'
  BY <1>5 DEF DieLearning, ReplaceFails
<1>8. ASSUME NEW h \in Extractors, Unlink(h) PROVE OnlyOnce'
  <2>1. Working(h)
    BY <1>8 DEF Unlink, Working
  <2>2. Extracting(h)
    BY <2>1 DEF OnlyOnce
  <2>3. learners[h].pc # "unlinking"
    <3> HIDE DEF Behind
    <3> QED
      BY <2>2 DEF Extracting
  <2> QED
    BY <1>8, <2>3 DEF Unlink
<1>6. ASSUME NEW h \in Extractors, OpenSibling(h) \/ FillSibling(h) PROVE OnlyOnce'
  BY <1>6, EarlyKeeps, FillingKeeps
<1>7. ASSUME NEW h \in Extractors, ReplaceFile(h) PROVE OnlyOnce'
  <2>1. learners[h].file \in Files
    BY FileKinds DEF LearnTyped, Learners
  <2> QED
    BY <1>7, <2>1, EarlyKeeps, CountsReplaced, MetaReplaced DEF Files
<1> QED
  BY <1>1, <1>2, <1>3, <1>4, <1>5, <1>6, <1>7, <1>8 DEF InstinctNext, Learners

(* The invariant is kept.                                                  *)
LEMMA LearnKept == LearnInv /\ [InstinctNext]_instinctVars => LearnInv'
<1> HIDE DEF LearnTyped, NotedOnce, AllClean, OnlyOnce
<1>1. ASSUME LearnInv, InstinctNext PROVE LearnInv'
  BY <1>1, LearnStep, CleanKept, OnceStep DEF LearnInv
<1>2. ASSUME LearnInv, UNCHANGED instinctVars PROVE LearnInv'
  <2>1. LearnTyped' = LearnTyped
    BY <1>2 DEF instinctVars, LearnTyped
  <2>2. Held' = Held
    BY <1>2 DEF instinctVars, Held
  <2>3. NotedOnce' = NotedOnce
    BY <1>2, <2>2 DEF instinctVars, NotedOnce
  <2>4. OnlyOnce' = OnlyOnce
    BY <1>2, <2>2 DEF instinctVars, OnlyOnce, Extracting, Working, Behind
  <2>5. recounts' = recounts
    BY <1>2 DEF instinctVars
  <2>6. AllClean' = AllClean
    <3>1. Listings' = Listings
      BY <1>2 DEF instinctVars, Listings
    <3> QED
      BY <1>2, <3>1 DEF instinctVars, AllClean, Clean
  <2> QED
    BY <1>2, <2>1, <2>3, <2>4, <2>5, <2>6 DEF LearnInv
<1> QED
  BY <1>1, <1>2

(* Evidence is counted once, for any number of observers and extractions:  *)
(* no failure and what followed it enter the counts twice, whatever        *)
(* observers prune, add, lose or bring back, as long as extractions        *)
(* neither overlap nor break off, and no text written over another leaves  *)
(* a line twice among the observations.                                    *)
THEOREM EvidenceCountedOnce == InstinctSpec => []CountedOnce
<1>1. LearnInv => CountedOnce
  <2>1. LearnInv => DOMAIN contents.document = Observers \X Observers
    BY DEF LearnInv, LearnTyped, EvidenceCounts
  <2> QED
    BY <2>1 DEF LearnInv, OnlyOnce, CountedOnce
<1> QED
  BY <1>1, LearnInitially, LearnKept, PTL DEF InstinctSpec
===============================================================================
