------------------------------ MODULE Instincts ------------------------------
(***************************************************************************)
(* What the hooks learn of an agent's sessions (_lib/instincts.py): every  *)
(* use of a tool leaves an observation, and at the end of a turn the       *)
(* failures followed by another tool are counted.  Each hook is a process  *)
(* of its own; three files are rewritten without a lock, through one       *)
(* sibling file each that all writers share.  An unreadable file counts as *)
(* an empty one.  The workflows, which are counted from all framework      *)
(* events at every extraction, the confidences and the details of an       *)
(* observation are left out.                                               *)
(***************************************************************************)
EXTENDS Integers, Sequences, FiniteSets, FiniteSetsExt

CONSTANTS
    Observers,   \* runs of instinct-observe.py, each of one observation
    Extractors,  \* runs of instinct-extract.py
    Chats,       \* the sessions the observations come from
    Kinds,       \* what an observation says: "start" of a tool, "success" or "failure"
    Retention,   \* OBSERVATION_RETENTION_DAYS
    Horizon,     \* bound of the clock
    Deaths       \* bound of the hooks killed

ASSUME InstinctsAssumption ==
    /\ Retention \in Nat /\ Horizon \in Nat /\ Deaths \in Nat
    /\ Observers \cap Extractors = {} /\ Kinds \subseteq {"start", "success", "failure"}

VARIABLES
    clock,     \* in seconds, the resolution of a timestamp
    contents,  \* the observations, the counts, and lastExtractedAt (0: none)
    siblings,  \* the files being filled, with the suffix .tmp: as a set of at most one
    learners,  \* what each hook is doing
    deaths

(* Read by no code: two extractions overlapped, one broke off, or a line   *)
(* came to stand twice in the observations.                                *)
VARIABLE recounts

instinctVars == <<clock, contents, siblings, learners, deaths, recounts>>

Learners == Observers \cup Extractors
Uncounted == [pair \in Observers \X Observers |-> 0]

(* How an empty or half-written file is read.                              *)
Unread == [observations |-> <<>>, document |-> Uncounted, meta |-> 0]

Resting == [pc |-> "off", seen |-> <<>>, since |-> 0, lines |-> <<>>, document |-> Uncounted,
            file |-> "observations", text |-> <<>>, into |-> "none", next |-> "done"]
Done == [Resting EXCEPT !.pc = "done"]

InstinctInit ==
    /\ clock = 1
    /\ contents = Unread
    /\ siblings = [f \in DOMAIN Unread |-> {}]
    /\ \E idle \in SUBSET Learners :
         learners = [h \in Learners |-> IF h \in idle THEN Done ELSE Resting]
    /\ deaths \in 0..Deaths /\ recounts = FALSE

-----------------------------------------------------------------------------
Proceeds(h, run) == learners' = [learners EXCEPT ![h] = run]

(* _write_ndjson, _dump_yaml_or_json and _save_meta: the sibling is opened *)
(* and emptied, filled, and takes the place of the file.                   *)
Rewrite(run, f, text, next) ==
    [run EXCEPT !.pc = "opening", !.file = f, !.text = text, !.next = next]

OpenSibling(h) ==
    LET run == learners[h] IN
    /\ run.pc = "opening"
    /\ siblings' = [siblings EXCEPT ![run.file] = {Unread[run.file]}]
    /\ Proceeds(h, [run EXCEPT !.pc = "filling", !.into = "sibling"])
    /\ UNCHANGED <<clock, contents, deaths, recounts>>

(* What a file reads when a text is written from its start, over what      *)
(* others wrote since it was emptied: the end of a longer text remains.    *)
(* Lines count as of one length, but the first that remains may be broken  *)
(* and skipped.  Two documents in one read as either or as none; times are *)
(* of one length.                                                          *)
Overwritten(f, text, under) ==
    CASE f = "observations" ->
           {text \o SubSeq(under, n, Len(under)) :
              n \in {Len(text) + 1, Len(text) + IF text = <<>> THEN 1 ELSE 2}}
      [] f = "document" -> {text} \cup (IF under = Unread[f] THEN {} ELSE {under, Unread[f]})
      [] f = "meta" -> {text}

Doubled(lines) == \E i, j \in DOMAIN lines : i # j /\ lines[i].by = lines[j].by

(* What the file reads by now that a run has opened.                       *)
Opened(run) ==
    CASE run.into = "sibling" -> siblings[run.file]
      [] run.into = "file" -> {contents[run.file]}
      [] OTHER -> {Unread[run.file]}

(* The text goes where the file opened is by now.                          *)
FillSibling(h) ==
    LET run == learners[h] f == run.file IN
    /\ run.pc = "filling"
    /\ \E under \in Opened(run) : \E text \in Overwritten(f, run.text, under) :
         /\ siblings' = IF run.into = "sibling" THEN [siblings EXCEPT ![f] = {text}]
                        ELSE siblings
         /\ contents' = IF run.into = "file" THEN [contents EXCEPT ![f] = text] ELSE contents
         /\ recounts' = (recounts \/ (f = "observations" /\ Doubled(text)))
    /\ Proceeds(h, [run EXCEPT !.pc = "replacing", !.into = "none"])
    /\ UNCHANGED <<clock, deaths>>

(* Where the sibling others have opened goes when it replaces the file, or *)
(* is deleted.                                                             *)
Moved == [none |-> "none", sibling |-> "file", file |-> "gone", gone |-> "gone"]
Deleted == [Moved EXCEPT !.file = "file", !.sibling = "gone"]

ProceedsMoving(h, run, f, place) ==
    learners' = [g \in Learners |->
        IF g = h THEN run
        ELSE IF learners[g].file = f THEN [learners[g] EXCEPT !.into = place[@]]
        ELSE learners[g]]

(* An observer adds its line to what it has pruned; an extraction goes on  *)
(* to the counts, or notes how far it has come.                            *)
Closing(run) ==
    Rewrite(run, "meta", Max({run.lines[i].at : i \in DOMAIN run.lines}), "done")
Following(run) ==
    CASE run.next = "add" -> Rewrite(run, "observations", run.lines \o run.seen, "done")
      [] run.next = "close" -> Closing(run)
      [] run.next = "done" -> Done
      [] OTHER -> [run EXCEPT !.pc = run.next, !.text = <<>>]

ReplaceFile(h) ==
    LET run == learners[h] f == run.file IN
    /\ run.pc = "replacing"
    /\ \E text \in siblings[f] : contents' = [contents EXCEPT ![f] = text]
    /\ siblings' = [siblings EXCEPT ![f] = {}]
    /\ ProceedsMoving(h, Following(run), f, Moved)
    /\ UNCHANGED <<clock, deaths, recounts>>

(* Another has taken the sibling: on the error the sibling is deleted,     *)
(* which may be the next one, of a third.  The error ends the extraction,  *)
(* and the observer swallows it, with the observation.                     *)
ReplaceFails(h) ==
    /\ learners[h].pc = "replacing" /\ siblings[learners[h].file] = {}
    /\ Proceeds(h, [learners[h] EXCEPT !.pc = "unlinking"])
    /\ recounts' = (recounts \/ h \in Extractors)
    /\ UNCHANGED <<clock, contents, siblings, deaths>>

Unlink(h) ==
    LET f == learners[h].file IN
    /\ learners[h].pc = "unlinking"
    /\ siblings' = [siblings EXCEPT ![f] = {}]
    /\ ProceedsMoving(h, Done, f, Deleted)
    /\ UNCHANGED <<clock, contents, deaths, recounts>>

-----------------------------------------------------------------------------
(* What is noted of a use of a tool: by whom, when, in which session, and  *)
(* whether it starts, went well or failed, as its input and output tell.   *)
Observation(o, chat, kind) == [by |-> o, chat |-> chat, at |-> clock, kind |-> kind]

(* append_instinct_observation: the file is read and written back without  *)
(* the outdated lines, then written again with the new one.                *)
Observe(o) ==
    /\ learners[o].pc = "off"
    /\ \E chat \in Chats, kind \in Kinds :
         Proceeds(o, [Resting EXCEPT !.pc = "reading", !.seen = <<Observation(o, chat, kind)>>])
    /\ UNCHANGED <<clock, contents, siblings, deaths, recounts>>

(* The lines since an instant, in their order.                             *)
From(lines, instant) ==
    LET taken[n \in 0..Len(lines)] ==
            IF n = 0 THEN <<>>
            ELSE IF lines[n].at >= instant THEN Append(taken[n - 1], lines[n])
            ELSE taken[n - 1]
    IN  taken[Len(lines)]

Kept(lines) == From(lines, clock - Retention)

(* prune_instinct_observations, of both hooks.                             *)
ReadAndPrune(h) ==
    LET kept == Kept(contents.observations) IN
    /\ learners[h].pc = "reading"
    /\ Proceeds(h, Rewrite([learners[h] EXCEPT !.lines = kept], "observations", kept,
                           IF h \in Observers THEN "add" ELSE "filtering"))
    /\ UNCHANGED <<clock, contents, siblings, deaths, recounts>>

-----------------------------------------------------------------------------
(* extract_instincts                                                       *)
Extract(e) ==
    /\ learners[e].pc = "off"
    /\ Proceeds(e, [Resting EXCEPT !.pc = "reading", !.since = contents.meta])
    /\ recounts' = (recounts \/ \E d \in Extractors : learners[d].pc \notin {"off", "done"})
    /\ UNCHANGED <<clock, contents, siblings, deaths>>

(* Fault: the observations of the last second extracted are new again. *)
NewIncludingLast(lines, since) ==
    IF since = 0 THEN lines ELSE From(lines, since)

New(lines, since) ==
    IF since = 0 THEN lines ELSE From(lines, since + 1)

Filter(e) ==
    LET run == learners[e] new == New(run.lines, run.since) IN
    /\ run.pc = "filtering"
    /\ Proceeds(e, IF new = <<>> THEN Done
                   ELSE [run EXCEPT !.pc = "merging", !.lines = new, !.document = contents.document])
    /\ UNCHANGED <<clock, contents, siblings, deaths, recounts>>

(* A session's observations in the order of their timestamps.              *)
Before(lines, i, j) ==
    /\ lines[i].chat = lines[j].chat
    /\ lines[i].at < lines[j].at \/ (lines[i].at = lines[j].at /\ i < j)

(* The failures directly followed by the start of a tool, place by place:  *)
(* a line that is there twice may be counted twice.                        *)
Recoveries(lines, pair) ==
    {ij \in (DOMAIN lines) \X (DOMAIN lines) : LET i == ij[1] j == ij[2] IN
        /\ pair = <<lines[i].by, lines[j].by>> /\ Before(lines, i, j)
        /\ lines[i].kind = "failure" /\ lines[j].kind = "start"
        /\ ~\E k \in DOMAIN lines : Before(lines, i, k) /\ Before(lines, k, j)}

Counted(document, lines) ==
    [pair \in DOMAIN document |-> document[pair] + Cardinality(Recoveries(lines, pair))]

(* A document that did not change is not written.                          *)
MergeCounts(e) ==
    LET run == learners[e] merged == Counted(run.document, run.lines) IN
    /\ run.pc = "merging"
    /\ Proceeds(e, IF merged = contents.document THEN Closing(run)
                   ELSE Rewrite(run, "document", merged, "close"))
    /\ UNCHANGED <<clock, contents, siblings, deaths, recounts>>

-----------------------------------------------------------------------------
DieLearning(h) ==
    /\ learners[h].pc \notin {"off", "done"}
    /\ deaths < Deaths /\ deaths' = deaths + 1
    /\ Proceeds(h, Done)
    /\ recounts' = (recounts \/ h \in Extractors)
    /\ UNCHANGED <<clock, contents, siblings>>

Second ==
    /\ clock < Horizon /\ clock' = clock + 1
    /\ UNCHANGED <<contents, siblings, learners, deaths, recounts>>

InstinctNext ==
    \/ Second
    \/ \E o \in Observers : Observe(o)
    \/ \E e \in Extractors : Extract(e) \/ Filter(e) \/ MergeCounts(e)
    \/ \E h \in Learners : \/ ReadAndPrune(h) \/ DieLearning(h)
                           \/ OpenSibling(h) \/ FillSibling(h) \/ ReplaceFile(h)
                           \/ ReplaceFails(h) \/ Unlink(h)

InstinctSpec == InstinctInit /\ [][InstinctNext]_instinctVars

-----------------------------------------------------------------------------
(* Evidence is counted once: no failure and what followed it enter the     *)
(* document twice, though lastExtractedAt is kept in another file and      *)
(* observers rewrite theirs from what they read long ago - as long as      *)
(* extractions come one after the other and to their end, and no text      *)
(* written over another leaves a line twice.                               *)
CountedOnce ==
    ~recounts => \A pair \in DOMAIN contents.document : contents.document[pair] <= 1
=============================================================================
