---------------------------- MODULE QueryAnalysis ----------------------------
(***************************************************************************)
(* analyze_query_result (packages/query-result-analysis/src/index.ts): an    *)
(* immutable query result is read page by page, a child session summarises   *)
(* each page, every summary is saved in a checkpoint file, and further       *)
(* children reduce the summaries to one.  A call that fails or dies with the *)
(* process is resumed from the file; two calls may resume the same analysis  *)
(* at one time.  A summary is the sequence of the batch children it was made *)
(* from.                                                                     *)
(***************************************************************************)
EXTENDS Naturals, Sequences, FiniteSets, SequencesExt

CONSTANTS MaxCalls,  \* bound: calls of the tool
          Parallel,  \* bound: calls that run at one time
          Results,   \* query results: the rows of each page
          GroupSize, \* reduceGroupSize
          NoFile,    \* the checkpoint does not exist
          Null       \* nextCursor: null; complete: undefined

Calls == 1..MaxCalls  \* in the order they are made
AnswerType == [rows : Nat, count : Nat, by : Calls, summary : Seq(Calls \X Nat),
               sessions : Seq(Calls \X Nat)]

ASSUME AnalysisAssumption ==
    /\ {MaxCalls, Parallel, GroupSize} \subseteq Nat /\ GroupSize >= 2
    /\ Results \subseteq Seq(Nat) /\ \A r \in Results : r # <<>>
    /\ Null \notin Nat \cup AnswerType

VARIABLES
    pages,      \* the result under analysis
    file,       \* the checkpoint file
    call,       \* the calls: where each awaits and its local variables
    answers,    \* history: what calls have returned
    overlapped  \* history: two calls ran at one time

vars == <<pages, file, call, answers, overlapped>>

(* BatchCheckpoint; a child is named after its call and its batch. *)
Batch == [first : Nat, last : Nat, next : Nat \cup {Null}, child : Calls \X Nat]

Idle == [at |-> "idle", batches |-> <<>>, cursor |-> Null, rows |-> 0,
         layer |-> <<>>, made |-> <<>>]

Running(c) == call[c].at \notin {"idle", "done", "failed"}

Init ==
    /\ pages \in Results
    /\ file = NoFile
    /\ call = [c \in Calls |-> Idle]
    /\ answers = {}
    /\ overlapped = FALSE

-----------------------------------------------------------------------------
(* readPage: the page a cursor names.  The first has none. *)
HasMore(i) == i < Len(pages)

(* nextCursor *)
After(i) == IF HasMore(i) THEN i + 1 ELSE Null

(* A call begins with its own analysisRef, or with that of an earlier one.   *)
Begins(c) ==
    /\ call[c].at = "idle" /\ \A d \in 1..c - 1 : call[d].at # "idle"
    /\ Cardinality({d \in Calls : Running(d)}) < Parallel
    /\ overlapped' = (overlapped \/ \E d \in Calls : Running(d))

Start(c) ==
    /\ \A d \in Calls : call[d].at = "idle"
    /\ Begins(c)
    /\ call' = [call EXCEPT ![c].at = "create", ![c].cursor = 1]
    /\ UNCHANGED <<pages, file, answers>>

(* The first checkpoint, without batches. *)
Create(c) ==
    /\ call[c].at = "create"
    /\ file' = [batches |-> <<>>, complete |-> Null]
    /\ call' = [call EXCEPT ![c].at = "page"]
    /\ UNCHANGED <<pages, answers, overlapped>>

(* resumeAnalysisRef: readCheckpoint, and an answer that is already there.   *)
(* Mutant: row numbers start anew.                                           *)
BugRowsOf(batches) == 0
Finished == file.complete # Null
RowsOf(batches) == IF batches = <<>> THEN 0 ELSE Last(batches).last
CursorOf(batches) == IF batches = <<>> THEN 1 ELSE Last(batches).next

Resume(c) ==
    /\ file # NoFile
    /\ Begins(c)
    /\ IF Finished
         THEN /\ answers' = answers \cup {file.complete}
              /\ call' = [call EXCEPT ![c].at = "done"]
         ELSE /\ call' = [call EXCEPT ![c] =
                            [Idle EXCEPT !.at = IF CursorOf(file.batches) = Null
                                                  THEN "gather" ELSE "page",
                                         !.batches = file.batches,
                                         !.cursor = CursorOf(file.batches),
                                         !.rows = RowsOf(file.batches)]]
              /\ UNCHANGED answers
    /\ UNCHANGED <<pages, file>>

(* One page: read it, and let a child summarise it.  An empty last page ends *)
(* the reading; an empty page before the last is a batch like any other.     *)
ReadPage(c) ==
    /\ call[c].at = "page"
    /\ LET i == call[c].cursor IN
       IF pages[i] = 0 /\ ~HasMore(i)
         THEN call' = [call EXCEPT ![c].cursor = Null, ![c].at = "gather"]
         ELSE call' = [call EXCEPT ![c].at = "child"]
    /\ UNCHANGED <<pages, file, answers, overlapped>>

NewBatch(c) ==
    LET i == call[c].cursor IN
    [first |-> call[c].rows + 1, last |-> call[c].rows + pages[i],
     next |-> After(i), child |-> <<c, Len(call[c].batches) + 1>>]

ChildAnswers(c) ==
    /\ call[c].at = "child"
    /\ call' = [call EXCEPT ![c].at = "save",
                            ![c].batches = Append(@, NewBatch(c)),
                            ![c].cursor = NewBatch(c).next,
                            ![c].rows = NewBatch(c).last]
    /\ UNCHANGED <<pages, file, answers, overlapped>>

(* writeCheckpoint: the whole checkpoint of this call replaces the file.     *)
Save(c) ==
    /\ call[c].at = "save"
    /\ file' = [batches |-> call[c].batches, complete |-> Null]
    /\ call' = [call EXCEPT ![c].at = IF call[c].cursor = Null THEN "gather" ELSE "page"]
    /\ UNCHANGED <<pages, answers, overlapped>>

-----------------------------------------------------------------------------
(* reduceSummaries: groups of GroupSize, layer by layer, until one is left.  *)

Summaries(batches) == [i \in 1..Len(batches) |-> <<batches[i].child>>]

Gather(c) ==
    /\ call[c].at = "gather"
    /\ call' = [call EXCEPT ![c].at = "reduce", ![c].layer = Summaries(call[c].batches)]
    /\ UNCHANGED <<pages, file, answers, overlapped>>

(* Mutants: groups of one; a summary falls between two groups. *)
BugGroupLen(layer) == 1
GroupLen(layer) == IF GroupSize <= Len(layer) THEN GroupSize ELSE Len(layer)
Group(layer) == SubSeq(layer, 1, GroupLen(layer))
BugRest(layer) == SubSeq(layer, GroupLen(layer) + 2, Len(layer))
Rest(layer) == SubSeq(layer, GroupLen(layer) + 1, Len(layer))

(* A child reduces the next group; after the last group of a layer the       *)
(* results are the next layer.  made: the results of this layer so far.      *)
Reduce(c) ==
    /\ call[c].at = "reduce"
    /\ Len(call[c].layer) + Len(call[c].made) > 1
    /\ LET made == Append(call[c].made, FlattenSeq(Group(call[c].layer)))
           rest == Rest(call[c].layer)
       IN call' = [call EXCEPT ![c].layer = IF rest = <<>> THEN made ELSE rest,
                               ![c].made = IF rest = <<>> THEN <<>> ELSE made]
    /\ UNCHANGED <<pages, file, answers, overlapped>>

(* CompleteCheckpoint.  by: the call whose children made the reduction.      *)
Answer(c) ==
    [rows |-> call[c].rows, count |-> Len(call[c].batches), by |-> c,
     summary |-> IF call[c].layer = <<>> THEN <<>> ELSE call[c].layer[1],
     sessions |-> [i \in 1..Len(call[c].batches) |-> call[c].batches[i].child]]

Finish(c) ==
    /\ call[c].at = "reduce"
    /\ Len(call[c].layer) + Len(call[c].made) <= 1
    /\ file' = [batches |-> call[c].batches, complete |-> Answer(c)]
    /\ answers' = answers \cup {Answer(c)}
    /\ call' = [call EXCEPT ![c].at = "done"]
    /\ UNCHANGED <<pages, overlapped>>

-----------------------------------------------------------------------------
(* A page, a child or a write fails, or the call is aborted: what it had not *)
(* saved is lost.                                                            *)
Fail(c) ==
    /\ Running(c)
    /\ call' = [call EXCEPT ![c] = [Idle EXCEPT !.at = "failed"]]
    /\ UNCHANGED <<pages, file, answers, overlapped>>

(* The process dies; a checkpoint is renamed into place or not at all.       *)
(* Mutant: it is written in place, and a crash during the write empties it.  *)
BugCrash ==
    /\ \E c \in Calls : Running(c)
    /\ call' = [c \in Calls |-> IF Running(c) THEN [Idle EXCEPT !.at = "failed"] ELSE call[c]]
    /\ file' = IF \E c \in Calls : call[c].at = "save"
                 THEN [batches |-> <<>>, complete |-> Null] ELSE file
    /\ UNCHANGED <<pages, answers, overlapped>>
Crash ==
    /\ \E c \in Calls : Running(c)
    /\ call' = [c \in Calls |-> IF Running(c) THEN [Idle EXCEPT !.at = "failed"] ELSE call[c]]
    /\ UNCHANGED <<pages, file, answers, overlapped>>

Step(c) ==
    \/ Create(c) \/ ReadPage(c) \/ ChildAnswers(c) \/ Save(c)
    \/ Gather(c) \/ Reduce(c) \/ Finish(c)

Next ==
    \/ \E c \in Calls : Start(c) \/ Resume(c) \/ Step(c) \/ Fail(c)
    \/ Crash

(* A call that runs goes on: every await is answered. *)
Fairness == \A c \in Calls : WF_vars(Step(c))

Spec == Init /\ [][Next]_vars /\ Fairness

-----------------------------------------------------------------------------
(* Types of the state *)
TypeOK ==
    /\ pages \in Results
    /\ file = NoFile \/ file \in [batches : Seq(Batch), complete : AnswerType \cup {Null}]
    /\ call \in [Calls -> [at : {"idle", "create", "page", "child", "save", "gather", "reduce",
                                 "done", "failed"},
                           batches : Seq(Batch), cursor : Nat \cup {Null}, rows : Nat,
                           layer : Seq(Seq(Calls \X Nat)), made : Seq(Seq(Calls \X Nat))]]
    /\ answers \subseteq AnswerType
    /\ overlapped \in BOOLEAN

(* Batches that follow one another: batch i is page i, with its true rows.   *)
Consecutive(batches) ==
    /\ Len(batches) <= Len(pages)
    /\ \A i \in 1..Len(batches) :
         /\ batches[i].first = 1 + (IF i = 1 THEN 0 ELSE batches[i - 1].last)
         /\ batches[i].last + 1 = batches[i].first + pages[i]
         /\ batches[i].next = (IF i < Len(pages) THEN i + 1 ELSE Null)

(* Whoever wrote the checkpoint, whatever failed and however often it was    *)
(* resumed, it holds the first pages, each once, with the row numbers the    *)
(* children cited as rowRef (index.ts:339, 491-496).                         *)
FileIsSound == file # NoFile => Consecutive(file.batches)

(* The rows of all pages *)
TotalRows ==
    LET sum[i \in 0..Len(pages)] == IF i = 0 THEN 0 ELSE sum[i - 1] + pages[i]
    IN  sum[Len(pages)]

(* The batches a whole analysis has: all pages but an empty last one. *)
WholeCount == IF pages[Len(pages)] = 0 THEN Len(pages) - 1 ELSE Len(pages)

(* An answer speaks of every row: it counts them all, and it is reduced from *)
(* the summary of every page, each exactly once and in order (index.ts:386-  *)
(* 406); and unless two calls overlapped, whoever asks is given the same one.*)
AnswerIsWhole ==
    /\ ~overlapped => \A a, b \in answers : a = b
    /\ \A a \in answers :
        /\ a.rows = TotalRows /\ a.count = WholeCount
        /\ a.summary = a.sessions
        /\ \A i \in 1..Len(a.sessions) : a.sessions[i][2] = i
        /\ Len(a.sessions) = WholeCount

(* Unless two calls overlapped, a page that is in the checkpoint stays in    *)
(* it, so it is never read and paid for again, and a complete analysis       *)
(* keeps its answer (index.ts:413, "without rereading completed pages").     *)
KeepsProgress ==
    [][~overlapped' /\ file # NoFile =>
          /\ IsPrefix(file.batches, file'.batches)
          /\ file.complete # Null => file' = file]_vars

(* Every call ends: reading advances and every layer is shorter than the     *)
(* last one (index.ts:386-406).                                              *)
CallsEnd == \A c \in Calls : Running(c) ~> ~Running(c)
=============================================================================
