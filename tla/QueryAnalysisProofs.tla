------------------------- MODULE QueryAnalysisProofs --------------------------
(***************************************************************************)
(* For any query result, group size, number of calls and calls that run at   *)
(* one time: the checkpoint holds the first pages, each once and with its    *)
(* true rows; while calls do not overlap a saved page stays saved; and an    *)
(* answer speaks of every row.                                               *)
(***************************************************************************)
EXTENDS QueryAnalysis, SequenceTheorems, WellFoundedInduction, TLAPS

Fields == {"at", "batches", "cursor", "rows", "layer", "made"}
Shape == DOMAIN call = Calls /\ \A c \in Calls : DOMAIN call[c] = Fields
States == {"idle", "create", "page", "child", "save", "gather", "reduce", "done", "failed"}

(* What a call has read: the first pages, and where it goes on.              *)
Sound(c) ==
    /\ call[c].at \in States
    /\ call[c].batches \in Seq(Batch) /\ Consecutive(call[c].batches)
    /\ call[c].rows \in Nat /\ call[c].rows = RowsOf(call[c].batches)
    /\ call[c].at \in {"create", "page", "child"} =>
         call[c].cursor = Len(call[c].batches) + 1 /\ Len(call[c].batches) < Len(pages)
    /\ call[c].at = "save" => call[c].cursor = After(Len(call[c].batches))
    /\ call[c].at = "idle" => call[c].batches = <<>>
FileSound == file # NoFile => file.batches \in Seq(Batch) /\ Consecutive(file.batches)
SoundInv == /\ pages \in Seq(Nat) /\ pages # <<>>
            /\ Shape /\ FileSound /\ \A c \in Calls : Sound(c)

(* The one call that runs has what is saved, and perhaps one batch more.     *)
Ahead(c) ==
    /\ call[c].at = "create" => file = NoFile
    /\ Running(c) /\ call[c].at # "create" =>
         /\ file.complete = Null /\ file.batches \in Seq(Batch)
         /\ IsPrefix(file.batches, call[c].batches)
Progress ==
    /\ \A c, d \in Calls : Running(c) /\ Running(d) => c = d
    /\ \A c \in Calls : Ahead(c)
ProgressInv ==
    /\ (\A c \in Calls : call[c].at = "idle") => file = NoFile
    /\ ~overlapped => Progress

-----------------------------------------------------------------------------
(* What a step makes of its call *)

Others(c) == \A d \in Calls : d # c => call'[d] = call[d]
Reads(c) == call'[c].batches = call[c].batches /\ call'[c].rows = call[c].rows

LEMMA Set ==
  ASSUME Shape, NEW c \in Calls, NEW r, DOMAIN r = Fields, call' = [call EXCEPT ![c] = r]
  PROVE  Shape' /\ Others(c) /\ call'[c] = r
  BY DEF Shape, Others

LEMMA Moves ==
  ASSUME Shape, NEW c \in Calls, NEW v, call' = [call EXCEPT ![c].at = v]
  PROVE  Shape' /\ Others(c) /\ Reads(c) /\ call'[c].at = v /\ call'[c].cursor = call[c].cursor
  BY DEF Shape, Others, Reads, Fields

LEMMA SeqTail ==
  ASSUME NEW S, NEW s \in Seq(S), NEW x \in S
  PROVE  /\ Append(s, x) \in Seq(S) /\ Len(Append(s, x)) = Len(s) + 1 /\ Len(s) \in Nat
         /\ \A i \in 1..Len(s) : Append(s, x)[i] = s[i]
         /\ Append(s, x)[Len(s) + 1] = x
  OBVIOUS

LEMMA PrefixOfItself == ASSUME NEW S, NEW s \in Seq(S) PROVE IsPrefix(s, s)
  BY DEF IsPrefix

LEMMA PrefixOfLonger ==
  ASSUME NEW S, NEW s \in Seq(S), NEW t \in Seq(S), NEW x \in S, IsPrefix(s, t)
  PROVE  IsPrefix(s, Append(t, x))
  <1>1. Len(s) <= Len(t) /\ SubSeq(s, 1, Len(s)) = SubSeq(t, 1, Len(s))
    BY DEF IsPrefix
  <1>2. Len(s) \in Nat /\ Len(t) \in Nat /\ Len(Append(t, x)) = Len(t) + 1
    BY SeqTail
  <1>3. SubSeq(Append(t, x), 1, Len(s)) = SubSeq(t, 1, Len(s))
    BY <1>1, <1>2, SeqTail
  <1> QED BY <1>1, <1>2, <1>3 DEF IsPrefix

(* The next page after consecutive batches makes one more of them.           *)
LEMMA OneMore ==
  ASSUME SoundInv, NEW c \in Calls, call[c].at = "child"
  PROVE  /\ NewBatch(c) \in Batch
         /\ Consecutive(Append(call[c].batches, NewBatch(c)))
         /\ RowsOf(Append(call[c].batches, NewBatch(c))) = NewBatch(c).last
         /\ NewBatch(c).last \in Nat
         /\ NewBatch(c).next = After(Len(call[c].batches) + 1)
  <1> DEFINE b == call[c].batches
             n == Len(b)
             x == NewBatch(c)
             t == Append(b, x)
  <1>1. /\ b \in Seq(Batch) /\ Consecutive(b) /\ call[c].rows \in Nat
        /\ call[c].rows = RowsOf(b) /\ call[c].cursor = n + 1 /\ n < Len(pages)
    BY DEF SoundInv, Sound
  <1>2. pages \in Seq(Nat) /\ n \in Nat /\ Len(pages) \in Nat
    BY <1>1 DEF SoundInv
  <1>3. n + 1 \in 1..Len(pages) /\ pages[n + 1] \in Nat
    BY <1>1, <1>2
  <1>4. /\ x.first = call[c].rows + 1 /\ x.last = call[c].rows + pages[n + 1]
        /\ x.next = After(n + 1) /\ x.child = <<c, n + 1>>
    BY <1>1 DEF NewBatch
  <1>5. x \in Batch
    <2>1. After(n + 1) \in Nat \cup {Null}
      BY <1>2 DEF After
    <2>2. x = [first |-> call[c].rows + 1, last |-> call[c].rows + pages[n + 1],
               next |-> After(n + 1), child |-> <<c, n + 1>>]
      BY <1>1 DEF NewBatch
    <2>3. call[c].rows + 1 \in Nat /\ call[c].rows + pages[n + 1] \in Nat
      BY <1>1, <1>3
    <2>4. <<c, n + 1>> \in Calls \X Nat
      BY <1>2
    <2> QED BY <2>1, <2>2, <2>3, <2>4 DEF Batch
  <1> HIDE DEF x
  <1>6. /\ t \in Seq(Batch) /\ Len(t) = n + 1 /\ t[n + 1] = x
        /\ \A i \in 1..n : t[i] = b[i]
    BY <1>1, <1>5, SeqTail
  <1>7. RowsOf(t) = x.last
    BY <1>2, <1>6 DEF RowsOf, Last
  <1>8. x.first = 1 + (IF n + 1 = 1 THEN 0 ELSE t[n].last)
    <2>1. CASE n = 0
      <3>1. b = <<>>
        BY <1>1, <2>1
      <3> QED BY <1>1, <1>4, <2>1, <3>1 DEF RowsOf
    <2>2. CASE n # 0
      <3>1. b # <<>> /\ n \in 1..n
        BY <1>1, <1>2, <2>2
      <3>2. call[c].rows = t[n].last
        BY <1>1, <1>6, <3>1 DEF RowsOf, Last
      <3> QED BY <1>1, <1>2, <1>4, <2>2, <3>2
    <2> QED BY <2>1, <2>2
  <1>9. x.last + 1 = x.first + pages[n + 1]
    BY <1>1, <1>3, <1>4
  <1>10. x.next = IF n + 1 < Len(pages) THEN n + 1 + 1 ELSE Null
    BY <1>4 DEF After, HasMore
  <1> HIDE DEF t
  <1>11. ASSUME NEW i \in 1..Len(t)
         PROVE  /\ t[i].first = 1 + (IF i = 1 THEN 0 ELSE t[i - 1].last)
                /\ t[i].last + 1 = t[i].first + pages[i]
                /\ t[i].next = (IF i < Len(pages) THEN i + 1 ELSE Null)
    <2>1. CASE i = n + 1
      <3>1. t[i] = x /\ i - 1 = n
        BY <1>2, <1>6, <2>1
      <3> QED BY <1>8, <1>9, <1>10, <2>1, <3>1
    <2>2. CASE i # n + 1
      <3>1. i \in 1..n /\ t[i] = b[i] /\ (i # 1 => i - 1 \in 1..n /\ t[i - 1] = b[i - 1])
        BY <1>2, <1>6, <2>2
      <3>2. /\ b[i].first = 1 + (IF i = 1 THEN 0 ELSE b[i - 1].last)
            /\ b[i].last + 1 = b[i].first + pages[i]
            /\ b[i].next = (IF i < Len(pages) THEN i + 1 ELSE Null)
        BY <1>1, <3>1 DEF Consecutive
      <3> QED BY <3>1, <3>2
    <2> QED BY <2>1, <2>2
  <1>12. Len(t) <= Len(pages)
    BY <1>1, <1>2, <1>6
  <1>13. Consecutive(t)
    BY <1>11, <1>12 DEF Consecutive
  <1>14. x.last \in Nat
    BY <1>1, <1>3, <1>4
  <1> QED BY <1>4, <1>5, <1>7, <1>13, <1>14 DEF x, t

LEMMA EmptyIsSound ==
  ASSUME pages \in Seq(Nat)
  PROVE  <<>> \in Seq(Batch) /\ Consecutive(<<>>) /\ RowsOf(<<>>) = 0 /\ Len(<<>>) = 0
  BY DEF Consecutive, RowsOf

(* What a resume makes of the file *)
LEMMA ResumedIsSound ==
  ASSUME SoundInv, file # NoFile
  PROVE  /\ RowsOf(file.batches) \in Nat
         /\ CursorOf(file.batches) # Null =>
              /\ CursorOf(file.batches) = Len(file.batches) + 1
              /\ Len(file.batches) < Len(pages)
  <1> DEFINE b == file.batches
  <1>1. b \in Seq(Batch) /\ Consecutive(b) /\ pages \in Seq(Nat) /\ pages # <<>>
    BY DEF SoundInv, FileSound
  <1> HIDE DEF b
  <1>2. CASE b = <<>>
    <2>1. Len(b) = 0 /\ CursorOf(b) = 1 /\ RowsOf(b) = 0
      BY <1>2 DEF CursorOf, RowsOf
    <2>2. 0 < Len(pages)
      BY <1>1
    <2> QED BY <2>1, <2>2 DEF b
  <1>3. CASE b # <<>>
    <2>1. Len(b) \in 1..Len(b) /\ b[Len(b)] \in Batch /\ Len(pages) \in Nat
      BY <1>1, <1>3
    <2>2. b[Len(b)].next = (IF Len(b) < Len(pages) THEN Len(b) + 1 ELSE Null)
      BY <1>1, <2>1 DEF Consecutive
    <2>3. CursorOf(b) = b[Len(b)].next /\ RowsOf(b) = b[Len(b)].last
      BY <1>3 DEF CursorOf, RowsOf, Last
    <2>4. b[Len(b)].last \in Nat
      BY <2>1 DEF Batch
    <2> QED BY <2>2, <2>3, <2>4 DEF b
  <1> QED BY <1>2, <1>3

-----------------------------------------------------------------------------
(* The checkpoint is sound *)

LEMMA SoundInit == Init => SoundInv
  <1> SUFFICES ASSUME Init PROVE SoundInv
    OBVIOUS
  <1>1. pages \in Seq(Nat) /\ pages # <<>>
    BY AnalysisAssumption DEF Init
  <1>2. Shape
    BY DEF Init, Shape, Idle, Fields
  <1>3. ASSUME NEW c \in Calls PROVE Sound(c)
    <2>1. call[c] = Idle
      BY DEF Init
    <2> QED BY <1>1, <2>1, EmptyIsSound DEF Sound, Idle, States
  <1> QED BY <1>1, <1>2, <1>3 DEF SoundInv, FileSound, Init


(* A step of one call that leaves it sound, and the file.                    *)
LEMMA OneCallStep ==
  ASSUME SoundInv, pages' = pages, NEW c \in Calls, Shape', Others(c), Sound(c)', FileSound'
  PROVE  SoundInv'
  <1>1. ASSUME NEW d \in Calls, d # c PROVE Sound(d)'
    <2>1. call'[d] = call[d] /\ Sound(d)
      BY <1>1 DEF Others, SoundInv
    <2> QED BY <2>1 DEF Sound, Consecutive, RowsOf, After, HasMore
  <1> QED BY <1>1 DEF SoundInv


LEMMA EmptyStaysSound ==
  ASSUME pages \in Seq(Nat), pages' = pages, NEW c \in Calls, call'[c].at \in States,
         call'[c].batches = <<>>, call'[c].rows = 0, call'[c].at \notin {"page", "child", "save"},
         call'[c].at = "create" => call'[c].cursor = 1 /\ 0 < Len(pages)
  PROVE  Sound(c)'
  <1>1. <<>> \in Seq(Batch) /\ Consecutive(<<>>) /\ Len(<<>>) = 0
    BY EmptyIsSound
  <1>2. Consecutive(<<>>)'
    BY <1>1 DEF Consecutive
  <1>3. call'[c].rows \in Nat /\ call'[c].rows = RowsOf(call'[c].batches)
    BY DEF RowsOf
  <1>4. call'[c].at \in {"create", "page", "child"} =>
          call'[c].cursor = Len(call'[c].batches) + 1 /\ Len(call'[c].batches) < Len(pages')
    BY <1>1
  <1> QED BY <1>1, <1>2, <1>3, <1>4 DEF Sound

LEMMA SoundNext == SoundInv /\ [Next]_vars => SoundInv'
  <1> SUFFICES ASSUME SoundInv, [Next]_vars PROVE SoundInv'
    OBVIOUS
  <1>0. pages \in Seq(Nat) /\ pages # <<>> /\ Shape /\ FileSound /\ Len(pages) \in Nat \ {0}
    BY DEF SoundInv
  <1>1. ASSUME NEW c \in Calls, Start(c) PROVE SoundInv'
    <2>1. /\ call[c].at = "idle" /\ pages' = pages /\ file' = file
          /\ call' = [call EXCEPT ![c].at = "create", ![c].cursor = 1]
      BY <1>1 DEF Start, Begins
    <2>2. /\ Shape' /\ Others(c) /\ call'[c].at = "create" /\ call'[c].cursor = 1
          /\ call'[c].batches = call[c].batches /\ call'[c].rows = call[c].rows
      BY <1>0, <2>1 DEF Shape, Others, Fields
    <2>3. call[c].batches = <<>>
      BY <2>1 DEF SoundInv, Sound
    <2>4. 0 < Len(pages)
      BY <1>0
    <2>5. call'[c].rows = 0 /\ call'[c].at \in States
      BY <2>2, <2>3 DEF SoundInv, Sound, RowsOf, States
    <2>7. Sound(c)'
      BY <1>0, <2>1, <2>2, <2>3, <2>4, <2>5, EmptyStaysSound
    <2>6. FileSound'
      BY <1>0, <2>1 DEF FileSound, Consecutive
    <2> QED BY <2>1, <2>2, <2>6, <2>7, OneCallStep
  <1>2. ASSUME NEW c \in Calls, Resume(c) PROVE SoundInv'
    <2>0. file # NoFile /\ call[c].at = "idle" /\ pages' = pages /\ file' = file
      BY <1>2 DEF Resume, Begins
    <2>1. CASE Finished
      <3>1. call' = [call EXCEPT ![c].at = "done"]
        BY <1>2, <2>1 DEF Resume
      <3>2. Shape' /\ Others(c) /\ Reads(c) /\ call'[c].at = "done"
        BY <1>0, <3>1, Moves
      <3>3. Sound(c)'
        BY <2>0, <3>2 DEF SoundInv, Sound, Reads, Consecutive, RowsOf, States
      <3>4. FileSound'
        BY <1>0, <2>0 DEF FileSound, Consecutive
      <3> QED BY <2>0, <3>2, <3>3, <3>4, OneCallStep
    <2>2. CASE ~Finished
      <3>1. PICK b : b = file.batches
        OBVIOUS
      <3>2. /\ b \in Seq(Batch) /\ Consecutive(b) /\ RowsOf(b) \in Nat
            /\ CursorOf(b) # Null => CursorOf(b) = Len(b) + 1 /\ Len(b) < Len(pages)
        BY <2>0, <3>1, ResumedIsSound DEF SoundInv, FileSound
      <3>3. PICK v : v = IF CursorOf(b) = Null THEN "gather" ELSE "page"
        OBVIOUS
      <3>4. PICK r : r = [Idle EXCEPT !.at = v, !.batches = b, !.cursor = CursorOf(b),
                                      !.rows = RowsOf(b)]
        OBVIOUS
      <3>5. call' = [call EXCEPT ![c] = r]
        BY <1>2, <2>2, <3>1, <3>3, <3>4 DEF Resume
      <3>6. /\ DOMAIN r = Fields /\ r.at = v /\ r.batches = b /\ r.cursor = CursorOf(b)
            /\ r.rows = RowsOf(b)
        BY <3>4 DEF Idle, Fields
      <3>7. Shape' /\ Others(c) /\ call'[c] = r
        BY <1>0, <3>5, <3>6, Set
      <3>8. v \in {"gather", "page"} /\ (v = "page" => CursorOf(b) # Null)
        BY <3>3
      <3>9. Sound(c)'
        BY <2>0, <3>2, <3>6, <3>7, <3>8 DEF Sound, Consecutive, RowsOf, States
      <3>10. FileSound'
        BY <1>0, <2>0 DEF FileSound, Consecutive
      <3> QED BY <2>0, <3>7, <3>9, <3>10, OneCallStep
    <2> QED BY <2>1, <2>2
  <1>3. ASSUME NEW c \in Calls, Create(c) PROVE SoundInv'
    <2>1. /\ call' = [call EXCEPT ![c].at = "page"] /\ call[c].at = "create"
          /\ pages' = pages /\ file'.batches = <<>>
      BY <1>3 DEF Create
    <2>2. Shape' /\ Others(c) /\ Reads(c) /\ call'[c].at = "page" /\ call'[c].cursor = call[c].cursor
      BY <1>0, <2>1, Moves
    <2>3. Sound(c)'
      BY <2>1, <2>2 DEF SoundInv, Sound, Reads, Consecutive, RowsOf, States
    <2>4. FileSound'
      BY <1>0, <2>1, EmptyIsSound DEF FileSound, Consecutive
    <2> QED BY <2>1, <2>2, <2>3, <2>4, OneCallStep
  <1>4. ASSUME NEW c \in Calls, ReadPage(c) PROVE SoundInv'
    <2>1. /\ call[c].at = "page" /\ pages' = pages /\ file' = file
      BY <1>4 DEF ReadPage
    <2>2. /\ Shape' /\ Others(c) /\ Reads(c)
          /\ call'[c].at = "gather" \/ (call'[c].at = "child" /\ call'[c].cursor = call[c].cursor)
      BY <1>0, <1>4 DEF ReadPage, Shape, Others, Reads, Fields
    <2>3. Sound(c)'
      BY <2>1, <2>2 DEF SoundInv, Sound, Reads, Consecutive, RowsOf, States
    <2>4. FileSound'
      BY <1>0, <2>1 DEF FileSound, Consecutive
    <2> QED BY <2>1, <2>2, <2>3, <2>4, OneCallStep
  <1>5. ASSUME NEW c \in Calls, ChildAnswers(c) PROVE SoundInv'
    <2>1. call[c].at = "child" /\ pages' = pages /\ file' = file
      BY <1>5 DEF ChildAnswers
    <2>2. PICK x : x = NewBatch(c)
      OBVIOUS
    <2>3. PICK t : t = Append(call[c].batches, x)
      OBVIOUS
    <2>4. /\ x \in Batch /\ Consecutive(t) /\ RowsOf(t) = x.last /\ x.last \in Nat
          /\ x.next = After(Len(call[c].batches) + 1)
      BY <2>1, <2>2, <2>3, OneMore
    <2>5. t \in Seq(Batch) /\ Len(t) = Len(call[c].batches) + 1
      BY <2>3, <2>4, SeqTail DEF SoundInv, Sound
    <2>6. call' = [call EXCEPT ![c].at = "save", ![c].batches = t,
                               ![c].cursor = x.next, ![c].rows = x.last]
      BY <1>5, <2>2, <2>3 DEF ChildAnswers
    <2>7. /\ Shape' /\ Others(c) /\ call'[c].at = "save" /\ call'[c].batches = t
          /\ call'[c].cursor = x.next /\ call'[c].rows = x.last
      BY <1>0, <2>6 DEF Shape, Others, Fields
    <2>8. Sound(c)'
      BY <2>1, <2>4, <2>5, <2>7 DEF Sound, Consecutive, RowsOf, States, After, HasMore
    <2>9. FileSound'
      BY <1>0, <2>1 DEF FileSound, Consecutive
    <2> QED BY <2>1, <2>7, <2>8, <2>9, OneCallStep
  <1>6. ASSUME NEW c \in Calls, Save(c) PROVE SoundInv'
    <2>0. PICK v : v = IF call[c].cursor = Null THEN "gather" ELSE "page"
      OBVIOUS
    <2>1. /\ call[c].at = "save" /\ pages' = pages /\ file'.batches = call[c].batches
          /\ call' = [call EXCEPT ![c].at = v]
      BY <1>6, <2>0 DEF Save
    <2>2. Shape' /\ Others(c) /\ Reads(c) /\ call'[c].at = v /\ call'[c].cursor = call[c].cursor
      BY <1>0, <2>1, Moves
    <2>3. /\ call[c].batches \in Seq(Batch) /\ Consecutive(call[c].batches)
          /\ call[c].rows \in Nat /\ call[c].rows = RowsOf(call[c].batches)
          /\ call[c].cursor = After(Len(call[c].batches))
      BY <2>1 DEF SoundInv, Sound
    <2>4. v = "page" => call[c].cursor = Len(call[c].batches) + 1 /\ Len(call[c].batches) < Len(pages)
      BY <2>0, <2>3 DEF After, HasMore
    <2>5. v \in {"gather", "page"}
      BY <2>0
    <2>6. Sound(c)'
      BY <2>1, <2>2, <2>3, <2>4, <2>5 DEF Sound, Reads, Consecutive, RowsOf, States
    <2>7. FileSound'
      BY <2>1, <2>3 DEF FileSound, Consecutive
    <2> QED BY <2>1, <2>2, <2>6, <2>7, OneCallStep
  <1>7. ASSUME NEW c \in Calls, Gather(c) \/ Reduce(c) \/ Finish(c) PROVE SoundInv'
    <2>1. pages' = pages /\ (file' = file \/ file'.batches = call[c].batches)
      <3>1. CASE Gather(c) \/ Reduce(c)
        BY <3>1 DEF Gather, Reduce
      <3>2. CASE Finish(c)
        BY <3>2 DEF Finish
      <3> QED BY <1>7, <3>1, <3>2
    <2>2. Shape' /\ Others(c) /\ Reads(c) /\ call'[c].at \in {"reduce", "done"}
      <3>1. CASE Gather(c)
        BY <1>0, <3>1 DEF Gather, Shape, Others, Reads, Fields
      <3>2. CASE Reduce(c)
        BY <1>0, <3>2 DEF Reduce, Shape, Others, Reads, Fields
      <3>3. CASE Finish(c)
        BY <1>0, <3>3 DEF Finish, Shape, Others, Reads, Fields
      <3> QED BY <1>7, <3>1, <3>2, <3>3
    <2>3. /\ call[c].batches \in Seq(Batch) /\ Consecutive(call[c].batches)
          /\ call[c].rows \in Nat /\ call[c].rows = RowsOf(call[c].batches)
      BY DEF SoundInv, Sound
    <2>4. Sound(c)'
      BY <2>1, <2>2, <2>3 DEF Sound, Reads, Consecutive, RowsOf, States
    <2>5. FileSound'
      BY <1>0, <2>1, <2>3 DEF FileSound, Consecutive
    <2> QED BY <2>1, <2>2, <2>4, <2>5, OneCallStep
  <1>8. ASSUME NEW c \in Calls, Fail(c) PROVE SoundInv'
    <2>0. PICK r : r = [Idle EXCEPT !.at = "failed"]
      OBVIOUS
    <2>1. call' = [call EXCEPT ![c] = r] /\ pages' = pages /\ file' = file
      BY <1>8, <2>0 DEF Fail
    <2>2. DOMAIN r = Fields /\ r.at = "failed" /\ r.batches = <<>> /\ r.rows = 0
      BY <2>0 DEF Idle, Fields
    <2>3. Shape' /\ Others(c) /\ call'[c] = r
      BY <1>0, <2>1, <2>2, Set
    <2>4. Sound(c)'
      BY <1>0, <2>1, <2>2, <2>3, EmptyStaysSound DEF States
    <2>5. FileSound'
      BY <1>0, <2>1 DEF FileSound, Consecutive
    <2> QED BY <2>1, <2>3, <2>4, <2>5, OneCallStep
  <1>9. CASE Crash
    <2>1. pages' = pages /\ file' = file
      BY <1>9 DEF Crash
    <2>2. PICK r : r = [Idle EXCEPT !.at = "failed"]
      OBVIOUS
    <2>3. DOMAIN r = Fields /\ r.at = "failed" /\ r.batches = <<>> /\ r.rows = 0
      BY <2>2 DEF Idle, Fields
    <2>4. call' = [c \in Calls |-> IF Running(c) THEN r ELSE call[c]]
      BY <1>9, <2>2 DEF Crash
    <2>5. Shape'
      BY <1>0, <2>3, <2>4 DEF Shape
    <2>6. ASSUME NEW c \in Calls PROVE Sound(c)'
      <3>1. CASE Running(c)
        <4>1. call'[c] = r
          BY <2>4, <3>1
        <4> QED BY <1>0, <2>1, <2>3, <4>1, EmptyStaysSound DEF States
      <3>2. CASE ~Running(c)
        <4>1. call'[c] = call[c] /\ Sound(c)
          BY <2>4, <3>2 DEF SoundInv
        <4> QED BY <2>1, <4>1 DEF Sound, Consecutive, RowsOf, After, HasMore
      <3> QED BY <3>1, <3>2
    <2>7. FileSound'
      BY <1>0, <2>1 DEF FileSound, Consecutive
    <2> QED BY <1>0, <2>1, <2>5, <2>6, <2>7 DEF SoundInv
  <1>10. CASE UNCHANGED vars
    BY <1>10 DEF vars, SoundInv, Shape, FileSound, Sound, Consecutive, RowsOf, After, HasMore
  <1> QED BY <1>1, <1>2, <1>3, <1>4, <1>5, <1>6, <1>7, <1>8, <1>9, <1>10 DEF Next, Step


(* Whoever wrote the checkpoint, it holds the first pages, each once and     *)
(* with the row numbers its child cited, for every result, any number of     *)
(* calls and any number of them at one time (index.ts:339, 491-496).         *)
THEOREM AnalysisFileIsSound == Spec => []FileIsSound
  <1>1. SoundInv => FileIsSound
    BY DEF SoundInv, FileSound, FileIsSound
  <1> QED BY <1>1, SoundInit, SoundNext, PTL DEF Spec

-----------------------------------------------------------------------------
(* Progress is kept *)

Kept == ~overlapped' /\ file # NoFile =>
          /\ IsPrefix(file.batches, file'.batches)
          /\ file.complete # Null => file' = file

LEMMA PrefixOfAny == ASSUME NEW S, NEW t \in Seq(S) PROVE IsPrefix(<<>>, t)
  BY DEF IsPrefix

LEMMA ProgressInit == Init => ProgressInv
  BY DEF Init, ProgressInv, Progress, Ahead, Running, Idle

LEMMA SameFileIsKept == ASSUME SoundInv, file' = file PROVE Kept
  BY PrefixOfItself DEF Kept, SoundInv, FileSound

(* A step of the call that runs; the others do not run.                      *)
LEMMA RunnerSteps ==
  ASSUME ProgressInv, overlapped' = overlapped, NEW c \in Calls, Running(c), Others(c),
         call'[c].at # "idle", ~overlapped /\ Progress => Ahead(c)'
  PROVE  ProgressInv'
  <1>1. (\A d \in Calls : call'[d].at = "idle") => file' = NoFile
    OBVIOUS
  <1>2. ASSUME ~overlapped PROVE Progress'
    <2>1. Progress /\ Ahead(c)'
      BY <1>2 DEF ProgressInv
    <2>2. ASSUME NEW d \in Calls, d # c PROVE ~Running(d) /\ ~Running(d)'
      BY <2>1, <2>2 DEF Progress, Others, Running
    <2>3. ASSUME NEW d \in Calls, d # c PROVE Ahead(d)'
      BY <2>2, <2>3 DEF Ahead, Running
    <2> QED BY <2>1, <2>2, <2>3 DEF Progress
  <1> QED BY <1>1, <1>2 DEF ProgressInv

(* A call begins when none runs, or the calls overlap from then on.          *)
LEMMA CallBegins ==
  ASSUME ProgressInv, NEW c \in Calls, Begins(c), Others(c), call'[c].at # "idle",
         ~overlapped' => Ahead(c)'
  PROVE  ProgressInv'
  <1>1. (\A d \in Calls : call'[d].at = "idle") => file' = NoFile
    OBVIOUS
  <1>2. ASSUME ~overlapped' PROVE Progress'
    <2>1. ASSUME NEW d \in Calls, d # c PROVE ~Running(d)'
      BY <1>2, <2>1 DEF Begins, Running, Others
    <2>2. ASSUME NEW d \in Calls, d # c PROVE Ahead(d)'
      BY <2>1, <2>2 DEF Ahead, Running
    <2> QED BY <1>2, <2>1, <2>2 DEF Progress
  <1> QED BY <1>1, <1>2 DEF ProgressInv

LEMMA ProgressNext == SoundInv /\ ProgressInv /\ [Next]_vars => ProgressInv' /\ Kept
  <1> SUFFICES ASSUME SoundInv, ProgressInv, [Next]_vars PROVE ProgressInv' /\ Kept
    OBVIOUS
  <1>0. Shape
    BY DEF SoundInv
  <1>1. ASSUME NEW c \in Calls, Start(c) PROVE ProgressInv' /\ Kept
    <2>1. /\ Begins(c) /\ file' = file /\ file = NoFile
          /\ call' = [call EXCEPT ![c].at = "create", ![c].cursor = 1]
      BY <1>1 DEF Start, ProgressInv
    <2>2. Others(c) /\ call'[c].at = "create"
      BY <1>0, <2>1 DEF Shape, Others, Fields
    <2>3. Ahead(c)'
      BY <2>1, <2>2 DEF Ahead
    <2> QED BY <2>1, <2>2, <2>3, CallBegins, SameFileIsKept
  <1>2. ASSUME NEW c \in Calls, Resume(c) PROVE ProgressInv' /\ Kept
    <2>1. file # NoFile /\ Begins(c) /\ file' = file
      BY <1>2 DEF Resume
    <2>2. CASE Finished
      <3>1. call' = [call EXCEPT ![c].at = "done"]
        BY <1>2, <2>2 DEF Resume
      <3>2. Others(c) /\ call'[c].at = "done"
        BY <1>0, <3>1, Moves
      <3>3. Ahead(c)'
        BY <3>2 DEF Ahead, Running
      <3> QED BY <2>1, <3>2, <3>3, CallBegins, SameFileIsKept
    <2>3. CASE ~Finished
      <3>1. PICK v : v = IF CursorOf(file.batches) = Null THEN "gather" ELSE "page"
        OBVIOUS
      <3>2. PICK r : r = [Idle EXCEPT !.at = v, !.batches = file.batches,
                                      !.cursor = CursorOf(file.batches),
                                      !.rows = RowsOf(file.batches)]
        OBVIOUS
      <3>3. call' = [call EXCEPT ![c] = r]
        BY <1>2, <2>3, <3>1, <3>2 DEF Resume
      <3>4. DOMAIN r = Fields /\ r.at = v /\ r.batches = file.batches
        BY <3>2 DEF Idle, Fields
      <3>5. Others(c) /\ call'[c] = r
        BY <1>0, <3>3, <3>4, Set
      <3>6. v \in {"gather", "page"}
        BY <3>1
      <3>7. /\ IsPrefix(file'.batches, call'[c].batches)
            /\ file'.complete = Null /\ file'.batches \in Seq(Batch)
        BY <2>1, <2>3, <3>4, <3>5, PrefixOfItself DEF SoundInv, FileSound, Finished
      <3>8. Ahead(c)'
        BY <3>4, <3>5, <3>6, <3>7 DEF Ahead
      <3> QED BY <2>1, <3>4, <3>5, <3>6, <3>8, CallBegins, SameFileIsKept
    <2> QED BY <2>2, <2>3
  <1>3. ASSUME NEW c \in Calls, Create(c) PROVE ProgressInv' /\ Kept
    <2>1. /\ call[c].at = "create" /\ overlapped' = overlapped
          /\ file'.batches = <<>> /\ file'.complete = Null
          /\ call' = [call EXCEPT ![c].at = "page"]
      BY <1>3 DEF Create
    <2>2. Others(c) /\ call'[c].at = "page" /\ call'[c].batches = call[c].batches
      BY <1>0, <2>1, Moves DEF Reads
    <2>3. call[c].batches \in Seq(Batch)
      BY DEF SoundInv, Sound
    <2>4. IsPrefix(file'.batches, call'[c].batches)
      BY <2>1, <2>2, <2>3, PrefixOfAny
    <2>5. Ahead(c)'
      BY <2>1, <2>2, <2>4, EmptyIsSound DEF Ahead, SoundInv
    <2>6. Running(c)
      BY <2>1 DEF Running
    <2>7. ProgressInv'
      BY <2>1, <2>2, <2>5, <2>6, RunnerSteps
    <2>8. ~overlapped => file = NoFile
      BY <2>1 DEF ProgressInv, Progress, Ahead
    <2> QED BY <2>1, <2>7, <2>8 DEF Kept
  <1>4. ASSUME NEW c \in Calls, ReadPage(c) \/ Gather(c) \/ Reduce(c) PROVE ProgressInv' /\ Kept
    <2>1. /\ call[c].at \in {"page", "gather", "reduce"} /\ file' = file
          /\ overlapped' = overlapped /\ Others(c)
          /\ call'[c].at \in {"child", "gather", "reduce"} /\ call'[c].batches = call[c].batches
      <3>1. CASE ReadPage(c)
        BY <1>0, <3>1 DEF ReadPage, Shape, Others, Fields
      <3>2. CASE Gather(c)
        BY <1>0, <3>2 DEF Gather, Shape, Others, Fields
      <3>3. CASE Reduce(c)
        BY <1>0, <3>3 DEF Reduce, Shape, Others, Fields
      <3> QED BY <1>4, <3>1, <3>2, <3>3
    <2>2. Running(c)
      BY <2>1 DEF Running
    <2>3. Progress => Ahead(c)'
      BY <2>1, <2>2 DEF Progress, Ahead
    <2>4. call'[c].at # "idle"
      BY <2>1
    <2> QED BY <2>1, <2>2, <2>3, <2>4, RunnerSteps, SameFileIsKept
  <1>5. ASSUME NEW c \in Calls, ChildAnswers(c) PROVE ProgressInv' /\ Kept
    <2>1. call[c].at = "child" /\ file' = file /\ overlapped' = overlapped
      BY <1>5 DEF ChildAnswers
    <2>2. PICK x : x = NewBatch(c)
      OBVIOUS
    <2>3. PICK t : t = Append(call[c].batches, x)
      OBVIOUS
    <2>4. call' = [call EXCEPT ![c].at = "save", ![c].batches = t,
                               ![c].cursor = x.next, ![c].rows = x.last]
      BY <1>5, <2>2, <2>3 DEF ChildAnswers
    <2>5. Others(c) /\ call'[c].at = "save" /\ call'[c].batches = t
      BY <1>0, <2>4 DEF Shape, Others, Fields
    <2>6. x \in Batch /\ call[c].batches \in Seq(Batch)
      BY <2>1, <2>2, OneMore DEF SoundInv, Sound
    <2>7. Running(c)
      BY <2>1 DEF Running
    <2>8. ASSUME ~overlapped, Progress PROVE Ahead(c)'
      <3>1. /\ file.complete = Null /\ file.batches \in Seq(Batch)
            /\ IsPrefix(file.batches, call[c].batches)
        BY <2>1, <2>7, <2>8 DEF Progress, Ahead
      <3>2. IsPrefix(file.batches, t)
        BY <2>3, <2>6, <3>1, PrefixOfLonger
      <3> QED BY <2>1, <2>5, <3>1, <3>2 DEF Ahead
    <2> QED BY <2>1, <2>5, <2>7, <2>8, RunnerSteps, SameFileIsKept
  <1>6. ASSUME NEW c \in Calls, Save(c) \/ Finish(c) PROVE ProgressInv' /\ Kept
    <2>1. /\ call[c].at \in {"save", "reduce"} /\ overlapped' = overlapped /\ Others(c)
          /\ file'.batches = call[c].batches /\ call'[c].batches = call[c].batches
          /\ call'[c].at = "done" \/ (call'[c].at \in {"gather", "page"} /\ file'.complete = Null)
      <3>1. CASE Save(c)
        BY <1>0, <3>1 DEF Save, Shape, Others, Fields
      <3>2. CASE Finish(c)
        BY <1>0, <3>2 DEF Finish, Shape, Others, Fields
      <3> QED BY <1>6, <3>1, <3>2
    <2>2. Running(c)
      BY <2>1 DEF Running
    <2>3. call[c].batches \in Seq(Batch) /\ IsPrefix(call[c].batches, call[c].batches)
      BY PrefixOfItself DEF SoundInv, Sound
    <2>4. Ahead(c)' /\ call'[c].at # "idle"
      BY <2>1, <2>3 DEF Ahead, Running
    <2>5. ProgressInv'
      BY <2>1, <2>2, <2>4, RunnerSteps
    <2>6. ~overlapped => file.complete = Null /\ IsPrefix(file.batches, call[c].batches)
      BY <2>1, <2>2 DEF ProgressInv, Progress, Ahead
    <2>7. Kept
      BY <2>1, <2>6 DEF Kept
    <2> QED BY <2>5, <2>7
  <1>7. ASSUME NEW c \in Calls, Fail(c) PROVE ProgressInv' /\ Kept
    <2>1. PICK r : r = [Idle EXCEPT !.at = "failed"]
      OBVIOUS
    <2>2. Running(c) /\ file' = file /\ overlapped' = overlapped /\ call' = [call EXCEPT ![c] = r]
      BY <1>7, <2>1 DEF Fail
    <2>3. DOMAIN r = Fields /\ r.at = "failed"
      BY <2>1 DEF Idle, Fields
    <2>4. Others(c) /\ call'[c].at = "failed"
      BY <1>0, <2>2, <2>3, Set
    <2>5. Ahead(c)'
      BY <2>4 DEF Ahead, Running
    <2> QED BY <2>2, <2>4, <2>5, RunnerSteps, SameFileIsKept
  <1>8. CASE Crash
    <2>1. PICK r : r = [Idle EXCEPT !.at = "failed"]
      OBVIOUS
    <2>2. r.at = "failed"
      BY <2>1 DEF Idle
    <2>3. /\ call' = [c \in Calls |-> IF Running(c) THEN r ELSE call[c]]
          /\ file' = file /\ \E c \in Calls : Running(c)
      BY <1>8, <2>1 DEF Crash
    <2>4. ASSUME NEW c \in Calls PROVE ~Running(c)' /\ Ahead(c)'
      BY <2>2, <2>3 DEF Running, Ahead
    <2>5. \E c \in Calls : call'[c].at # "idle"
      BY <2>2, <2>3
    <2>6. ProgressInv'
      BY <2>4, <2>5 DEF ProgressInv, Progress
    <2> QED BY <2>3, <2>6, SameFileIsKept
  <1>9. CASE UNCHANGED vars
    BY <1>9, SameFileIsKept DEF vars, ProgressInv, Progress, Ahead, Running
  <1> QED BY <1>1, <1>2, <1>3, <1>4, <1>5, <1>6, <1>7, <1>8, <1>9 DEF Next, Step

(* While no two calls have overlapped, a page in the checkpoint stays in it  *)
(* and a complete analysis keeps its answer, through failures, crashes and   *)
(* resumes (index.ts:413, "without rereading completed pages").              *)
THEOREM AnalysisKeepsProgress == Spec => KeepsProgress
  <1>1. Init => SoundInv /\ ProgressInv
    BY SoundInit, ProgressInit
  <1>2. SoundInv /\ ProgressInv /\ [Next]_vars => (SoundInv /\ ProgressInv)' /\ Kept
    BY SoundNext, ProgressNext
  <1>3. KeepsProgress <=> [][Kept]_vars
    BY DEF KeepsProgress, Kept
  <1> HIDE DEF KeepsProgress, Kept
  <1> QED BY <1>1, <1>2, <1>3, PTL DEF Spec

-----------------------------------------------------------------------------
(* Finite induction, and parts of sequences *)

(* The least number of a set: induction over lengths.                        *)
LEMMA Least ==
  ASSUME NEW T, T \subseteq Nat, T # {}
  PROVE  \E n \in T : \A m \in T : n <= m
  <1>1. PICK n \in T : \A m \in T : <<m, n>> \notin OpToRel(<, Nat)
    BY NatLessThanWellFounded, WFMin
  <1>2. \A m \in T : ~(m < n)
    BY <1>1 DEF OpToRel
  <1> QED BY <1>2

(* Induction over an interval: T are the numbers of which something fails.   *)
LEMMA NoneFails ==
  ASSUME NEW lo \in Nat, NEW n \in Nat, NEW T, T \subseteq lo..n,
         \A i \in lo..n : (i = lo \/ i - 1 \notin T) => i \notin T
  PROVE  T = {}
  <1>1. SUFFICES ASSUME T # {} PROVE FALSE
    OBVIOUS
  <1>2. T \subseteq Nat
    OBVIOUS
  <1>3. PICK i \in T : \A m \in T : i <= m
    BY <1>1, <1>2, Least
  <1>4. i \in lo..n /\ i - 1 \notin T
    BY <1>3
  <1> QED BY <1>3, <1>4

LEMMA CutsGrow ==
  ASSUME NEW n \in Nat, NEW cut, \A i \in 0..n : cut[i] \in Nat,
         \A i \in 1..n : cut[i - 1] <= cut[i]
  PROVE  \A i \in 0..n : cut[0] <= cut[i]
  <1>1. PICK T : T = {i \in 0..n : ~(cut[0] <= cut[i])}
    OBVIOUS
  <1>2. T \subseteq 0..n
    BY <1>1
  <1>3. ASSUME NEW i \in 0..n, i = 0 \/ i - 1 \notin T PROVE i \notin T
    <2>1. CASE i = 0
      BY <1>1, <2>1
    <2>2. CASE i # 0
      <3>1. i \in 1..n /\ i - 1 \in 0..n
        BY <2>2
      <3>2. cut[0] <= cut[i - 1] /\ cut[i - 1] <= cut[i]
        BY <1>1, <1>3, <2>2, <3>1
      <3>3. cut[0] \in Nat /\ cut[i - 1] \in Nat /\ cut[i] \in Nat
        BY <3>1
      <3> QED BY <1>1, <3>2, <3>3
    <2> QED BY <2>1, <2>2
  <1>4. T = {}
    BY <1>2, <1>3, NoneFails
  <1> QED BY <1>1, <1>4

(* x is the part of s after position lo, up to position hi.                  *)
Slice(x, s, lo, hi) ==
    /\ x \in Seq(Calls \X Nat) /\ Len(x) = hi - lo
    /\ \A i \in 1..hi - lo : x[i] = s[lo + i]

LEMMA SliceUnique ==
  ASSUME NEW s, NEW lo \in Nat, NEW hi \in Nat, NEW x, NEW y, Slice(x, s, lo, hi), Slice(y, s, lo, hi)
  PROVE  x = y
  <1>1. PICK S : S = Calls \X Nat
    OBVIOUS
  <1>2. x \in Seq(S) /\ y \in Seq(S) /\ Len(x) = Len(y) /\ Len(x) = hi - lo
    BY <1>1 DEF Slice
  <1>3. \A i \in 1..Len(x) : x[i] = y[i]
    BY <1>2 DEF Slice
  <1> QED BY <1>2, <1>3, SeqEqual

LEMMA SliceExists ==
  ASSUME NEW s \in Seq(Calls \X Nat), NEW lo \in Nat, NEW hi \in Nat, lo <= hi, hi <= Len(s)
  PROVE  Slice([k \in 1..hi - lo |-> s[lo + k]], s, lo, hi)
  <1>1. PICK S : S = Calls \X Nat
    OBVIOUS
  <1>2. PICK x : x = [k \in 1..hi - lo |-> s[lo + k]]
    OBVIOUS
  <1>3. hi - lo \in Nat /\ Len(s) \in Nat /\ s \in Seq(S)
    BY <1>1
  <1>4. \A k \in 1..hi - lo : lo + k \in 1..Len(s)
    BY <1>3
  <1>5. \A k \in 1..hi - lo : s[lo + k] \in S
    BY <1>3, <1>4
  <1>6. x \in Seq(S) /\ Len(x) = hi - lo /\ \A k \in 1..hi - lo : x[k] = s[lo + k]
    BY <1>2, <1>3, <1>5
  <1> QED BY <1>1, <1>2, <1>6 DEF Slice

LEMMA SlicesJoin ==
  ASSUME NEW s, NEW lo \in Nat, NEW mid \in Nat, NEW hi \in Nat, lo <= mid, mid <= hi,
         NEW x, NEW y, Slice(x, s, lo, mid), Slice(y, s, mid, hi)
  PROVE  Slice(x \o y, s, lo, hi)
  <1>1. PICK S : S = Calls \X Nat
    OBVIOUS
  <1>2. x \in Seq(S) /\ y \in Seq(S) /\ Len(x) = mid - lo /\ Len(y) = hi - mid
    BY <1>1 DEF Slice
  <1>3. x \o y \in Seq(S) /\ Len(x \o y) = hi - lo
    BY <1>2
  <1>4. ASSUME NEW i \in 1..hi - lo PROVE (x \o y)[i] = s[lo + i]
    <2>1. CASE i <= mid - lo
      <3>1. i \in 1..mid - lo /\ (x \o y)[i] = x[i]
        BY <1>2, <2>1
      <3> QED BY <3>1 DEF Slice
    <2>2. CASE ~(i <= mid - lo)
      <3>1. PICK j : j = i - (mid - lo)
        OBVIOUS
      <3>2. j \in 1..hi - mid /\ mid + j = lo + i
        BY <2>2, <3>1
      <3>3. (x \o y)[i] = y[j]
        BY <1>2, <2>2, <3>1
      <3> QED BY <3>2, <3>3 DEF Slice
    <2> QED BY <2>1, <2>2
  <1> QED BY <1>1, <1>3, <1>4 DEF Slice

(* Sequences that are the parts of s between cuts make up the part between   *)
(* the first cut and the last.                                               *)
LEMMA FlattenSlices ==
  ASSUME NEW s \in Seq(Calls \X Nat), NEW q, NEW n \in Nat, n >= 1, Len(q) = n,
         NEW cut, \A i \in 0..n : cut[i] \in 0..Len(s),
         \A i \in 1..n : cut[i - 1] <= cut[i] /\ Slice(q[i], s, cut[i - 1], cut[i])
  PROVE  cut[0] <= cut[n] /\ Slice(FlattenSeq(q), s, cut[0], cut[n])
  <1>1. \A i \in 0..n : cut[i] \in Nat /\ cut[i] <= Len(s) /\ cut[0] <= cut[i]
    <2>1. \A i \in 0..n : cut[i] \in Nat /\ cut[i] <= Len(s)
      OBVIOUS
    <2>2. \A i \in 1..n : cut[i - 1] <= cut[i]
      OBVIOUS
    <2>3. \A i \in 0..n : cut[0] <= cut[i]
      BY <2>1, <2>2, CutsGrow
    <2> QED BY <2>1, <2>3
  <1>2. PICK parts : parts = [i \in 1..n |-> [k \in 1..cut[i] - cut[0] |-> s[cut[0] + k]]]
    OBVIOUS
  <1>3. ASSUME NEW i \in 1..n PROVE Slice(parts[i], s, cut[0], cut[i])
    <2>1. cut[0] \in Nat /\ cut[i] \in Nat /\ cut[0] <= cut[i] /\ cut[i] <= Len(s)
      BY <1>1
    <2>2. parts[i] = [k \in 1..cut[i] - cut[0] |-> s[cut[0] + k]]
      BY <1>2
    <2> QED BY <2>1, <2>2, SliceExists
  <1>4. ASSUME NEW i \in 1..n PROVE parts[i] = IF i = 1 THEN q[i] ELSE parts[i - 1] \o q[i]
    <2>1. CASE i = 1
      <3>1. Slice(q[1], s, cut[0], cut[1]) /\ cut[0] \in Nat /\ cut[1] \in Nat
        BY <1>1, <2>1
      <3> QED BY <1>3, <2>1, <3>1, SliceUnique
    <2>2. CASE i # 1
      <3>1. i - 1 \in 1..n /\ Slice(q[i], s, cut[i - 1], cut[i]) /\ cut[i - 1] <= cut[i]
        BY <2>2
      <3>2. /\ cut[0] \in Nat /\ cut[i - 1] \in Nat /\ cut[i] \in Nat
            /\ cut[0] <= cut[i - 1]
        BY <1>1, <3>1
      <3>3. Slice(parts[i - 1] \o q[i], s, cut[0], cut[i])
        BY <1>3, <3>1, <3>2, SlicesJoin
      <3> QED BY <1>3, <2>2, <3>2, <3>3, SliceUnique
    <2> QED BY <2>1, <2>2
  <1>5. parts = [i \in 1..n |-> IF i = 1 THEN q[i] ELSE parts[i - 1] \o q[i]]
    BY <1>2, <1>4
  <1>6. PICK f : f = CHOOSE g : g = [i \in 1..n |-> IF i = 1 THEN q[i] ELSE g[i - 1] \o q[i]]
    OBVIOUS
  <1>7. f = [i \in 1..n |-> IF i = 1 THEN q[i] ELSE f[i - 1] \o q[i]]
    BY <1>5, <1>6
  <1>8. FlattenSeq(q) = f[n]
    BY <1>6 DEF FlattenSeq
  <1>9. ASSUME NEW i \in 1..n, i = 1 \/ f[i - 1] = parts[i - 1] PROVE f[i] = parts[i]
    BY <1>4, <1>7, <1>9
  <1>10. f[n] = parts[n]
    <2>1. PICK T : T = {i \in 1..n : f[i] # parts[i]}
      OBVIOUS
    <2>2. ASSUME NEW i \in 1..n, i = 1 \/ i - 1 \notin T PROVE i \notin T
      <3>1. i = 1 \/ i - 1 \in 1..n
        OBVIOUS
      <3> QED BY <1>9, <2>1, <2>2, <3>1
    <2>3. T \subseteq 1..n /\ 1 \in Nat
      BY <2>1
    <2>4. \A i \in 1..n : (i = 1 \/ i - 1 \notin T) => i \notin T
      BY <2>2
    <2>5. T = {}
      BY <2>3, <2>4, NoneFails
    <2> QED BY <2>1, <2>5
  <1>11. n \in 1..n /\ n \in 0..n
    OBVIOUS
  <1> QED BY <1>1, <1>3, <1>8, <1>10, <1>11

(* The rows of a whole analysis are those of all pages.                      *)
LEMMA WholeSum ==
  ASSUME pages \in Seq(Nat), pages # <<>>, NEW b \in Seq(Batch), Consecutive(b),
         Len(b) = WholeCount
  PROVE  RowsOf(b) = TotalRows
  <1> DEFINE N == Len(pages)
             L == Len(b)
  <1>1. /\ N \in Nat \ {0} /\ L \in Nat /\ L <= N
        /\ \A i \in 1..N : pages[i] \in Nat
        /\ \A i \in 1..L : b[i].last \in Nat /\ b[i].first \in Nat
        /\ L = N \/ (L = N - 1 /\ pages[N] = 0)
    <2>1. N \in Nat \ {0} /\ L \in Nat /\ \A i \in 1..N : pages[i] \in Nat
      OBVIOUS
    <2>2. \A i \in 1..L : b[i] \in Batch
      OBVIOUS
    <2>3. \A i \in 1..L : b[i].last \in Nat /\ b[i].first \in Nat
      BY <2>2 DEF Batch
    <2>4. L = N \/ (L = N - 1 /\ pages[N] = 0)
      BY DEF WholeCount
    <2>5. L <= N
      BY DEF Consecutive
    <2> QED BY <2>1, <2>3, <2>4, <2>5
  <1>2. \A i \in 1..L : /\ b[i].first = 1 + (IF i = 1 THEN 0 ELSE b[i - 1].last)
                        /\ b[i].last + 1 = b[i].first + pages[i]
    BY DEF Consecutive
  <1>3. RowsOf(b) = IF L = 0 THEN 0 ELSE b[L].last
    BY <1>1 DEF RowsOf, Last
  <1> HIDE DEF N, L
  <1>4. PICK g : g = [i \in 0..N |-> IF i = 0 THEN 0 ELSE IF i <= L THEN b[i].last ELSE RowsOf(b)]
    OBVIOUS
  <1>5. ASSUME NEW i \in 0..N PROVE g[i] = IF i = 0 THEN 0 ELSE g[i - 1] + pages[i]
    <2>1. CASE i = 0
      BY <1>4, <2>1
    <2>2. CASE i # 0 /\ i <= L
      <3>1. i \in 1..L /\ i - 1 \in 0..N /\ (i # 1 => i - 1 \in 1..L) /\ i \in 1..N
        BY <1>1, <2>2
      <3>2. g[i] = b[i].last /\ g[i - 1] = IF i = 1 THEN 0 ELSE b[i - 1].last
        BY <1>1, <1>4, <3>1
      <3>3. g[i - 1] \in Nat /\ g[i] \in Nat /\ pages[i] \in Nat
        BY <1>1, <3>1, <3>2
      <3>4. b[i].first = 1 + g[i - 1] /\ b[i].last + 1 = b[i].first + pages[i]
        BY <1>2, <3>1, <3>2
      <3>5. b[i].first \in Nat
        BY <1>1, <3>1
      <3>6. PICK u \in Nat, v \in Nat, p \in Nat : u = g[i] /\ v = g[i - 1] /\ p = pages[i]
        BY <3>3
      <3>7. u + 1 = (1 + v) + p
        BY <3>2, <3>4, <3>6
      <3>8. u = v + p
        BY <3>7
      <3> QED BY <2>2, <3>6, <3>8
    <2>3. CASE i # 0 /\ ~(i <= L)
      <3>1. i = N /\ L = N - 1 /\ pages[N] = 0 /\ i - 1 = L /\ i - 1 \in 0..N
        BY <1>1, <2>3
      <3>2. g[i] = RowsOf(b) /\ g[i - 1] = IF L = 0 THEN 0 ELSE b[L].last
        BY <1>1, <1>4, <2>3, <3>1
      <3>3. g[i] = g[i - 1] /\ g[i - 1] \in Nat
        BY <1>1, <1>3, <3>2
      <3> QED BY <2>3, <3>1, <3>3
    <2> QED BY <2>1, <2>2, <2>3
  <1>6. g = [i \in 0..N |-> IF i = 0 THEN 0 ELSE g[i - 1] + pages[i]]
    BY <1>4, <1>5
  <1>7. PICK f : f = CHOOSE h : h = [i \in 0..N |-> IF i = 0 THEN 0 ELSE h[i - 1] + pages[i]]
    OBVIOUS
  <1>8. f = [i \in 0..N |-> IF i = 0 THEN 0 ELSE f[i - 1] + pages[i]]
    BY <1>6, <1>7
  <1>9. PICK T : T = {i \in 0..N : f[i] # g[i]}
    OBVIOUS
  <1>10. ASSUME NEW i \in 0..N, i = 0 \/ i - 1 \notin T PROVE i \notin T
    <2>1. i = 0 \/ i - 1 \in 0..N
      BY <1>1
    <2>2. i = 0 \/ f[i - 1] = g[i - 1]
      BY <1>9, <1>10, <2>1
    <2>3. f[i] = g[i]
      BY <1>5, <1>8, <2>2
    <2> QED BY <1>9, <2>3
  <1>11. T = {}
    <2>1. T \subseteq 0..N /\ 0 \in Nat /\ N \in Nat
      BY <1>1, <1>9
    <2>2. \A i \in 0..N : (i = 0 \/ i - 1 \notin T) => i \notin T
      BY <1>10
    <2> QED BY <2>1, <2>2, NoneFails
  <1>12. N \in 0..N
    BY <1>1
  <1>13. f[N] = g[N]
    BY <1>9, <1>11, <1>12
  <1>14. g[N] = RowsOf(b)
    BY <1>1, <1>3, <1>4, <1>12
  <1>15. TotalRows = f[N]
    BY <1>7 DEF TotalRows, N
  <1> QED BY <1>13, <1>14, <1>15
LEMMA PagesStay == ASSUME pages' = pages PROVE TotalRows' = TotalRows /\ WholeCount' = WholeCount
  BY DEF TotalRows, WholeCount

-----------------------------------------------------------------------------
(* The layers of the reduction *)

Children(b) == [i \in 1..Len(b) |-> b[i].child]

(* The sequences of q are the parts of s between cuts, from cut lo on.       *)
Parts(q, s, cut, lo) ==
    \A i \in 1..Len(q) : /\ cut[lo + i - 1] <= cut[lo + i]
                         /\ Slice(q[i], s, cut[lo + i - 1], cut[lo + i])

(* What was made of a layer and what is left of it are, in this order, the   *)
(* children of all batches.                                                  *)
Cuts(b, made, layer) ==
    /\ made \in Seq(Seq(Calls \X Nat)) /\ layer \in Seq(Seq(Calls \X Nat))
    /\ layer = <<>> => made = <<>>
    /\ \E cut \in [0..Len(made) + Len(layer) -> 0..Len(b)] :
         /\ cut[0] = 0 /\ cut[Len(made) + Len(layer)] = Len(b)
         /\ Parts(made, Children(b), cut, 0)
         /\ Parts(layer, Children(b), cut, Len(made))

LEMMA ChildrenType ==
  ASSUME NEW b \in Seq(Batch)
  PROVE  Children(b) \in Seq(Calls \X Nat) /\ Len(Children(b)) = Len(b)
  <1>1. \A i \in 1..Len(b) : b[i] \in Batch
    OBVIOUS
  <1>2. \A i \in 1..Len(b) : b[i].child \in Calls \X Nat
    BY <1>1 DEF Batch
  <1>3. PICK S : S = Calls \X Nat
    OBVIOUS
  <1>4. \A i \in 1..Len(b) : b[i].child \in S
    BY <1>2, <1>3
  <1>5. [i \in 1..Len(b) |-> b[i].child] \in Seq(S) /\ Len([i \in 1..Len(b) |-> b[i].child]) = Len(b)
    BY <1>4
  <1> QED BY <1>3, <1>5 DEF Children

(* The first layer: one summary of each batch.                               *)
LEMMA FirstCuts ==
  ASSUME NEW b \in Seq(Batch)
  PROVE  Cuts(b, <<>>, Summaries(b))
  <1>1. PICK n : n = Len(b)
    OBVIOUS
  <1>2. n \in Nat
    BY <1>1
  <1>3. PICK S : S = Calls \X Nat
    OBVIOUS
  <1>4. Children(b) \in Seq(S) /\ Len(Children(b)) = n
    BY <1>1, <1>3, ChildrenType
  <1>5. PICK q : q = Summaries(b)
    OBVIOUS
  <1>6. q = [i \in 1..n |-> <<b[i].child>>] /\ Children(b) = [i \in 1..n |-> b[i].child]
    BY <1>1, <1>5 DEF Summaries, Children
  <1>7. \A i \in 1..n : Children(b)[i] \in S
    BY <1>4
  <1>8. \A i \in 1..n : b[i].child \in S
    BY <1>6, <1>7
  <1>9. \A i \in 1..n : <<b[i].child>> \in Seq(S)
    BY <1>8
  <1>10. q \in Seq(Seq(S)) /\ Len(q) = n
    BY <1>2, <1>6, <1>9
  <1>11. PICK cut : cut = [i \in 0..0 + n |-> i]
    OBVIOUS
  <1>12. cut \in [0..0 + n -> 0..n] /\ cut[0] = 0 /\ cut[0 + n] = n
    BY <1>2, <1>11
  <1>13. ASSUME NEW i \in 1..n
         PROVE  /\ cut[0 + i - 1] <= cut[0 + i]
                /\ Slice(q[i], Children(b), cut[0 + i - 1], cut[0 + i])
    <2>1. cut[0 + i - 1] = i - 1 /\ cut[0 + i] = i
      BY <1>2, <1>11
    <2>2. q[i] \in Seq(S) /\ Len(q[i]) = i - (i - 1) /\ q[i][1] = Children(b)[(i - 1) + 1]
      BY <1>2, <1>6, <1>9
    <2>3. \A k \in 1..i - (i - 1) : k = 1
      OBVIOUS
    <2>4. \A k \in 1..i - (i - 1) : q[i][k] = Children(b)[(i - 1) + k]
      BY <2>2, <2>3
    <2>5. Slice(q[i], Children(b), i - 1, i)
      BY <1>3, <2>2, <2>4 DEF Slice
    <2> QED BY <2>1, <2>5
  <1>14. Parts(q, Children(b), cut, 0)
    BY <1>10, <1>13 DEF Parts
  <1>15. Parts(<<>>, Children(b), cut, 0)
    BY DEF Parts
  <1>16. <<>> \in Seq(Seq(S)) /\ Len(<<>>) = 0
    OBVIOUS
  <1> QED BY <1>1, <1>3, <1>5, <1>10, <1>12, <1>14, <1>15, <1>16 DEF Cuts

(* A group of the layer, reduced, is one part of the next.                   *)
LEMMA GroupCuts ==
  ASSUME NEW b \in Seq(Batch), NEW made, NEW layer, Cuts(b, made, layer), layer # <<>>,
         NEW m, m = Append(made, FlattenSeq(Group(layer))), NEW rest, rest = Rest(layer)
  PROVE  /\ rest # <<>> => Cuts(b, m, rest)
         /\ rest = <<>> => Cuts(b, <<>>, m)
  <1>1. PICK S : S = Calls \X Nat
    OBVIOUS
  <1>2. PICK s : s = Children(b)
    OBVIOUS
  <1>3. s \in Seq(S) /\ Len(s) = Len(b) /\ Len(b) \in Nat
    BY <1>1, <1>2, ChildrenType
  <1>4. PICK M, L, B : M = Len(made) /\ L = Len(layer) /\ B = Len(b)
    OBVIOUS
  <1>5. made \in Seq(Seq(S)) /\ layer \in Seq(Seq(S)) /\ M \in Nat /\ L \in Nat \ {0} /\ B \in Nat
    BY <1>1, <1>4 DEF Cuts
  <1>6. PICK cut \in [0..M + L -> 0..B] :
          /\ cut[0] = 0 /\ cut[M + L] = B /\ Parts(made, s, cut, 0) /\ Parts(layer, s, cut, M)
    BY <1>2, <1>4 DEF Cuts
  <1>7. PICK k : k = GroupLen(layer)
    OBVIOUS
  <1>8. k \in 1..L
    BY <1>4, <1>5, <1>7, AnalysisAssumption DEF GroupLen
  <1>9. PICK g : g = Group(layer)
    OBVIOUS
  <1>10. g \in Seq(Seq(S)) /\ Len(g) = k /\ \A i \in 1..k : g[i] = layer[i]
    BY <1>4, <1>5, <1>7, <1>8, <1>9 DEF Group
  <1>11. rest \in Seq(Seq(S)) /\ Len(rest) = L - k /\ \A i \in 1..L - k : rest[i] = layer[k + i]
    <2>1. rest = SubSeq(layer, k + 1, L)
      BY <1>4, <1>7 DEF Rest
    <2>2. \A i \in k + 1..L : i \in 1..L /\ layer[i] \in Seq(S)
      BY <1>4, <1>5, <1>8
    <2>3. rest = [i \in 1..L - k |-> layer[k + i]]
      BY <1>4, <1>5, <1>8, <2>1
    <2>4. \A i \in 1..L - k : k + i \in k + 1..L
      BY <1>5, <1>8
    <2>5. \A i \in 1..L - k : layer[k + i] \in Seq(S)
      BY <2>2, <2>4
    <2>6. L - k \in Nat
      BY <1>5, <1>8
    <2> QED BY <2>3, <2>5, <2>6
  <1>12. \A i \in 0..M + L : cut[i] \in 0..B
    BY <1>6
  <1>13. \A i \in 1..M : cut[i - 1] <= cut[i] /\ Slice(made[i], s, cut[i - 1], cut[i])
    <2>1. ASSUME NEW i \in 1..M PROVE cut[i - 1] <= cut[i] /\ Slice(made[i], s, cut[i - 1], cut[i])
      <3>1. 0 + i - 1 = i - 1 /\ 0 + i = i
        BY <1>5
      <3>2. /\ cut[0 + i - 1] <= cut[0 + i]
            /\ Slice(made[i], s, cut[0 + i - 1], cut[0 + i])
        BY <1>4, <1>6 DEF Parts
      <3> QED BY <3>1, <3>2
    <2> QED BY <2>1
  <1>14. \A i \in 1..L : /\ cut[M + i - 1] <= cut[M + i]
                         /\ Slice(layer[i], s, cut[M + i - 1], cut[M + i])
    BY <1>4, <1>6 DEF Parts
  <1>15. PICK x : x = FlattenSeq(g)
    OBVIOUS
  <1>16. cut[M] <= cut[M + k] /\ Slice(x, s, cut[M], cut[M + k])
    <2>1. PICK c : c = [i \in 0..k |-> cut[M + i]]
      OBVIOUS
    <2>2. \A i \in 0..k : c[i] \in 0..B
      <3>1. ASSUME NEW i \in 0..k PROVE c[i] \in 0..B
        <4>1. M + i \in 0..M + L
          BY <1>5, <1>8
        <4> QED BY <1>12, <2>1, <4>1
      <3> QED BY <3>1
    <2>3. ASSUME NEW i \in 1..k PROVE c[i - 1] <= c[i] /\ Slice(g[i], s, c[i - 1], c[i])
      <3>1. i \in 1..L /\ i - 1 \in 0..k /\ i \in 0..k /\ M + (i - 1) = M + i - 1
        BY <1>5, <1>8
      <3>2. c[i] = cut[M + i] /\ c[i - 1] = cut[M + i - 1]
        BY <2>1, <3>1
      <3> QED BY <1>10, <1>14, <3>1, <3>2
    <2>4. c[0] = cut[M] /\ c[k] = cut[M + k]
      BY <1>5, <1>8, <2>1
    <2>5. s \in Seq(Calls \X Nat) /\ k \in Nat /\ k >= 1 /\ Len(g) = k
      BY <1>1, <1>3, <1>8, <1>10
    <2>6. \A i \in 0..k : c[i] \in 0..Len(s)
      BY <1>3, <1>4, <2>2
    <2>7. c[0] <= c[k] /\ Slice(FlattenSeq(g), s, c[0], c[k])
      BY <2>3, <2>5, <2>6, FlattenSlices
    <2> QED BY <1>15, <2>4, <2>7
  <1>17. x \in Seq(S)
    BY <1>1, <1>16 DEF Slice
  <1>18. /\ m \in Seq(Seq(S)) /\ Len(m) = M + 1 /\ m[M + 1] = x
         /\ \A i \in 1..M : m[i] = made[i]
    BY <1>4, <1>5, <1>9, <1>15, <1>17, SeqTail
  <1>19. PICK c : c = [i \in 0..M + 1 + (L - k) |-> IF i <= M THEN cut[i] ELSE cut[i + k - 1]]
    OBVIOUS
  <1>20. c \in [0..M + 1 + (L - k) -> 0..B]
    <2>1. ASSUME NEW i \in 0..M + 1 + (L - k), ~(i <= M) PROVE i + k - 1 \in 0..M + L
      BY <1>5, <1>8, <2>1
    <2>2. ASSUME NEW i \in 0..M + 1 + (L - k), i <= M PROVE i \in 0..M + L
      BY <1>5, <1>8, <2>2
    <2> QED BY <1>12, <1>19, <2>1, <2>2
  <1>21. c[0] = 0 /\ c[M + 1 + (L - k)] = B /\ c[M] = cut[M] /\ c[M + 1] = cut[M + k]
    <2>1. c[0] = cut[0] /\ c[M] = cut[M]
      BY <1>5, <1>8, <1>19
    <2>2. M + 1 + k - 1 = M + k /\ M + 1 + (L - k) + k - 1 = M + L
      BY <1>5, <1>8
    <2>3. M + 1 \in 0..M + 1 + (L - k) /\ ~(M + 1 <= M)
      BY <1>5, <1>8
    <2>4. M + 1 + (L - k) \in 0..M + 1 + (L - k) /\ ~(M + 1 + (L - k) <= M)
      BY <1>5, <1>8
    <2> QED BY <1>6, <1>19, <2>1, <2>2, <2>3, <2>4
  <1>22. \A i \in 1..M + 1 : c[0 + i - 1] <= c[0 + i] /\ Slice(m[i], s, c[0 + i - 1], c[0 + i])
    <2>1. ASSUME NEW i \in 1..M
          PROVE c[0 + i - 1] <= c[0 + i] /\ Slice(m[i], s, c[0 + i - 1], c[0 + i])
      <3>1. /\ 0 + i - 1 = i - 1 /\ 0 + i = i /\ i - 1 <= M /\ i <= M
            /\ i - 1 \in 0..M + 1 + (L - k) /\ i \in 0..M + 1 + (L - k)
        BY <1>5, <1>8
      <3>2. c[i - 1] = cut[i - 1] /\ c[i] = cut[i]
        BY <1>19, <3>1
      <3> QED BY <1>13, <1>18, <3>1, <3>2
    <2>2. 0 + (M + 1) - 1 = M /\ 0 + (M + 1) = M + 1
      BY <1>5
    <2>3. c[0 + (M + 1) - 1] <= c[0 + (M + 1)]
          /\ Slice(m[M + 1], s, c[0 + (M + 1) - 1], c[0 + (M + 1)])
      BY <1>16, <1>18, <1>21, <2>2
    <2>4. \A i \in 1..M + 1 : i \in 1..M \/ i = M + 1
      BY <1>5
    <2> QED BY <2>1, <2>3, <2>4
  <1>23. Parts(m, s, c, 0)
    BY <1>18, <1>22 DEF Parts
  <1>24. CASE rest # <<>>
    <2>1. ASSUME NEW i \in 1..L - k
          PROVE c[M + 1 + i - 1] <= c[M + 1 + i] /\ Slice(rest[i], s, c[M + 1 + i - 1], c[M + 1 + i])
      <3>1. k + i \in 1..L
        BY <1>5, <1>8
      <3>2. /\ M + 1 + i - 1 \in 0..M + 1 + (L - k) /\ ~(M + 1 + i <= M)
            /\ M + 1 + i \in 0..M + 1 + (L - k)
            /\ M + 1 + i + k - 1 = M + (k + i)
            /\ ~(M + 1 + i - 1 <= M) /\ M + 1 + i - 1 + k - 1 = M + (k + i) - 1
        BY <1>5, <1>8
      <3>3. c[M + 1 + i - 1] = cut[M + (k + i) - 1] /\ c[M + 1 + i] = cut[M + (k + i)]
        BY <1>19, <3>2
      <3> QED BY <1>11, <1>14, <3>1, <3>3
    <2>2. Parts(rest, s, c, M + 1)
      BY <1>11, <2>1 DEF Parts
    <2>3. Cuts(b, m, rest)
      BY <1>1, <1>2, <1>4, <1>11, <1>18, <1>20, <1>21, <1>23, <1>24, <2>2 DEF Cuts
    <2> QED BY <1>24, <2>3
  <1>25. CASE rest = <<>>
    <2>1. L - k = 0 /\ Len(<<>>) = 0
      BY <1>5, <1>8, <1>11, <1>25
    <2>2. M + 1 + (L - k) = 0 + (M + 1)
      BY <1>5, <1>8, <2>1
    <2>3. Parts(<<>>, s, c, 0)
      BY DEF Parts
    <2>4. <<>> \in Seq(Seq(S)) /\ 0 + (M + 1) \in Nat
      BY <1>5
    <2>5. c \in [0..0 + (M + 1) -> 0..B] /\ c[0 + (M + 1)] = B
      BY <1>20, <1>21, <2>2
    <2>6. Cuts(b, <<>>, m)
      BY <1>1, <1>2, <1>4, <1>18, <1>21, <1>23, <2>1, <2>3, <2>4, <2>5 DEF Cuts
    <2> QED BY <1>25, <2>6
  <1> QED BY <1>24, <1>25

(* The last layer: the one summary that is left is made of every child.      *)
LEMMA LastCut ==
  ASSUME NEW b \in Seq(Batch), NEW made, NEW layer, Cuts(b, made, layer),
         Len(layer) + Len(made) <= 1
  PROVE  (IF layer = <<>> THEN <<>> ELSE layer[1]) = Children(b)
  <1>1. PICK S : S = Calls \X Nat
    OBVIOUS
  <1>2. PICK s : s = Children(b)
    OBVIOUS
  <1>3. s \in Seq(S) /\ Len(s) = Len(b) /\ Len(b) \in Nat
    BY <1>1, <1>2, ChildrenType
  <1>4. made \in Seq(Seq(S)) /\ layer \in Seq(Seq(S)) /\ (layer = <<>> => made = <<>>)
    BY <1>1 DEF Cuts
  <1>5. PICK cut : /\ cut[0] = 0 /\ cut[Len(made) + Len(layer)] = Len(b)
                   /\ Parts(layer, s, cut, Len(made))
    BY <1>2 DEF Cuts
  <1>6. CASE layer = <<>>
    <2>1. Len(made) + Len(layer) = 0
      BY <1>4, <1>6
    <2>2. s = <<>>
      BY <1>3, <1>5, <2>1
    <2> QED BY <1>2, <1>6, <2>2
  <1>7. CASE layer # <<>>
    <2>1. Len(layer) = 1 /\ Len(made) = 0
      <3>1. Len(layer) \in Nat /\ Len(made) \in Nat /\ Len(layer) # 0
        BY <1>4, <1>7
      <3> QED BY <3>1
    <2>2. 0 + 1 - 1 = 0 /\ 0 + 1 = 1 /\ 1 \in 1..Len(layer)
      BY <2>1
    <2>3. Slice(layer[1], s, cut[0 + 1 - 1], cut[0 + 1])
      BY <1>5, <2>1, <2>2 DEF Parts
    <2>4. Slice(layer[1], s, 0, Len(s))
      BY <1>3, <1>5, <2>1, <2>2, <2>3
    <2>5. Slice(s, s, 0, Len(s))
      <3>1. Len(s) = Len(s) - 0 /\ \A i \in 1..Len(s) - 0 : s[i] = s[0 + i]
        BY <1>3
      <3> QED BY <1>1, <1>3, <3>1 DEF Slice
    <2>6. layer[1] = s
      BY <1>3, <2>4, <2>5, SliceUnique
    <2> QED BY <1>2, <1>7, <2>6
  <1> QED BY <1>6, <1>7

-----------------------------------------------------------------------------
(* What a call has is the whole of what it needs: batches in the order of    *)
(* their pages, no batch of an empty last page, and layers of all children.  *)
Numbered(b) == \A i \in 1..Len(b) : b[i].child[2] = i
NoEmptyEnd(b) == Len(b) = Len(pages) => pages[Len(pages)] # 0
WholeCall(c) ==
    /\ Numbered(call[c].batches) /\ NoEmptyEnd(call[c].batches)
    /\ call[c].at = "child" => pages[call[c].cursor] # 0 \/ HasMore(call[c].cursor)
    /\ call[c].at \in {"gather", "reduce"} => Len(call[c].batches) = WholeCount
    /\ call[c].at \notin {"reduce", "done"} => call[c].made = <<>>
    /\ call[c].at = "reduce" => Cuts(call[c].batches, call[c].made, call[c].layer)

WholeAnswer(a) ==
    /\ a \in AnswerType
    /\ a.rows = TotalRows /\ a.count = WholeCount
    /\ a.summary = a.sessions
    /\ \A i \in 1..Len(a.sessions) : a.sessions[i][2] = i
    /\ Len(a.sessions) = WholeCount
WholeFile == file # NoFile =>
    /\ Numbered(file.batches) /\ NoEmptyEnd(file.batches)
    /\ file.complete # Null => WholeAnswer(file.complete)

(* Without overlaps there is one answer, the saved one.                      *)
OneAnswer ==
    /\ (\A c \in Calls : call[c].at = "idle") => answers = {}
    /\ ~overlapped => /\ \A c \in Calls : Running(c) => answers = {}
                      /\ \A a \in answers : a = file.complete

WholeInv == /\ \A c \in Calls : WholeCall(c)
            /\ WholeFile
            /\ \A a \in answers : WholeAnswer(a)
            /\ OneAnswer

(* The reading ends with as many batches as there are pages with rows at the *)
(* end: an empty last page has none.                                         *)
LEMMA AllRead ==
  ASSUME pages \in Seq(Nat), pages # <<>>, NEW b \in Seq(Batch), Consecutive(b), NoEmptyEnd(b),
         ~(Len(b) < Len(pages))
  PROVE  Len(b) = WholeCount
  BY DEF Consecutive, NoEmptyEnd, WholeCount

LEMMA ReadToTheEnd ==
  ASSUME SoundInv, NEW b \in Seq(Batch), Consecutive(b), NoEmptyEnd(b), CursorOf(b) = Null
  PROVE  Len(b) = WholeCount
  <1>1. b # <<>>
    BY AnalysisAssumption DEF CursorOf
  <1>2. Len(b) \in 1..Len(b) /\ Len(pages) \in Nat /\ pages \in Seq(Nat) /\ pages # <<>>
    BY <1>1 DEF SoundInv
  <1>3. b[Len(b)].next = (IF Len(b) < Len(pages) THEN Len(b) + 1 ELSE Null)
    BY <1>2 DEF Consecutive
  <1>4. CursorOf(b) = b[Len(b)].next
    BY <1>1 DEF CursorOf, Last
  <1>5. ~(Len(b) < Len(pages))
    BY <1>2, <1>3, <1>4, AnalysisAssumption
  <1> QED BY <1>2, <1>5, AllRead

LEMMA EmptyFits == ASSUME pages \in Seq(Nat), pages # <<>> PROVE Numbered(<<>>) /\ NoEmptyEnd(<<>>)
  BY DEF Numbered, NoEmptyEnd

(* A call that has finished, of a whole number of batches, answers the whole.*)
LEMMA AnswersWhole ==
  ASSUME SoundInv, NEW c \in Calls, WholeCall(c), call[c].at = "reduce",
         Len(call[c].layer) + Len(call[c].made) <= 1
  PROVE  WholeAnswer(Answer(c))
  <1>1. PICK b : b = call[c].batches
    OBVIOUS
  <1>2. /\ b \in Seq(Batch) /\ Consecutive(b) /\ call[c].rows \in Nat /\ call[c].rows = RowsOf(b)
        /\ pages \in Seq(Nat) /\ pages # <<>>
    BY <1>1 DEF SoundInv, Sound
  <1>3. Len(b) = WholeCount /\ Numbered(b) /\ Cuts(b, call[c].made, call[c].layer)
    BY <1>1 DEF WholeCall
  <1>4. RowsOf(b) = TotalRows
    BY <1>2, <1>3, WholeSum
  <1>5. (IF call[c].layer = <<>> THEN <<>> ELSE call[c].layer[1]) = Children(b)
    BY <1>2, <1>3, LastCut
  <1>6. Answer(c) = [rows |-> call[c].rows, count |-> Len(b), by |-> c,
                     summary |-> Children(b), sessions |-> Children(b)]
    BY <1>1, <1>5 DEF Answer, Children
  <1>7. Children(b) \in Seq(Calls \X Nat) /\ Len(Children(b)) = Len(b) /\ Len(b) \in Nat
    BY <1>2, ChildrenType
  <1>8. \A i \in 1..Len(Children(b)) : Children(b)[i][2] = i
    BY <1>3, <1>7 DEF Children, Numbered
  <1>9. Answer(c) \in AnswerType
    BY <1>2, <1>6, <1>7 DEF AnswerType
  <1>10. /\ Answer(c).rows = call[c].rows /\ Answer(c).count = Len(b)
         /\ Answer(c).summary = Children(b) /\ Answer(c).sessions = Children(b)
    BY <1>6
  <1> HIDE DEF Children
  <1> QED BY <1>2, <1>3, <1>4, <1>7, <1>8, <1>9, <1>10 DEF WholeAnswer

(* The pages never change, and with them what is whole.                      *)
LEMMA StaysWhole ==
  ASSUME pages' = pages
  PROVE  /\ \A a : WholeAnswer(a)' <=> WholeAnswer(a)
         /\ \A b : NoEmptyEnd(b)' <=> NoEmptyEnd(b)
         /\ WholeCount' = WholeCount
         /\ \A i : HasMore(i)' <=> HasMore(i)
  <1>1. TotalRows' = TotalRows /\ WholeCount' = WholeCount
    BY PagesStay
  <1> QED BY <1>1 DEF WholeAnswer, NoEmptyEnd, HasMore

LEMMA WholeInit == Init => WholeInv
  <1> SUFFICES ASSUME Init PROVE WholeInv
    OBVIOUS
  <1>1. pages \in Seq(Nat) /\ pages # <<>>
    BY AnalysisAssumption DEF Init
  <1>2. ASSUME NEW c \in Calls PROVE WholeCall(c)
    <2>1. call[c] = Idle
      BY DEF Init
    <2> QED BY <1>1, <2>1, EmptyFits DEF WholeCall, Idle
  <1>3. WholeFile /\ OneAnswer /\ \A a \in answers : WholeAnswer(a)
    BY DEF Init, WholeFile, OneAnswer
  <1> QED BY <1>2, <1>3 DEF WholeInv

(* A step of one call that leaves it and the file whole, and answers nothing.*)
LEMMA WholeStep ==
  ASSUME WholeInv, pages' = pages, NEW c \in Calls, Others(c), WholeCall(c)', WholeFile',
         answers' = answers, OneAnswer'
  PROVE  WholeInv'
  <1>1. ASSUME NEW d \in Calls, d # c PROVE WholeCall(d)'
    <2>1. call'[d] = call[d] /\ WholeCall(d)
      BY <1>1 DEF Others, WholeInv
    <2> QED BY <2>1, StaysWhole DEF WholeCall
  <1>2. \A a \in answers' : WholeAnswer(a)'
    BY StaysWhole DEF WholeInv
  <1> QED BY <1>1, <1>2 DEF WholeInv

LEMMA FileStaysWhole == ASSUME WholeInv, pages' = pages, file' = file PROVE WholeFile'
  BY StaysWhole DEF WholeInv, WholeFile

(* A call that takes over the batches it has, or begins with none.           *)
LEMMA CallStaysWhole ==
  ASSUME pages' = pages, NEW c \in Calls,
         Numbered(call'[c].batches), NoEmptyEnd(call'[c].batches),
         call'[c].at \notin {"child", "gather", "reduce"},
         call'[c].at # "done" => call'[c].made = <<>>
  PROVE  WholeCall(c)'
  BY StaysWhole DEF WholeCall

(* A step of the call that runs, without an answer.                          *)
LEMMA NoNewAnswer ==
  ASSUME WholeInv, ProgressInv, NEW c \in Calls, Running(c), Others(c),
         overlapped' = overlapped, answers' = answers, call'[c].at # "idle"
  PROVE  OneAnswer'
  <1>1. ~overlapped => answers = {}
    BY DEF WholeInv, OneAnswer
  <1> QED BY <1>1 DEF OneAnswer

LEMMA WholeNext == SoundInv /\ ProgressInv /\ WholeInv /\ [Next]_vars => WholeInv'
  <1> SUFFICES ASSUME SoundInv, ProgressInv, WholeInv, [Next]_vars PROVE WholeInv'
    OBVIOUS
  <1>0. /\ Shape /\ pages \in Seq(Nat) /\ pages # <<>> /\ WholeFile /\ OneAnswer
        /\ \A c \in Calls : WholeCall(c) /\ Sound(c)
    BY DEF SoundInv, WholeInv
  <1>1. ASSUME NEW c \in Calls, Start(c) PROVE WholeInv'
    <2>1. /\ call[c].at = "idle" /\ \A d \in Calls : call[d].at = "idle"
          /\ pages' = pages /\ file' = file /\ answers' = answers
          /\ call' = [call EXCEPT ![c].at = "create", ![c].cursor = 1]
      BY <1>1 DEF Start, Begins
    <2>2. /\ Others(c) /\ call'[c].at = "create"
          /\ call'[c].batches = call[c].batches /\ call'[c].made = call[c].made
      BY <1>0, <2>1 DEF Shape, Others, Fields
    <2>3. WholeCall(c)'
      BY <1>0, <2>1, <2>2, CallStaysWhole DEF WholeCall
    <2>4. OneAnswer'
      BY <1>0, <2>1, <2>2 DEF OneAnswer
    <2>5. WholeFile'
      BY <2>1, FileStaysWhole
    <2> QED BY <2>1, <2>2, <2>3, <2>4, <2>5, WholeStep
  <1>2. ASSUME NEW c \in Calls, Resume(c) PROVE WholeInv'
    <2>0. file # NoFile /\ call[c].at = "idle" /\ Begins(c) /\ pages' = pages /\ file' = file
      BY <1>2 DEF Resume, Begins
    <2>1. ~overlapped' => ~overlapped /\ \A d \in Calls : ~Running(d)
      BY <2>0 DEF Begins
    <2>2. WholeFile'
      BY <2>0, FileStaysWhole
    <2>3. CASE Finished
      <3>1. /\ call' = [call EXCEPT ![c].at = "done"] /\ answers' = answers \cup {file.complete}
            /\ file.complete # Null
        BY <1>2, <2>3 DEF Resume, Finished
      <3>2. Others(c) /\ call'[c].at = "done" /\ call'[c].batches = call[c].batches
        BY <1>0, <3>1, Moves DEF Reads
      <3>3. WholeCall(c)'
        BY <1>0, <2>0, <3>2, CallStaysWhole DEF WholeCall
      <3>4. ASSUME NEW d \in Calls PROVE WholeCall(d)'
        <4>1. CASE d # c
          <5>1. call'[d] = call[d] /\ WholeCall(d)
            BY <1>0, <3>2, <4>1 DEF Others
          <5> QED BY <2>0, <5>1, StaysWhole DEF WholeCall
        <4> QED BY <3>3, <4>1
      <3>5. \A a \in answers' : WholeAnswer(a)'
        BY <2>0, <3>1, StaysWhole DEF WholeInv, WholeFile
      <3>6. OneAnswer'
        <4>1. call'[c].at # "idle"
          BY <3>2
        <4>2. ASSUME ~overlapped' PROVE \A d \in Calls : ~Running(d)'
          <5>1. ASSUME NEW d \in Calls, d # c PROVE ~Running(d)'
            BY <2>1, <3>2, <4>2, <5>1 DEF Others, Running
          <5>2. ~Running(c)'
            BY <3>2 DEF Running
          <5> QED BY <5>1, <5>2
        <4>3. ~overlapped' => \A a \in answers' : a = file'.complete
          BY <1>0, <2>0, <2>1, <3>1 DEF OneAnswer
        <4> QED BY <4>1, <4>2, <4>3 DEF OneAnswer
      <3> QED BY <2>2, <3>4, <3>5, <3>6 DEF WholeInv
    <2>4. CASE ~Finished
      <3>1. PICK b : b = file.batches
        OBVIOUS
      <3>2. b \in Seq(Batch) /\ Consecutive(b) /\ Numbered(b) /\ NoEmptyEnd(b)
        BY <1>0, <2>0, <3>1 DEF SoundInv, FileSound, WholeFile
      <3>3. PICK v : v = IF CursorOf(b) = Null THEN "gather" ELSE "page"
        OBVIOUS
      <3>4. PICK r : r = [Idle EXCEPT !.at = v, !.batches = b, !.cursor = CursorOf(b),
                                      !.rows = RowsOf(b)]
        OBVIOUS
      <3>5. call' = [call EXCEPT ![c] = r] /\ answers' = answers /\ file.complete = Null
        BY <1>2, <2>4, <3>1, <3>3, <3>4 DEF Resume, Finished
      <3>6. DOMAIN r = Fields /\ r.at = v /\ r.batches = b /\ r.made = <<>>
        BY <3>4 DEF Idle, Fields
      <3>7. Others(c) /\ call'[c] = r
        BY <1>0, <3>5, <3>6, Set
      <3>8. v \in {"gather", "page"} /\ (v = "gather" => CursorOf(b) = Null)
        BY <3>3
      <3>9. v = "gather" => Len(b) = WholeCount
        BY <3>2, <3>8, ReadToTheEnd
      <3>10. WholeCall(c)'
        BY <2>0, <3>2, <3>6, <3>7, <3>8, <3>9, StaysWhole DEF WholeCall
      <3>11. ~overlapped' => answers = {}
        <4>1. ASSUME ~overlapped', NEW a \in answers PROVE FALSE
          <5>1. a = file.complete /\ WholeAnswer(a)
            BY <1>0, <2>1, <4>1 DEF OneAnswer, WholeInv
          <5> QED BY <3>5, <5>1, AnalysisAssumption DEF WholeAnswer
        <4> QED BY <4>1
      <3>12. OneAnswer'
        <4>1. call'[c].at # "idle"
          BY <3>6, <3>7, <3>8
        <4> QED BY <3>5, <3>11, <4>1 DEF OneAnswer
      <3> QED BY <2>0, <2>2, <3>5, <3>7, <3>10, <3>12, WholeStep
    <2> QED BY <2>3, <2>4
  <1>3. ASSUME NEW c \in Calls, Create(c) PROVE WholeInv'
    <2>1. /\ call' = [call EXCEPT ![c].at = "page"] /\ call[c].at = "create"
          /\ pages' = pages /\ file'.batches = <<>> /\ file'.complete = Null
          /\ overlapped' = overlapped /\ answers' = answers
      BY <1>3 DEF Create
    <2>2. /\ Others(c) /\ call'[c].at = "page"
          /\ call'[c].batches = call[c].batches /\ call'[c].made = call[c].made
      BY <1>0, <2>1 DEF Shape, Others, Fields
    <2>3. WholeCall(c)'
      BY <1>0, <2>1, <2>2, CallStaysWhole DEF WholeCall
    <2>4. WholeFile'
      BY <1>0, <2>1, EmptyFits, StaysWhole DEF WholeFile
    <2>5. OneAnswer'
      BY <2>1, <2>2, NoNewAnswer DEF Running
    <2> QED BY <2>1, <2>2, <2>3, <2>4, <2>5, WholeStep
  <1>4. ASSUME NEW c \in Calls, ReadPage(c) PROVE WholeInv'
    <2>1. /\ call[c].at = "page" /\ pages' = pages /\ file' = file
          /\ overlapped' = overlapped /\ answers' = answers
      BY <1>4 DEF ReadPage
    <2>2. PICK b : b = call[c].batches
      OBVIOUS
    <2>3. /\ b \in Seq(Batch) /\ Numbered(b) /\ NoEmptyEnd(b) /\ call[c].made = <<>>
          /\ call[c].cursor = Len(b) + 1 /\ Len(b) < Len(pages)
      BY <1>0, <2>1, <2>2 DEF WholeCall, Sound
    <2>4. CASE pages[call[c].cursor] = 0 /\ ~HasMore(call[c].cursor)
      <3>1. call' = [call EXCEPT ![c].cursor = Null, ![c].at = "gather"]
        BY <1>4, <2>4 DEF ReadPage
      <3>2. /\ Others(c) /\ call'[c].at = "gather"
            /\ call'[c].batches = b /\ call'[c].made = call[c].made
        BY <1>0, <2>2, <3>1 DEF Shape, Others, Fields
      <3>3. Len(b) = WholeCount
        <4>1. Len(b) \in Nat /\ Len(pages) \in Nat
          BY <1>0, <2>3
        <4>2. call[c].cursor = Len(pages) /\ pages[Len(pages)] = 0
          BY <2>3, <2>4, <4>1 DEF HasMore
        <4> QED BY <2>3, <4>1, <4>2 DEF WholeCount
      <3>4. WholeCall(c)'
        BY <2>1, <2>3, <3>2, <3>3, StaysWhole DEF WholeCall
      <3>5. OneAnswer'
        BY <2>1, <3>2, NoNewAnswer DEF Running
      <3> QED BY <2>1, <3>2, <3>4, <3>5, FileStaysWhole, WholeStep
    <2>5. CASE ~(pages[call[c].cursor] = 0 /\ ~HasMore(call[c].cursor))
      <3>1. call' = [call EXCEPT ![c].at = "child"]
        BY <1>4, <2>5 DEF ReadPage
      <3>2. /\ Others(c) /\ call'[c].at = "child" /\ call'[c].cursor = call[c].cursor
            /\ call'[c].batches = b /\ call'[c].made = call[c].made
        BY <1>0, <2>2, <3>1 DEF Shape, Others, Fields
      <3>3. WholeCall(c)'
        BY <2>1, <2>3, <2>5, <3>2, StaysWhole DEF WholeCall
      <3>4. OneAnswer'
        BY <2>1, <3>2, NoNewAnswer DEF Running
      <3> QED BY <2>1, <3>2, <3>3, <3>4, FileStaysWhole, WholeStep
    <2> QED BY <2>4, <2>5
  <1>5. ASSUME NEW c \in Calls, ChildAnswers(c) PROVE WholeInv'
    <2>1. /\ call[c].at = "child" /\ pages' = pages /\ file' = file
          /\ overlapped' = overlapped /\ answers' = answers
      BY <1>5 DEF ChildAnswers
    <2>2. PICK x : x = NewBatch(c)
      OBVIOUS
    <2>3. PICK b : b = call[c].batches
      OBVIOUS
    <2>4. PICK t : t = Append(b, x)
      OBVIOUS
    <2>5. call' = [call EXCEPT ![c].at = "save", ![c].batches = t,
                               ![c].cursor = x.next, ![c].rows = x.last]
      BY <1>5, <2>2, <2>3, <2>4 DEF ChildAnswers
    <2>6. /\ Others(c) /\ call'[c].at = "save" /\ call'[c].batches = t
          /\ call'[c].made = call[c].made
      BY <1>0, <2>5 DEF Shape, Others, Fields
    <2>7. /\ b \in Seq(Batch) /\ Numbered(b) /\ call[c].made = <<>>
          /\ call[c].cursor = Len(b) + 1 /\ Len(b) < Len(pages)
          /\ pages[call[c].cursor] # 0 \/ HasMore(call[c].cursor)
      BY <1>0, <2>1, <2>3 DEF WholeCall, Sound
    <2>8. x \in Batch /\ x.child[2] = Len(b) + 1
      BY <2>1, <2>2, <2>3, OneMore DEF NewBatch
    <2>9. /\ t \in Seq(Batch) /\ Len(t) = Len(b) + 1 /\ Len(b) \in Nat /\ t[Len(b) + 1] = x
          /\ \A i \in 1..Len(b) : t[i] = b[i]
      BY <2>4, <2>7, <2>8, SeqTail
    <2>10. Numbered(t)
      <3>1. ASSUME NEW i \in 1..Len(t) PROVE t[i].child[2] = i
        <4>1. CASE i = Len(b) + 1
          BY <2>8, <2>9, <4>1
        <4>2. CASE i # Len(b) + 1
          <5>1. i \in 1..Len(b)
            BY <2>9, <4>2
          <5> QED BY <2>7, <2>9, <5>1 DEF Numbered
        <4> QED BY <4>1, <4>2
      <3> QED BY <3>1 DEF Numbered
    <2>11. NoEmptyEnd(t)
      <3>1. ASSUME Len(t) = Len(pages) PROVE pages[Len(pages)] # 0
        <4>1. call[c].cursor = Len(pages) /\ ~(Len(pages) < Len(pages))
          BY <1>0, <2>7, <2>9, <3>1
        <4> QED BY <2>7, <4>1 DEF HasMore
      <3> QED BY <3>1 DEF NoEmptyEnd
    <2>12. WholeCall(c)'
      BY <2>1, <2>6, <2>7, <2>10, <2>11, CallStaysWhole
    <2>13. OneAnswer'
      BY <2>1, <2>6, NoNewAnswer DEF Running
    <2> QED BY <2>1, <2>6, <2>12, <2>13, FileStaysWhole, WholeStep
  <1>6. ASSUME NEW c \in Calls, Save(c) PROVE WholeInv'
    <2>0. PICK b : b = call[c].batches
      OBVIOUS
    <2>1. /\ call[c].at = "save" /\ pages' = pages
          /\ file'.batches = b /\ file'.complete = Null
          /\ overlapped' = overlapped /\ answers' = answers
      BY <1>6, <2>0 DEF Save
    <2>2. /\ Others(c) /\ call'[c].batches = b /\ call'[c].made = call[c].made
          /\ call'[c].at = IF call[c].cursor = Null THEN "gather" ELSE "page"
      BY <1>0, <1>6, <2>0 DEF Save, Shape, Others, Fields
    <2>3. /\ b \in Seq(Batch) /\ Consecutive(b) /\ Numbered(b) /\ NoEmptyEnd(b)
          /\ call[c].made = <<>> /\ call[c].cursor = After(Len(b))
      BY <1>0, <2>0, <2>1 DEF WholeCall, Sound
    <2>4. call'[c].at \in {"gather", "page"}
      BY <2>2
    <2>5. call'[c].at = "gather" => Len(b) = WholeCount
      <3>1. ASSUME call'[c].at = "gather" PROVE Len(b) = WholeCount
        <4>1. After(Len(b)) = Null /\ Len(b) + 1 \in Nat
          BY <2>2, <2>3, <3>1
        <4>2. ~(Len(b) < Len(pages))
          BY <4>1, AnalysisAssumption DEF After, HasMore
        <4> QED BY <1>0, <2>3, <4>2, AllRead
      <3> QED BY <3>1
    <2>6. WholeCall(c)'
      BY <2>1, <2>2, <2>3, <2>4, <2>5, StaysWhole DEF WholeCall
    <2>7. WholeFile'
      BY <2>1, <2>3, StaysWhole DEF WholeFile
    <2>8. OneAnswer'
      BY <2>1, <2>2, <2>4, NoNewAnswer DEF Running
    <2> QED BY <2>1, <2>2, <2>6, <2>7, <2>8, WholeStep
  <1>7. ASSUME NEW c \in Calls, Gather(c) PROVE WholeInv'
    <2>0. PICK b : b = call[c].batches
      OBVIOUS
    <2>1. /\ call[c].at = "gather" /\ pages' = pages /\ file' = file
          /\ overlapped' = overlapped /\ answers' = answers
          /\ call' = [call EXCEPT ![c].at = "reduce", ![c].layer = Summaries(b)]
      BY <1>7, <2>0 DEF Gather
    <2>2. /\ Others(c) /\ call'[c].batches = b /\ call'[c].made = call[c].made
          /\ call'[c].at = "reduce" /\ call'[c].layer = Summaries(b)
      BY <1>0, <2>0, <2>1 DEF Shape, Others, Fields
    <2>3. /\ b \in Seq(Batch) /\ Numbered(b) /\ NoEmptyEnd(b)
          /\ call[c].made = <<>> /\ Len(b) = WholeCount
      BY <1>0, <2>0, <2>1 DEF WholeCall, Sound
    <2>4. Cuts(call'[c].batches, call'[c].made, call'[c].layer)
      BY <2>2, <2>3, FirstCuts
    <2>5. WholeCall(c)'
      BY <2>1, <2>2, <2>3, <2>4, StaysWhole DEF WholeCall
    <2>6. OneAnswer'
      BY <2>1, <2>2, NoNewAnswer DEF Running
    <2> QED BY <2>1, <2>2, <2>5, <2>6, FileStaysWhole, WholeStep
  <1>8. ASSUME NEW c \in Calls, Reduce(c) PROVE WholeInv'
    <2>0. PICK b, made, layer : b = call[c].batches /\ made = call[c].made /\ layer = call[c].layer
      OBVIOUS
    <2>1. /\ call[c].at = "reduce" /\ pages' = pages /\ file' = file
          /\ overlapped' = overlapped /\ answers' = answers
          /\ Len(layer) + Len(made) > 1
      BY <1>8, <2>0 DEF Reduce
    <2>2. PICK m, rest : m = Append(made, FlattenSeq(Group(layer))) /\ rest = Rest(layer)
      OBVIOUS
    <2>3. call' = [call EXCEPT ![c].layer = IF rest = <<>> THEN m ELSE rest,
                               ![c].made = IF rest = <<>> THEN <<>> ELSE m]
      BY <1>8, <2>0, <2>2 DEF Reduce
    <2>4. /\ Others(c) /\ call'[c].batches = b /\ call'[c].at = "reduce"
          /\ call'[c].layer = IF rest = <<>> THEN m ELSE rest
          /\ call'[c].made = IF rest = <<>> THEN <<>> ELSE m
      BY <1>0, <2>0, <2>1, <2>3 DEF Shape, Others, Fields
    <2>5. /\ b \in Seq(Batch) /\ Numbered(b) /\ NoEmptyEnd(b) /\ Len(b) = WholeCount
          /\ Cuts(b, made, layer)
      BY <1>0, <2>0, <2>1 DEF WholeCall, Sound
    <2>6. layer # <<>>
      <3>1. layer = <<>> => made = <<>>
        BY <2>5 DEF Cuts
      <3> QED BY <2>1, <3>1
    <2>7. Cuts(call'[c].batches, call'[c].made, call'[c].layer)
      BY <2>2, <2>4, <2>5, <2>6, GroupCuts
    <2>8. WholeCall(c)'
      BY <2>1, <2>4, <2>5, <2>7, StaysWhole DEF WholeCall
    <2>9. OneAnswer'
      BY <2>1, <2>4, NoNewAnswer DEF Running
    <2> QED BY <2>1, <2>4, <2>8, <2>9, FileStaysWhole, WholeStep
  <1>9. ASSUME NEW c \in Calls, Finish(c) PROVE WholeInv'
    <2>0. PICK x : x = Answer(c)
      OBVIOUS
    <2>1. /\ call[c].at = "reduce" /\ pages' = pages
          /\ file'.batches = call[c].batches /\ file'.complete = x
          /\ overlapped' = overlapped /\ answers' = answers \cup {x}
          /\ Len(call[c].layer) + Len(call[c].made) <= 1
          /\ call' = [call EXCEPT ![c].at = "done"]
      BY <1>9, <2>0 DEF Finish
    <2>2. Others(c) /\ call'[c].batches = call[c].batches /\ call'[c].at = "done"
      BY <1>0, <2>1, Moves DEF Reads
    <2>3. WholeAnswer(x)
      BY <1>0, <2>0, <2>1, AnswersWhole
    <2>4. Numbered(call[c].batches) /\ NoEmptyEnd(call[c].batches)
      BY <1>0 DEF WholeCall
    <2>5. WholeFile'
      BY <2>1, <2>3, <2>4, StaysWhole DEF WholeFile
    <2>6. WholeCall(c)'
      BY <2>1, <2>2, <2>4, CallStaysWhole
    <2>7. ASSUME NEW d \in Calls PROVE WholeCall(d)'
      <3>1. CASE d # c
        <4>1. call'[d] = call[d] /\ WholeCall(d)
          BY <1>0, <2>2, <3>1 DEF Others
        <4> QED BY <2>1, <4>1, StaysWhole DEF WholeCall
      <3> QED BY <2>6, <3>1
    <2>8. \A a \in answers' : WholeAnswer(a)'
      BY <2>1, <2>3, StaysWhole DEF WholeInv
    <2>9. OneAnswer'
      <3>1. Running(c)
        BY <2>1 DEF Running
      <3>2. ~overlapped => answers = {} /\ \A d \in Calls : ~Running(d)'
        <4>1. ASSUME ~overlapped PROVE answers = {} /\ \A d \in Calls : ~Running(d)'
          <5>1. ASSUME NEW d \in Calls, d # c PROVE ~Running(d)'
            BY <2>2, <3>1, <4>1, <5>1 DEF ProgressInv, Progress, Others, Running
          <5>2. ~Running(c)'
            BY <2>2 DEF Running
          <5> QED BY <1>0, <3>1, <4>1, <5>1, <5>2 DEF OneAnswer
        <4> QED BY <4>1
      <3>3. call'[c].at # "idle"
        BY <2>2
      <3> QED BY <2>1, <3>2, <3>3 DEF OneAnswer
    <2> QED BY <2>5, <2>7, <2>8, <2>9 DEF WholeInv
  <1>10. ASSUME NEW c \in Calls, Fail(c) PROVE WholeInv'
    <2>0. PICK r : r = [Idle EXCEPT !.at = "failed"]
      OBVIOUS
    <2>1. /\ call' = [call EXCEPT ![c] = r] /\ pages' = pages /\ file' = file /\ Running(c)
          /\ overlapped' = overlapped /\ answers' = answers
      BY <1>10, <2>0 DEF Fail
    <2>2. DOMAIN r = Fields /\ r.at = "failed" /\ r.batches = <<>> /\ r.made = <<>>
      BY <2>0 DEF Idle, Fields
    <2>3. Others(c) /\ call'[c] = r
      BY <1>0, <2>1, <2>2, Set
    <2>4. WholeCall(c)'
      BY <1>0, <2>1, <2>2, <2>3, EmptyFits, CallStaysWhole
    <2>5. OneAnswer'
      BY <2>1, <2>2, <2>3, NoNewAnswer
    <2> QED BY <2>1, <2>3, <2>4, <2>5, FileStaysWhole, WholeStep
  <1>11. CASE Crash
    <2>0. PICK r : r = [Idle EXCEPT !.at = "failed"]
      OBVIOUS
    <2>1. r.at = "failed" /\ r.batches = <<>> /\ r.made = <<>>
      BY <2>0 DEF Idle
    <2>2. /\ call' = [c \in Calls |-> IF Running(c) THEN r ELSE call[c]]
          /\ pages' = pages /\ file' = file /\ \E c \in Calls : Running(c)
          /\ overlapped' = overlapped /\ answers' = answers
      BY <1>11, <2>0 DEF Crash
    <2>3. ASSUME NEW c \in Calls PROVE WholeCall(c)'
      <3>1. CASE Running(c)
        <4>1. call'[c] = r
          BY <2>2, <3>1
        <4> QED BY <1>0, <2>1, <2>2, <4>1, EmptyFits, CallStaysWhole
      <3>2. CASE ~Running(c)
        <4>1. call'[c] = call[c] /\ WholeCall(c)
          BY <1>0, <2>2, <3>2
        <4> QED BY <2>2, <4>1, StaysWhole DEF WholeCall
      <3> QED BY <3>1, <3>2
    <2>4. OneAnswer'
      <3>1. \A c \in Calls : ~Running(c)'
        BY <2>1, <2>2 DEF Running
      <3>2. PICK c \in Calls : Running(c)
        BY <2>2
      <3>3. call'[c].at # "idle"
        BY <2>1, <2>2, <3>2
      <3> QED BY <1>0, <2>2, <3>1, <3>3 DEF OneAnswer
    <2>5. \A a \in answers' : WholeAnswer(a)'
      BY <2>2, StaysWhole DEF WholeInv
    <2> QED BY <2>2, <2>3, <2>4, <2>5, FileStaysWhole DEF WholeInv
  <1>12. CASE UNCHANGED vars
    <2>1. pages' = pages /\ file' = file /\ call' = call /\ answers' = answers /\ overlapped' = overlapped
      BY <1>12 DEF vars
    <2>2. \A c \in Calls : WholeCall(c)'
      BY <1>0, <2>1, StaysWhole DEF WholeCall
    <2>3. OneAnswer'
      BY <1>0, <2>1 DEF OneAnswer, Running
    <2>4. \A a \in answers' : WholeAnswer(a)'
      BY <2>1, StaysWhole DEF WholeInv
    <2> QED BY <2>1, <2>2, <2>3, <2>4, FileStaysWhole DEF WholeInv
  <1> QED BY <1>1, <1>2, <1>3, <1>4, <1>5, <1>6, <1>7, <1>8, <1>9, <1>10, <1>11, <1>12 DEF Next, Step

(* An answer speaks of every row: for every query result, group size and     *)
(* number of calls, whoever failed or resumed, it counts all rows and is     *)
(* reduced from the summary of every page, each exactly once and in order;   *)
(* and unless two calls overlapped, whoever asks is given the same one       *)
(* (index.ts:386-406).                                                       *)
THEOREM AnswersAreWhole == Spec => []AnswerIsWhole
  <1>1. Init => SoundInv /\ ProgressInv /\ WholeInv
    BY SoundInit, ProgressInit, WholeInit
  <1>2. SoundInv /\ ProgressInv /\ WholeInv /\ [Next]_vars => (SoundInv /\ ProgressInv /\ WholeInv)'
    BY SoundNext, ProgressNext, WholeNext
  <1>3. WholeInv => AnswerIsWhole
    BY DEF WholeInv, OneAnswer, WholeAnswer, AnswerIsWhole
  <1> QED BY <1>1, <1>2, <1>3, PTL DEF Spec

-----------------------------------------------------------------------------
(* Types *)

Call == [at : States, batches : Seq(Batch), cursor : Nat \cup {Null}, rows : Nat,
         layer : Seq(Seq(Calls \X Nat)), made : Seq(Seq(Calls \X Nat))]

LEMMA LayerTypes ==
  ASSUME NEW b \in Seq(Batch), NEW made, NEW layer, Cuts(b, made, layer), layer # <<>>
  PROVE  /\ Append(made, FlattenSeq(Group(layer))) \in Seq(Seq(Calls \X Nat))
         /\ Rest(layer) \in Seq(Seq(Calls \X Nat))
  <1>1. PICK m, rest : m = Append(made, FlattenSeq(Group(layer))) /\ rest = Rest(layer)
    OBVIOUS
  <1>2. /\ rest # <<>> => Cuts(b, m, rest)
        /\ rest = <<>> => Cuts(b, <<>>, m)
    BY <1>1, GroupCuts
  <1>3. PICK S : S = Seq(Calls \X Nat)
    OBVIOUS
  <1>4. <<>> \in Seq(S)
    OBVIOUS
  <1>5. m \in Seq(S) /\ rest \in Seq(S)
    BY <1>2, <1>3, <1>4 DEF Cuts
  <1> QED BY <1>1, <1>3, <1>5

LEMMA TypeInit == Init => TypeOK
  <1> SUFFICES ASSUME Init PROVE TypeOK
    OBVIOUS
  <1>1. Idle \in Call
    BY DEF Idle, Call, States
  <1>2. call \in [Calls -> Call]
    BY <1>1 DEF Init
  <1> QED BY <1>2 DEF Init, TypeOK, Call, States

LEMMA MovesTyped ==
  ASSUME call \in [Calls -> Call], NEW c \in Calls, NEW v \in States,
         call' = [call EXCEPT ![c].at = v]
  PROVE  call' \in [Calls -> Call]
  <1>1. PICK r : r = [call[c] EXCEPT !.at = v]
    OBVIOUS
  <1>2. call[c] \in Call
    OBVIOUS
  <1>3. r \in Call
    BY <1>1, <1>2 DEF Call
  <1>4. call' = [call EXCEPT ![c] = r]
    BY <1>1, <1>2 DEF Call
  <1> HIDE DEF Call
  <1> QED BY <1>3, <1>4

LEMMA FailedTyped == [Idle EXCEPT !.at = "failed"] \in Call
  <1>1. Idle \in Call
    BY DEF Idle, Call, States
  <1>2. "failed" \in States
    BY DEF States
  <1> QED BY <1>1, <1>2 DEF Call

(* A step that gives one call a new record, and does not write the file.     *)
LEMMA CallTyped ==
  ASSUME TypeOK, NEW c \in Calls, NEW r \in Call, call' = [call EXCEPT ![c] = r],
         pages' = pages, file' = file, answers' = answers, overlapped' \in BOOLEAN
  PROVE  TypeOK'
  <1>1. call' \in [Calls -> Call]
    BY DEF TypeOK, Call, States
  <1> QED BY <1>1 DEF TypeOK, Call, States

LEMMA TypeNext == SoundInv /\ WholeInv /\ TypeOK /\ [Next]_vars => TypeOK'
  <1> SUFFICES ASSUME SoundInv, WholeInv, TypeOK, [Next]_vars PROVE TypeOK'
    OBVIOUS
  <1>0. /\ call \in [Calls -> Call] /\ pages \in Results /\ pages \in Seq(Nat) /\ pages # <<>>
        /\ answers \subseteq AnswerType /\ overlapped \in BOOLEAN
        /\ \A c \in Calls : call[c] \in Call /\ Sound(c) /\ WholeCall(c)
    BY DEF TypeOK, SoundInv, WholeInv, Call, States
  <1>1. ASSUME NEW c \in Calls, Start(c) PROVE TypeOK'
    <2>1. PICK r : r = [call[c] EXCEPT !.at = "create", !.cursor = 1]
      OBVIOUS
    <2>2. r \in Call
      BY <1>0, <2>1 DEF Call, States
    <2>3. call' = [call EXCEPT ![c] = r] /\ UNCHANGED <<pages, file, answers>>
      BY <1>0, <1>1, <2>1 DEF Start, Call
    <2>4. overlapped' \in BOOLEAN
      BY <1>1 DEF Start, Begins
    <2> QED BY <2>2, <2>3, <2>4, CallTyped
  <1>2. ASSUME NEW c \in Calls, Resume(c) PROVE TypeOK'
    <2>0. file # NoFile /\ overlapped' \in BOOLEAN /\ pages' = pages /\ file' = file
      BY <1>2 DEF Resume, Begins
    <2>1. file \in [batches : Seq(Batch), complete : AnswerType \cup {Null}]
      BY <2>0 DEF TypeOK
    <2>2. CASE Finished
      <3>1. /\ call' = [call EXCEPT ![c].at = "done"] /\ answers' = answers \cup {file.complete}
            /\ file.complete # Null
        BY <1>2, <2>2 DEF Resume, Finished
      <3>2. call' \in [Calls -> Call]
        BY <1>0, <3>1, MovesTyped DEF States
      <3>3. answers' \subseteq AnswerType
        BY <1>0, <2>1, <3>1
      <3> QED BY <1>0, <2>0, <2>1, <3>2, <3>3 DEF TypeOK, Call, States
    <2>3. CASE ~Finished
      <3>1. PICK b : b = file.batches
        OBVIOUS
      <3>2. b \in Seq(Batch) /\ RowsOf(b) \in Nat /\ CursorOf(b) \in Nat \cup {Null}
        <4>1. b \in Seq(Batch) /\ RowsOf(b) \in Nat
          BY <2>0, <2>1, <3>1, ResumedIsSound
        <4>2. Len(b) + 1 \in Nat
          BY <4>1
        <4> QED BY <2>0, <3>1, <4>1, <4>2, ResumedIsSound
      <3>3. PICK v : v = IF CursorOf(b) = Null THEN "gather" ELSE "page"
        OBVIOUS
      <3>4. PICK r : r = [Idle EXCEPT !.at = v, !.batches = b, !.cursor = CursorOf(b),
                                      !.rows = RowsOf(b)]
        OBVIOUS
      <3>5. r = [at |-> v, batches |-> b, cursor |-> CursorOf(b), rows |-> RowsOf(b),
                 layer |-> <<>>, made |-> <<>>]
        BY <3>4 DEF Idle
      <3>6. v \in States
        BY <3>3 DEF States
      <3>7. r \in Call
        BY <3>2, <3>5, <3>6 DEF Call
      <3>8. call' = [call EXCEPT ![c] = r] /\ answers' = answers
        BY <1>2, <2>3, <3>1, <3>3, <3>4 DEF Resume
      <3> QED BY <2>0, <3>7, <3>8, CallTyped
    <2> QED BY <2>2, <2>3
  <1>3. ASSUME NEW c \in Calls, Create(c) PROVE TypeOK'
    <2>1. /\ call' = [call EXCEPT ![c].at = "page"]
          /\ file' = [batches |-> <<>>, complete |-> Null]
          /\ UNCHANGED <<pages, answers, overlapped>>
      BY <1>3 DEF Create
    <2>2. call' \in [Calls -> Call]
      BY <1>0, <2>1, MovesTyped DEF States
    <2>3. file' \in [batches : Seq(Batch), complete : AnswerType \cup {Null}]
      BY <2>1
    <2> QED BY <1>0, <2>1, <2>2, <2>3 DEF TypeOK, Call, States
  <1>4. ASSUME NEW c \in Calls, ReadPage(c) PROVE TypeOK'
    <2>1. UNCHANGED <<pages, file, answers, overlapped>>
      BY <1>4 DEF ReadPage
    <2>2. CASE call' = [call EXCEPT ![c].cursor = Null, ![c].at = "gather"]
      <3>1. PICK r : r = [call[c] EXCEPT !.cursor = Null, !.at = "gather"]
        OBVIOUS
      <3>2. r \in Call
        BY <1>0, <3>1 DEF Call, States
      <3>3. call' = [call EXCEPT ![c] = r]
        BY <1>0, <2>2, <3>1 DEF Call
      <3> QED BY <1>0, <2>1, <3>2, <3>3, CallTyped
    <2>3. CASE call' = [call EXCEPT ![c].at = "child"]
      <3>1. call' \in [Calls -> Call]
        BY <1>0, <2>3, MovesTyped DEF States
      <3> QED BY <1>0, <2>1, <3>1 DEF TypeOK, Call, States
    <2> QED BY <1>4, <2>2, <2>3 DEF ReadPage
  <1>5. ASSUME NEW c \in Calls, ChildAnswers(c) PROVE TypeOK'
    <2>1. PICK x : x = NewBatch(c)
      OBVIOUS
    <2>2. call[c].at = "child" /\ UNCHANGED <<pages, file, answers, overlapped>>
      BY <1>5 DEF ChildAnswers
    <2>3. x \in Batch /\ x.last \in Nat /\ x.next \in Nat \cup {Null}
      BY <2>1, <2>2, OneMore DEF Batch
    <2>4. PICK t : t = Append(call[c].batches, x)
      OBVIOUS
    <2>5. t \in Seq(Batch)
      BY <1>0, <2>3, <2>4, SeqTail DEF Sound
    <2>6. call' = [call EXCEPT ![c].at = "save", ![c].batches = t,
                               ![c].cursor = x.next, ![c].rows = x.last]
      BY <1>5, <2>1, <2>4 DEF ChildAnswers
    <2>7. PICK r : r = [call[c] EXCEPT !.at = "save", !.batches = t,
                                       !.cursor = x.next, !.rows = x.last]
      OBVIOUS
    <2>8. r \in Call
      BY <1>0, <2>3, <2>5, <2>7 DEF Call, States
    <2>9. call' = [call EXCEPT ![c] = r]
      BY <1>0, <2>6, <2>7 DEF Call
    <2> QED BY <1>0, <2>2, <2>8, <2>9, CallTyped
  <1>6. ASSUME NEW c \in Calls, Save(c) PROVE TypeOK'
    <2>1. /\ file' = [batches |-> call[c].batches, complete |-> Null]
          /\ UNCHANGED <<pages, answers, overlapped>>
      BY <1>6 DEF Save
    <2>4. PICK v : v = IF call[c].cursor = Null THEN "gather" ELSE "page"
      OBVIOUS
    <2>5. call' = [call EXCEPT ![c].at = v] /\ v \in States
      BY <1>6, <2>4 DEF Save, States
    <2>2. call' \in [Calls -> Call]
      BY <1>0, <2>5, MovesTyped
    <2>3. file' \in [batches : Seq(Batch), complete : AnswerType \cup {Null}]
      BY <1>0, <2>1 DEF Sound
    <2> QED BY <1>0, <2>1, <2>2, <2>3 DEF TypeOK, Call, States
  <1>7. ASSUME NEW c \in Calls, Gather(c) PROVE TypeOK'
    <2>1. PICK b, q : b = call[c].batches /\ q = Summaries(b)
      OBVIOUS
    <2>2. b \in Seq(Batch) /\ q \in Seq(Seq(Calls \X Nat))
      <3>1. b \in Seq(Batch)
        BY <1>0, <2>1 DEF Sound
      <3>2. Cuts(b, <<>>, q)
        BY <2>1, <3>1, FirstCuts
      <3> QED BY <3>1, <3>2 DEF Cuts
    <2>3. call' = [call EXCEPT ![c].at = "reduce", ![c].layer = q]
          /\ UNCHANGED <<pages, file, answers, overlapped>>
      BY <1>7, <2>1 DEF Gather
    <2>4. PICK r : r = [call[c] EXCEPT !.at = "reduce", !.layer = q]
      OBVIOUS
    <2>5. r \in Call
      BY <1>0, <2>2, <2>4 DEF Call, States
    <2>6. call' = [call EXCEPT ![c] = r]
      BY <1>0, <2>3, <2>4 DEF Call
    <2> QED BY <1>0, <2>3, <2>5, <2>6, CallTyped
  <1>8. ASSUME NEW c \in Calls, Reduce(c) PROVE TypeOK'
    <2>0. PICK b, made, layer : b = call[c].batches /\ made = call[c].made /\ layer = call[c].layer
      OBVIOUS
    <2>1. b \in Seq(Batch) /\ Cuts(b, made, layer) /\ Len(layer) + Len(made) > 1
      BY <1>0, <1>8, <2>0 DEF Reduce, WholeCall, Sound
    <2>2. layer # <<>>
      <3>1. layer = <<>> => made = <<>>
        BY <2>1 DEF Cuts
      <3> QED BY <2>1, <3>1
    <2>3. PICK m, rest : m = Append(made, FlattenSeq(Group(layer))) /\ rest = Rest(layer)
      OBVIOUS
    <2>4. m \in Seq(Seq(Calls \X Nat)) /\ rest \in Seq(Seq(Calls \X Nat))
      BY <2>1, <2>2, <2>3, LayerTypes
    <2>5. PICK u, w : u = (IF rest = <<>> THEN m ELSE rest) /\ w = (IF rest = <<>> THEN <<>> ELSE m)
      OBVIOUS
    <2>6. u \in Seq(Seq(Calls \X Nat)) /\ w \in Seq(Seq(Calls \X Nat))
      BY <2>4, <2>5
    <2>7. call' = [call EXCEPT ![c].layer = u, ![c].made = w]
          /\ UNCHANGED <<pages, file, answers, overlapped>>
      BY <1>8, <2>0, <2>3, <2>5 DEF Reduce
    <2>8. PICK r : r = [call[c] EXCEPT !.layer = u, !.made = w]
      OBVIOUS
    <2>9. r \in Call
      BY <1>0, <2>6, <2>8 DEF Call
    <2>10. call' = [call EXCEPT ![c] = r]
      BY <1>0, <2>7, <2>8 DEF Call
    <2> QED BY <1>0, <2>7, <2>9, <2>10, CallTyped
  <1>9. ASSUME NEW c \in Calls, Finish(c) PROVE TypeOK'
    <2>1. PICK x : x = Answer(c)
      OBVIOUS
    <2>2. /\ file' = [batches |-> call[c].batches, complete |-> x]
          /\ answers' = answers \cup {x} /\ pages' = pages /\ overlapped' = overlapped
          /\ call' = [call EXCEPT ![c].at = "done"]
          /\ call[c].at = "reduce" /\ Len(call[c].layer) + Len(call[c].made) <= 1
      BY <1>9, <2>1 DEF Finish
    <2>3. x \in AnswerType
      BY <1>0, <2>1, <2>2, AnswersWhole DEF WholeAnswer
    <2>4. call' \in [Calls -> Call]
      BY <1>0, <2>2, MovesTyped DEF States
    <2>5. file' \in [batches : Seq(Batch), complete : AnswerType \cup {Null}]
      BY <1>0, <2>2, <2>3 DEF Sound
    <2> QED BY <1>0, <2>2, <2>3, <2>4, <2>5 DEF TypeOK, Call, States
  <1>10. ASSUME NEW c \in Calls, Fail(c) PROVE TypeOK'
    <2>1. PICK r : r = [Idle EXCEPT !.at = "failed"]
      OBVIOUS
    <2>2. r \in Call
      BY <2>1, FailedTyped
    <2>3. call' = [call EXCEPT ![c] = r] /\ UNCHANGED <<pages, file, answers, overlapped>>
      BY <1>10, <2>1 DEF Fail
    <2> QED BY <1>0, <2>2, <2>3, CallTyped
  <1>11. CASE Crash
    <2>1. PICK r : r = [Idle EXCEPT !.at = "failed"]
      OBVIOUS
    <2>2. r \in Call
      BY <2>1, FailedTyped
    <2>3. /\ call' = [c \in Calls |-> IF Running(c) THEN r ELSE call[c]]
          /\ UNCHANGED <<pages, file, answers, overlapped>>
      BY <1>11, <2>1 DEF Crash
    <2>4. call' \in [Calls -> Call]
      BY <1>0, <2>2, <2>3
    <2> QED BY <1>0, <2>3, <2>4 DEF TypeOK, Call, States
  <1>12. CASE UNCHANGED vars
    BY <1>12 DEF vars, TypeOK
  <1> QED BY <1>1, <1>2, <1>3, <1>4, <1>5, <1>6, <1>7, <1>8, <1>9, <1>10, <1>11, <1>12 DEF Next, Step

(* The types of the analysis: checkpoints, answers and the layers of the     *)
(* reduction, which are made by flattening groups (index.ts:386-406).        *)
THEOREM AnalysisTypes == Spec => []TypeOK
  <1>1. Init => SoundInv /\ ProgressInv /\ WholeInv /\ TypeOK
    BY SoundInit, ProgressInit, WholeInit, TypeInit
  <1>2. SoundInv /\ ProgressInv /\ WholeInv /\ TypeOK /\ [Next]_vars
          => (SoundInv /\ ProgressInv /\ WholeInv /\ TypeOK)'
    BY SoundNext, ProgressNext, WholeNext, TypeNext
  <1> QED BY <1>1, <1>2, PTL DEF Spec
=============================================================================
