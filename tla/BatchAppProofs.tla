--------------------------- MODULE BatchAppProofs ---------------------------
(***************************************************************************)
(* Proofs about BatchApp, for streams of any length, batches and blocks of *)
(* any size, and frames of any geometry.                                   *)
(*                                                                         *)
(* First how main counts: where it is in the stream, how many batches are  *)
(* done and what has been saved always fit together.  Then what the        *)
(* kernels do to the slots of a batch.                                     *)
(***************************************************************************)
EXTENDS BatchApp, FiniteSetTheorems, TLAPS

Task == {"copy", "preprocess", "infer", "postprocess", "show", "reset"}

\* What the command line and the stream say.
Options ==
  /\ source \in {"IMAGE", "VIDEO", "CAMERA"}
  /\ delivered \in 0 .. MaxFrames /\ announced \in Nat
  /\ geometry \in Geometries
  /\ batch_size \in Lengths /\ (source = "IMAGE" => batch_size = 1)
  /\ is_show \in BOOLEAN
  /\ total_batches = TotalBatches(source, announced, batch_size)

\* The numbers main keeps and the batch it collects.
Counters ==
  /\ pc \in Steps
  /\ batchi \in Nat /\ read \in Nat /\ last \in BOOLEAN
  /\ imgs_batch \in Seq(Frames) /\ Len(imgs_batch) <= batch_size

\* main is in task() with a batch that is full or the last one and that the
\* stream was meant to have; it leaves the loop with none.
Flow ==
  /\ pc \in {"open", "loop"} => ~last
  /\ pc = "open" => imgs_batch = <<>>
  /\ pc \in Task => (Len(imgs_batch) = batch_size \/ last) /\ ~AllBatchesDone
  /\ pc = "loop" /\ imgs_batch # <<>> => ~AllBatchesDone
  /\ pc = "exit" => imgs_batch = <<>> /\ (last \/ AllBatchesDone)
  /\ last => read = delivered /\ (source = "IMAGE" => delivered = 0)

\* The batch holds the frames read last, in order; those before it filled
\* batchi batches; main never reads beyond the last batch.
Counts ==
  /\ Len(imgs_batch) <= read /\ read <= delivered
  /\ \A i \in DOMAIN imgs_batch : imgs_batch[i] = read - Len(imgs_batch) + i
  /\ ~(pc = "exit" /\ last) => read - Len(imgs_batch) = batchi * batch_size
  /\ source # "CAMERA" => /\ batchi <= total_batches
                          /\ read <= total_batches * batch_size

\* How many frames have been saved.
SavedFrames == IF pc = "reset" THEN read ELSE read - Len(imgs_batch)

\* They are the first of the stream, each under its number.
Saved ==
  /\ DOMAIN files = 0 .. SavedFrames - 1
  /\ \A k \in DOMAIN files : files[k].frame = k + 1

\* A sequence, of whatever it is.
IsSequence(q) == q \in Seq({q[i] : i \in DOMAIN q})

\* And they have been shown in that order.
Shown ==
  /\ IsSequence(window)
  /\ is_show => /\ Len(window) = SavedFrames
                /\ \A i \in DOMAIN window : window[i].frame = i

CountInv == Options /\ Counters /\ Flow /\ Counts /\ Saved /\ Shown

-----------------------------------------------------------------------------
(* Arithmetic. *)

\* A number is its quotient times the divisor and its remainder.
LEMMA Remainder ==
  ASSUME NEW a \in Nat, NEW m \in Nat, m > 0
  PROVE  a = (a \div m) * m + (a % m)
  OBVIOUS

\* Division by a length rounds down.
LEMMA Division ==
  ASSUME NEW a \in Nat, NEW m \in Lengths
  PROVE  /\ a \div m \in Nat /\ a % m \in 0 .. m - 1
         /\ a = (a \div m) * m + (a % m)
<1>1. m \in Nat /\ m > 0
  BY DEF Lengths
<1>2. a \div m \in Nat
  BY <1>1
<1>3. a % m \in 0 .. m - 1
  BY <1>1
<1> QED
  BY <1>1, <1>2, <1>3, Remainder

\* A product grows by its factor.
LEMMA NextMultiple ==
  ASSUME NEW n \in Nat, NEW m \in Nat
  PROVE  n * m \in Nat /\ (n + 1) * m = n * m + m
  OBVIOUS

\* And keeps the order.
LEMMA MultiplesInOrder ==
  ASSUME NEW n \in Nat, NEW k \in Nat, NEW m \in Nat, n <= k
  PROVE  n * m <= k * m
  OBVIOUS

\* Batches that are not all there leave something of what was announced.
LEMMA RoundedUp ==
  ASSUME NEW n \in Nat, NEW m \in Lengths, NEW k \in Nat, k < Ceil(n, m)
  PROVE  k * m < n
<1> DEFINE q == Ceil(n, m)
<1>1. n + m - 1 \in Nat
  BY DEF Lengths
<1>2. q \in Nat /\ q * m <= n + m - 1
  BY <1>1, Division DEF Ceil, Lengths
<1> HIDE DEF q
<1>3. (k + 1) * m <= q * m
  BY <1>2, MultiplesInOrder DEF q, Lengths
<1>4. (k + 1) * m = k * m + m /\ k * m \in Nat
  BY NextMultiple DEF Lengths
<1> QED
  BY <1>2, <1>3, <1>4 DEF Lengths

-----------------------------------------------------------------------------
(* Sequences. *)

\* What is joined to a sequence comes after its elements, which keep their place.
LEMMA Joined ==
  ASSUME NEW A, NEW B, NEW q \in Seq(A), NEW r \in Seq(B)
  PROVE  /\ q \o r \in Seq(A \cup B) /\ Len(q \o r) = Len(q) + Len(r)
         /\ \A i \in 1 .. Len(q) : (q \o r)[i] = q[i]
         /\ \A i \in 1 .. Len(r) : (q \o r)[Len(q) + i] = r[i]
  OBVIOUS

\* A sequence is one of its own elements.
LEMMA OwnElements ==
  ASSUME NEW A, NEW q \in Seq(A)
  PROVE  IsSequence(q)
  BY DEF IsSequence

\* Of two numbers the smaller.
LEMMA MinOfTwo ==
  ASSUME NEW n \in Nat, NEW k \in Nat
  PROVE  Min({n, k}) = IF n <= k THEN n ELSE k
  BY DEF Min

\* A stretch of the naturals from 0 has as many elements as its bound.
LEMMA HowMany ==
  ASSUME NEW n \in Nat
  PROVE  Cardinality(0 .. n - 1) = n
  BY FS_Interval

-----------------------------------------------------------------------------
(* How main counts. *)

LEMMA TotalIsNumber ==
  ASSUME Options PROVE total_batches \in Nat
<1>1. Ceil(announced, batch_size) \in Nat
  BY Division, announced + batch_size - 1 \in Nat DEF Options, Ceil, Lengths
<1> QED
  BY <1>1, AppAssumption DEF Options, TotalBatches, AppAssumption, Lengths

LEMMA InitCounts == Init => CountInv
<1> SUFFICES ASSUME Init PROVE CountInv
  OBVIOUS
<1>1. Options
  BY AppAssumption DEF Init, Options, AppAssumption, Lengths
<1>2. total_batches \in Nat /\ batch_size \in Nat
  BY <1>1, TotalIsNumber DEF Options, Lengths
<1>3. Counters
  <2>1. imgs_batch = <<>> /\ pc = "open" /\ batchi = 0 /\ read = 0 /\ last = FALSE
    BY DEF Init
  <2>2. imgs_batch \in Seq(Frames) /\ Len(imgs_batch) = 0
    BY <2>1
  <2>3. last \in BOOLEAN
    BY <2>1
  <2> QED
    BY <2>1, <2>2, <2>3, <1>2 DEF Counters, Steps
<1>4. Flow
  BY DEF Init, Flow, Task
<1>5. Counts
  BY <1>1, <1>2, NextMultiple DEF Init, Counts, Options
<1>6. Saved
  BY DEF Init, Saved, SavedFrames
<1>7. Shown
  <2>1. window = <<>> /\ imgs_batch = <<>> /\ read = 0 /\ pc = "open"
    BY DEF Init
  <2>2. window \in Seq({}) /\ Len(window) = 0 /\ DOMAIN window = {}
    BY <2>1
  <2>3. SavedFrames = 0
    <3>1. Len(imgs_batch) = 0
      BY <2>1
    <3>2. read = 0 /\ pc # "reset"
      BY <2>1
    <3> QED
      BY <3>1, <3>2 DEF SavedFrames
  <2>4. IsSequence(window)
    BY <2>2, OwnElements
  <2> QED
    BY <2>2, <2>3, <2>4 DEF Shown
<1> QED
  BY <1>1, <1>3, <1>4, <1>5, <1>6, <1>7 DEF CountInv

LEMMA OptionsStay ==
  ASSUME Options, UNCHANGED optionVars
  PROVE  Options'
  BY DEF Options, optionVars

\* Steps that take main somewhere else and change nothing it counts with.
LEMMA NothingCounted ==
  ASSUME CountInv, UNCHANGED <<optionVars, loopVars, resultVars>>,
         pc \notin {"reset", "exit"}, pc' \in Steps \ {"reset"}, Flow'
  PROVE  CountInv'
<1>1. Options'
  BY OptionsStay DEF CountInv
<1>2. Counters'
  BY DEF CountInv, Counters, optionVars, loopVars
<1>3. Counts'
  BY DEF CountInv, Counts, optionVars, loopVars
<1>4. SavedFrames' = SavedFrames
  BY DEF SavedFrames, loopVars
<1>5. Saved'
  BY <1>4 DEF CountInv, Saved, resultVars
<1>6. Shown'
  BY <1>4 DEF CountInv, Shown, resultVars, optionVars
<1> QED
  BY <1>1, <1>2, <1>3, <1>5, <1>6 DEF CountInv

LEMMA OpenBreakFullCount ==
  ASSUME CountInv, Open \/ Break \/ Full
  PROVE  CountInv'
<1>1. UNCHANGED <<optionVars, loopVars, resultVars>>
  BY DEF Open, Break, Full, Goto
<1>2. pc \notin {"reset", "exit"} /\ pc' \in Steps \ {"reset"}
  BY DEF Open, Break, Full, Goto, Steps
<1> USE DEF CountInv, Flow, Goto, AllBatchesDone, Task, optionVars, loopVars
<1>3. CASE Open
  <2>1. Flow'
    BY <1>3 DEF Open
  <2> QED
    BY <1>1, <1>2, <2>1, NothingCounted
<1>4. CASE Break
  <2>1. Flow'
    BY <1>4 DEF Break
  <2> QED
    BY <1>1, <1>2, <2>1, NothingCounted
<1>5. CASE Full
  <2>1. Flow'
    BY <1>5 DEF Full
  <2> QED
    BY <1>1, <1>2, <2>1, NothingCounted
<1> QED
  BY <1>3, <1>4, <1>5

LEMMA TaskCounts ==
  ASSUME CountInv, Copy \/ Preprocess \/ Infer \/ Postprocess \/ ShowEmpty
  PROVE  CountInv'
<1>1. UNCHANGED <<optionVars, loopVars, resultVars>>
  BY DEF Copy, Preprocess, Infer, Postprocess, ShowEmpty
<1>2. /\ pc \in {"copy", "preprocess", "infer", "postprocess", "show"}
      /\ pc' \in {"preprocess", "infer", "postprocess", "show", "crashed"}
  BY DEF Copy, Preprocess, Infer, Postprocess, ShowEmpty, Goto
<1>3. pc \notin {"reset", "exit"} /\ pc' \in Steps \ {"reset"}
  BY <1>2 DEF Steps
<1>4. Flow'
  BY <1>1, <1>2 DEF CountInv, Flow, AllBatchesDone, Task, optionVars, loopVars
<1> QED
  BY <1>1, <1>3, <1>4, NothingCounted

LEMMA NoMoreCounts ==
  ASSUME CountInv, NoMore PROVE CountInv'
<1> USE DEF NoMore, Goto
<1>1. Options'
  BY OptionsStay DEF CountInv
<1>2. Counters'
  BY DEF CountInv, Counters, optionVars, Steps
<1>3. Flow'
  <2>1. read = delivered /\ (source = "IMAGE" => delivered = 0)
    BY DEF CountInv, Options, Counters, Counts, More
  <2> QED
    BY <2>1 DEF CountInv, Flow, AllBatchesDone, Task, optionVars
<1>4. Counts'
  BY DEF CountInv, Counts, optionVars
<1>5. SavedFrames' = SavedFrames
  BY DEF SavedFrames
<1>6. Saved'
  BY <1>5 DEF CountInv, Saved, resultVars
<1>7. Shown'
  BY <1>5 DEF CountInv, Shown, resultVars, optionVars
<1> QED
  BY <1>1, <1>2, <1>3, <1>4, <1>6, <1>7 DEF CountInv

\* A frame that is read is one the batches that were announced have room for.
LEMMA ReadCounts ==
  ASSUME CountInv, Read PROVE CountInv'
<1> USE DEF Read, Goto
<1>1. Options'
  BY OptionsStay DEF CountInv
<1>2. /\ batch_size \in Nat /\ total_batches \in Nat /\ batchi \in Nat
      /\ read \in Nat /\ delivered \in Nat /\ delivered <= MaxFrames
      /\ imgs_batch \in Seq(Frames) /\ Len(imgs_batch) \in Nat
      /\ read - Len(imgs_batch) = batchi * batch_size /\ Len(imgs_batch) <= read
  BY TotalIsNumber DEF CountInv, Options, Counters, Counts, Lengths
<1>3. source # "CAMERA" => (batchi + 1) * batch_size <= total_batches * batch_size
  BY <1>2, MultiplesInOrder DEF AllBatchesDone
<1>4. (batchi + 1) * batch_size = batchi * batch_size + batch_size
  BY <1>2, NextMultiple
<1>5. batchi * batch_size \in Nat /\ total_batches * batch_size \in Nat
  BY <1>2
<1>6. source # "CAMERA" => read + 1 <= total_batches * batch_size
  <2> DEFINE before == batchi * batch_size
             all == total_batches * batch_size
  <2>1. before \in Nat /\ all \in Nat /\ read - Len(imgs_batch) = before
    BY <1>2, <1>5
  <2>2. source # "CAMERA" => before + batch_size <= all
    BY <1>3, <1>4
  <2>3. Len(imgs_batch) < batch_size
    OBVIOUS
  <2> HIDE DEF before, all
  <2>4. source # "CAMERA" => read + 1 <= all
    BY <1>2, <2>1, <2>2, <2>3
  <2> QED
    BY <2>4 DEF all
<1>7. source = "IMAGE" => read = 0
  <2> SUFFICES ASSUME source = "IMAGE" PROVE read = 0
    OBVIOUS
  <2>1. batch_size = 1 /\ total_batches = 1
    BY DEF CountInv, Options, TotalBatches
  <2> QED
    BY <1>2, <1>6, <2>1
<1>8. read + 1 <= delivered
  BY <1>2, <1>7 DEF More
<1> DEFINE taken == IF source = "IMAGE" THEN 1 ELSE read + 1
<1>9. taken = read + 1 /\ taken \in Frames
  BY <1>2, <1>7, <1>8, AppAssumption DEF Frames, AppAssumption, Lengths
<1>10. imgs_batch' = Append(imgs_batch, read + 1)
  BY <1>9
<1>11. /\ imgs_batch' \in Seq(Frames) /\ Len(imgs_batch') = Len(imgs_batch) + 1
       /\ \A i \in 1 .. Len(imgs_batch) : imgs_batch'[i] = imgs_batch[i]
       /\ imgs_batch'[Len(imgs_batch) + 1] = read + 1
       /\ DOMAIN imgs_batch' = 1 .. Len(imgs_batch) + 1
  BY <1>2, <1>9, <1>10
<1>12. Counters'
  BY <1>2, <1>11 DEF CountInv, Counters, optionVars
<1>13. Flow'
  BY DEF CountInv, Flow, AllBatchesDone, Task, optionVars
<1>14. Counts'
  <2>1. ASSUME NEW i \in DOMAIN imgs_batch'
        PROVE  imgs_batch'[i] = read' - Len(imgs_batch') + i
    <3>1. CASE i = Len(imgs_batch) + 1
      BY <3>1, <1>2, <1>11
    <3>2. CASE i \in 1 .. Len(imgs_batch)
      <4>1. imgs_batch[i] = read - Len(imgs_batch) + i
        BY <3>2, <1>2 DEF CountInv, Counts
      <4> QED
        BY <3>2, <4>1, <1>2, <1>11
    <3> QED
      BY <3>1, <3>2, <1>2, <1>11
  <2>2. Len(imgs_batch') <= read' /\ read' <= delivered'
    BY <1>2, <1>8, <1>11 DEF optionVars
  <2>3. read' - Len(imgs_batch') = batchi' * batch_size'
    BY <1>2, <1>11 DEF optionVars
  <2>4. source' # "CAMERA" => /\ batchi' <= total_batches'
                              /\ read' <= total_batches' * batch_size'
    BY <1>6 DEF CountInv, Counts, optionVars
  <2> QED
    BY <2>1, <2>2, <2>3, <2>4 DEF Counts
<1>15. SavedFrames' = SavedFrames
  BY <1>2, <1>11 DEF SavedFrames
<1>16. Saved'
  BY <1>15 DEF CountInv, Saved, resultVars
<1>17. Shown'
  BY <1>15 DEF CountInv, Shown, resultVars, optionVars
<1> QED
  BY <1>1, <1>12, <1>13, <1>14, <1>16, <1>17 DEF CountInv

\* The batch and what is shown of it: a record for each of its frames.
LEMMA ResultsOfBatch ==
  ASSUME Counters
  PROVE  /\ Results \in Seq({Results[i] : i \in DOMAIN imgs_batch})
         /\ Len(Results) = Len(imgs_batch)
         /\ \A i \in 1 .. Len(imgs_batch) : Results[i].frame = imgs_batch[i]
<1>1. imgs_batch \in Seq(Frames) /\ DOMAIN imgs_batch = 1 .. Len(imgs_batch)
      /\ Len(imgs_batch) \in Nat
  BY DEF Counters
<1>2. \A i \in DOMAIN imgs_batch : Results[i].frame = imgs_batch[i]
  BY DEF Results
<1>3. DOMAIN Results = 1 .. Len(imgs_batch)
  BY <1>1 DEF Results
<1> DEFINE all == {Results[i] : i \in DOMAIN imgs_batch}
<1>4. Results \in [1 .. Len(imgs_batch) -> all]
  BY <1>1, <1>3 DEF Results
<1>5. Results \in Seq(all) /\ Len(Results) = Len(imgs_batch)
  BY <1>1, <1>4
<1> QED
  BY <1>1, <1>2, <1>5

\* A batch is saved behind the ones before it.
LEMMA ShowCounts ==
  ASSUME CountInv, Show PROVE CountInv'
<1> USE DEF Show, Goto
<1> DEFINE n == Len(imgs_batch)
<1>1. Options'
  BY OptionsStay DEF CountInv
<1>2. Counters'
  BY DEF CountInv, Counters, optionVars, loopVars, Steps
<1>3. Flow'
  BY DEF CountInv, Flow, AllBatchesDone, Task, optionVars, loopVars
<1>4. Counts'
  BY DEF CountInv, Counts, optionVars, loopVars
<1>5. /\ n \in Nat /\ read \in Nat /\ n <= read /\ DOMAIN imgs_batch = 1 .. n
      /\ batchi * batch_size = read - n
  BY DEF CountInv, Counters, Counts
<1>6. SavedFrames = read - n /\ SavedFrames' = read
  BY DEF SavedFrames, loopVars
<1> HIDE DEF n
<1>7. \A i \in 1 .. n : FileNumber(i) = read - n + i - 1
  BY <1>5 DEF FileNumber
<1>8. DOMAIN files = 0 .. read - n - 1 /\ \A k \in DOMAIN files : files[k].frame = k + 1
  BY <1>6 DEF CountInv, Saved
<1>9. \A i \in 1 .. n : imgs_batch[i] = read - n + i /\ Results[i].frame = imgs_batch[i]
  BY <1>5, ResultsOfBatch DEF CountInv, Counts, n
<1>10. DOMAIN files' = 0 .. read - 1
  <2>1. {FileNumber(i) : i \in 1 .. n} = read - n .. read - 1
    <3>1. ASSUME NEW k \in read - n .. read - 1
          PROVE  k \in {FileNumber(i) : i \in 1 .. n}
      <4>1. k - (read - n) + 1 \in 1 .. n
        BY <1>5
      <4>2. FileNumber(k - (read - n) + 1) = k
        BY <1>5, <1>7, <4>1
      <4> QED
        BY <4>1, <4>2
    <3>2. ASSUME NEW i \in 1 .. n
          PROVE  FileNumber(i) \in read - n .. read - 1
      BY <1>5, <1>7
    <3> QED
      BY <3>1, <3>2
  <2>2. DOMAIN files' = DOMAIN files \cup {FileNumber(i) : i \in 1 .. n}
    BY <1>5
  <2> QED
    BY <1>5, <1>8, <2>1, <2>2
<1>11. ASSUME NEW k \in DOMAIN files' PROVE files'[k].frame = k + 1
  <2>1. CASE \E i \in DOMAIN imgs_batch : k = FileNumber(i)
    <3> DEFINE j == CHOOSE i \in DOMAIN imgs_batch : k = FileNumber(i)
    <3>1. j \in 1 .. n /\ k = FileNumber(j)
      BY <2>1, <1>5
    <3>2. files'[k] = Results[j]
      BY <2>1
    <3> HIDE DEF j
    <3> QED
      BY <3>1, <3>2, <1>5, <1>7, <1>9
  <2>2. CASE ~\E i \in DOMAIN imgs_batch : k = FileNumber(i)
    <3>1. k \in DOMAIN files /\ files'[k] = files[k]
      BY <2>2
    <3> QED
      BY <3>1, <1>8
  <2> QED
    BY <2>1, <2>2
<1>12. Saved'
  BY <1>6, <1>10, <1>11 DEF Saved
<1>13. Shown'
  <2> DEFINE A == {window[i] : i \in DOMAIN window}
             B == {Results[i] : i \in DOMAIN imgs_batch}
  <2>1. window \in Seq(A) /\ (is_show => Len(window) = read - n)
        /\ (is_show => \A i \in DOMAIN window : window[i].frame = i)
    BY <1>6 DEF CountInv, Shown, IsSequence
  <2>2. Results \in Seq(B) /\ Len(Results) = n
    BY ResultsOfBatch DEF CountInv, n
  <2>3. is_show' = is_show
    BY DEF optionVars
  <2> HIDE DEF A, B
  <2>4. CASE is_show
    <3>1. window' = window \o Results
      BY <2>4
    <3>a. window \in Seq(A)
      BY <2>1
    <3>b. Results \in Seq(B)
      BY <2>2
    <3>c. /\ window' \in Seq(A \cup B)
          /\ Len(window') = Len(window) + Len(Results)
          /\ \A i \in 1 .. Len(window) : window'[i] = window[i]
          /\ \A i \in 1 .. Len(Results) : window'[Len(window) + i] = Results[i]
      BY <3>a, <3>b, <3>1, Joined
    <3>2. /\ window' \in Seq(A \cup B) /\ Len(window') = read - n + n
          /\ \A i \in 1 .. read - n : window'[i] = window[i]
          /\ \A i \in 1 .. n : window'[read - n + i] = Results[i]
      BY <2>1, <2>2, <2>4, <3>c
    <3>3. Len(window') = read
      BY <3>2, <1>5
    <3>4. ASSUME NEW i \in 1 .. read PROVE window'[i].frame = i
      <4>1. CASE i <= read - n
        BY <4>1, <1>5, <2>1, <2>4, <3>2
      <4>2. CASE ~(i <= read - n)
        <5>1. i - (read - n) \in 1 .. n /\ read - n + (i - (read - n)) = i
          BY <4>2, <1>5
        <5> QED
          BY <5>1, <1>5, <1>9, <3>2
      <4> QED
        BY <4>1, <4>2
    <3>5. IsSequence(window')
      BY <3>c, OwnElements
    <3>6. DOMAIN window' = 1 .. read
      BY <3>2, <3>3
    <3> QED
      BY <1>6, <2>3, <3>3, <3>4, <3>5, <3>6 DEF Shown
  <2>5. CASE ~is_show
    <3>1. window' = window
      BY <2>5
    <3>a. window' \in Seq(A)
      BY <2>1, <3>1
    <3>2. IsSequence(window')
      BY <3>a, OwnElements
    <3> QED
      BY <2>3, <2>5, <3>2 DEF Shown
  <2> QED
    BY <2>4, <2>5
<1> QED
  BY <1>1, <1>2, <1>3, <1>4, <1>12, <1>13 DEF CountInv

\* After a batch main is at the beginning of the next one.
LEMMA ResetCounts ==
  ASSUME CountInv, Reset PROVE CountInv'
<1> USE DEF Reset, Goto
<1>1. Options'
  BY OptionsStay DEF CountInv
<1>2. /\ batch_size \in Nat /\ total_batches \in Nat /\ batchi \in Nat
      /\ read \in Nat /\ Len(imgs_batch) \in Nat /\ Len(imgs_batch) <= read
      /\ read - Len(imgs_batch) = batchi * batch_size
      /\ (last \/ Len(imgs_batch) = batch_size)
      /\ (source # "CAMERA" => batchi < total_batches)
  BY TotalIsNumber DEF CountInv, Options, Counters, Counts, Flow, Task, AllBatchesDone,
                       Lengths
<1>3. imgs_batch' \in Seq(Frames) /\ Len(imgs_batch') = 0 /\ DOMAIN imgs_batch' = {}
  OBVIOUS
<1>4. Counters'
  BY <1>2, <1>3 DEF CountInv, Counters, optionVars, Steps
<1>5. Flow'
  BY DEF CountInv, Flow, AllBatchesDone, Task, optionVars
<1>6. Counts'
  <2>1. ~last => read = (batchi + 1) * batch_size
    BY <1>2, NextMultiple
  <2>2. ~last => read' - Len(imgs_batch') = batchi' * batch_size'
    BY <2>1, <1>2, <1>3 DEF optionVars
  <2>3. source # "CAMERA" => batchi + 1 <= total_batches
    BY <1>2
  <2> QED
    BY <1>2, <1>3, <2>2, <2>3 DEF CountInv, Counts, optionVars
<1>7. SavedFrames' = SavedFrames
  BY <1>2, <1>3 DEF SavedFrames
<1>8. Saved'
  BY <1>7 DEF CountInv, Saved, resultVars
<1>9. Shown'
  BY <1>7 DEF CountInv, Shown, resultVars, optionVars
<1> QED
  BY <1>1, <1>4, <1>5, <1>6, <1>8, <1>9 DEF CountInv

-----------------------------------------------------------------------------
(* What follows for the streams.                                           *)

THEOREM CountStep == CountInv /\ [Next]_vars => CountInv'
<1> SUFFICES ASSUME CountInv, [Next]_vars PROVE CountInv'
  OBVIOUS
<1>1. CASE Open \/ Break \/ Full
  BY <1>1, OpenBreakFullCount
<1>2. CASE Read
  BY <1>2, ReadCounts
<1>3. CASE NoMore
  BY <1>3, NoMoreCounts
<1>4. CASE Copy \/ Preprocess \/ Infer \/ Postprocess \/ ShowEmpty
  BY <1>4, TaskCounts
<1>5. CASE Show
  BY <1>5, ShowCounts
<1>6. CASE Reset
  BY <1>6, ResetCounts
<1>7. CASE UNCHANGED vars
  BY <1>7 DEF CountInv, Options, Counters, Flow, AllBatchesDone, Counts, Saved, Shown,
              SavedFrames, IsSequence, vars, optionVars, loopVars, resultVars
<1> QED
  BY <1>1, <1>2, <1>3, <1>4, <1>5, <1>6, <1>7 DEF Next

\* What main counts always fits together: the place in the stream, the batch, the
\* batches done and what has been shown and saved.
THEOREM CountInvariant == Spec => []CountInv
  BY InitCounts, CountStep, PTL DEF Spec

LEMMA InOrder == CountInv => FramesInOrder
<1> SUFFICES ASSUME CountInv PROVE FramesInOrder
  OBVIOUS
<1> DEFINE shown == {k + 1 : k \in DOMAIN files}
           n == SavedFrames
<1>1. n \in 0 .. MaxFrames
  <2>1. /\ read \in Nat /\ Len(imgs_batch) \in Nat /\ Len(imgs_batch) <= read
        /\ read <= delivered /\ delivered \in 0 .. MaxFrames /\ MaxFrames \in Nat
    BY AppAssumption DEF CountInv, Options, Counters, Counts, AppAssumption, Lengths
  <2> QED
    BY <2>1 DEF SavedFrames
<1> HIDE DEF n
<1>2. DOMAIN files = 0 .. n - 1 /\ \A k \in DOMAIN files : files[k].frame = k + 1
  BY DEF CountInv, Saved, n
<1>3. shown = 1 .. n
  <2>1. ASSUME NEW f \in 1 .. n PROVE f \in shown
    <3>1. f - 1 \in 0 .. n - 1 /\ (f - 1) + 1 = f
      BY <1>1
    <3> QED
      BY <3>1, <1>2
  <2>2. ASSUME NEW k \in 0 .. n - 1 PROVE k + 1 \in 1 .. n
    BY <1>1
  <2> QED
    BY <1>2, <2>1, <2>2
<1>4. Cardinality(1 .. n) = n
  BY <1>1, FS_Interval
<1>5. is_show => Len(window) = n /\ \A i \in DOMAIN window : window[i].frame = i
  BY DEF CountInv, Shown, n
<1> HIDE DEF shown
<1>6. is_show => Len(window) = Cardinality(shown)
  BY <1>3, <1>4, <1>5
<1>7. \E k \in 0 .. MaxFrames : shown = 1 .. k
  BY <1>1, <1>3
<1> QED
  BY <1>2, <1>5, <1>6, <1>7 DEF FramesInOrder, shown

\* The frames are shown and saved in the order of the stream, each once and under
\* its own number (utils::show, utils::save), for streams and batches of any size.
THEOREM ShownInOrder == Spec => []FramesInOrder
  BY CountInvariant, InOrder, PTL

LEMMA AllHandled == CountInv => NothingLeftOut
<1> SUFFICES ASSUME CountInv, pc = "exit" PROVE Cardinality(DOMAIN files) = Due
  BY DEF NothingLeftOut
<1>1. /\ read \in Nat /\ delivered \in Nat /\ batchi \in Nat /\ read <= delivered
      /\ total_batches \in Nat /\ batch_size \in Nat
      /\ source \in {"IMAGE", "VIDEO", "CAMERA"}
  BY TotalIsNumber DEF CountInv, Options, Counters, Counts, Lengths
<1>2. Len(imgs_batch) = 0 /\ DOMAIN files = 0 .. read - 1
  <2>1. imgs_batch = <<>>
    BY DEF CountInv, Flow
  <2>2. Len(imgs_batch) = 0
    BY <2>1
  <2> QED
    BY <1>1, <2>2 DEF CountInv, Saved, SavedFrames
<1>3. Cardinality(DOMAIN files) = read
  BY <1>1, <1>2, HowMany
<1>4. total_batches * batch_size \in Nat
  BY <1>1, NextMultiple
<1>5. source # "CAMERA" => read <= total_batches * batch_size
  BY DEF CountInv, Counts
<1>6. ~last => source # "CAMERA" /\ read = total_batches * batch_size
  BY <1>1, <1>2 DEF CountInv, Flow, AllBatchesDone, Counts
<1>7. last => read = delivered /\ (source = "IMAGE" => delivered = 0)
  BY DEF CountInv, Flow
<1>8. Due = read
  <2>1. CASE source = "IMAGE"
    <3>1. total_batches * batch_size = 1
      BY <2>1 DEF CountInv, Options, TotalBatches
    <3> QED
      BY <1>1, <1>6, <1>7, <2>1, <3>1 DEF Due
  <2>2. CASE source = "VIDEO"
    <3>1. Due = Min({delivered, total_batches * batch_size})
      BY <2>2 DEF Due
    <3> DEFINE room == total_batches * batch_size
    <3>2. room \in Nat /\ read <= room /\ (last => read = delivered)
          /\ (~last => read = room)
      BY <1>4, <1>5, <1>6, <1>7, <2>2
    <3>3. Due = IF delivered <= room THEN delivered ELSE room
      BY <3>1, <3>2, <1>1, MinOfTwo
    <3> HIDE DEF room
    <3> QED
      BY <3>2, <3>3, <1>1
  <2>3. CASE source = "CAMERA"
    BY <1>6, <1>7, <2>3 DEF Due
  <2> QED
    BY <1>1, <2>1, <2>2, <2>3
<1> QED
  BY <1>3, <1>8

\* When main leaves its loop it has handled every frame it should have, also of a
\* last batch that is not full and of a video whose container announces too many.
THEOREM NoFrameLeftOut == Spec => []NothingLeftOut
  BY CountInvariant, AllHandled, PTL

LEMMA EmptyBatch == CountInv => EmptyOnlyWhenShort
<1> SUFFICES ASSUME CountInv, pc = "copy", imgs_batch = <<>>, source # "CAMERA"
             PROVE  delivered < (IF source = "IMAGE" THEN 1 ELSE announced)
  BY DEF EmptyOnlyWhenShort
<1>1. Len(imgs_batch) = 0
  OBVIOUS
<1>2. /\ announced \in Nat /\ batch_size \in Lengths /\ batchi \in Nat
      /\ read \in Nat /\ source \in {"IMAGE", "VIDEO"} /\ batch_size > 0
  BY DEF CountInv, Options, Counters, Lengths
<1>3. last /\ batchi < total_batches
  <2>1. batchi \in Nat /\ total_batches \in Nat
    BY TotalIsNumber DEF CountInv, Counters
  <2> QED
    BY <1>1, <1>2, <2>1 DEF CountInv, Flow, Task, AllBatchesDone
<1>4. read = delivered /\ (source = "IMAGE" => delivered = 0)
  BY <1>3 DEF CountInv, Flow
<1>5. read = batchi * batch_size
  BY <1>1, <1>2 DEF CountInv, Counts
<1>6. CASE source = "IMAGE"
  BY <1>4, <1>6
<1>7. CASE source = "VIDEO"
  <2>1. batchi < Ceil(announced, batch_size)
    BY <1>3, <1>7 DEF CountInv, Options, TotalBatches
  <2>2. batchi * batch_size < announced
    BY <1>2, <2>1, RoundedUp
  <2> QED
    BY <1>4, <1>5, <1>7, <2>2
<1> QED
  BY <1>2, <1>6, <1>7

\* task() gets an empty batch, on which utils::show would crash, only from a stream
\* that is shorter than it announced.
THEOREM EmptyBatchMeansShort == Spec => []EmptyOnlyWhenShort
  BY CountInvariant, EmptyBatch, PTL

==============================================================================
