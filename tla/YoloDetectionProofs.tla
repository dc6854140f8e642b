------------------------- MODULE YoloDetectionProofs -------------------------
(***************************************************************************)
(* Proofs about YoloDetection for any network, any number of objects and   *)
(* rows, all kinds of detectors and any order of the threads.              *)
(***************************************************************************)
EXTENDS YoloDetection, TLAPS, FiniteSetTheorems, SequenceTheorems,
        WellFoundedInduction

(***************************************************************************)
(* The inductive invariant.  First the way of the picture, which CallsCopy *)
(* decides, and the threads of the decode kernel.                          *)
(***************************************************************************)
Flow ==
  /\ pc # "take" => img \in Pictures
  /\ CallsCopy =>
       /\ pc \notin {"take", "copy"} => src = img
       /\ pc \notin {"take", "copy", "preprocess"} => hwc = img
       /\ pc \in {"decode", "nms", "show"} /\ context => out = Candidates[img]

Threads ==
  /\ pc # "decode" => \A b \in Boxes : thread[b] = "done"
  /\ \A b \in Boxes :
       /\ thread[b] # "done" => b \in out
       /\ thread[b] = "write" => /\ index[b] < topK /\ index[b] < count
                                 /\ \A a \in Boxes \ {b} : thread[a] = "write" =>
                                      index[a] # index[b]

(***************************************************************************)
(* What the rows hold, once reset() has cleared them the first time: up to *)
(* the count each is reserved by a thread and still zero or holds one      *)
(* object; the count is that of the threads that came by, so that with at  *)
(* most topK objects each of them is in a row.                             *)
(***************************************************************************)
RowsClear ==
  cleared /\ pc \in {"take", "copy", "preprocess", "infer"} =>
    count = 0 /\ \A r \in Rows : rows[r] = Zero

Reserved(r) == \E b \in Boxes : thread[b] = "write" /\ index[b] + 1 = r
Holds(r) == rows[r].box # None

RowsHold ==
  cleared /\ pc \in {"decode", "nms", "show"} =>
    /\ \A r \in Rows : ~Holds(r) => rows[r] = Zero /\ (r > count \/ Reserved(r))
    /\ \A r \in Rows : Holds(r) => /\ r <= count /\ ~Reserved(r)
                                   /\ rows[r].box \in out /\ thread[rows[r].box] = "done"
    /\ \A r, s \in Rows : Holds(r) /\ rows[r].box = rows[s].box => r = s
    /\ Cardinality(out) <= topK =>
         \A b \in out : thread[b] = "done" => \E r \in Rows : rows[r].box = b

CameBy == {b \in out : thread[b] # "add"}

CountExact ==
  cleared /\ pc = "decode" =>
    count = Cardinality(CameBy) /\ \A r \in Rows : Holds(r) => rows[r].keep = 1

(***************************************************************************)
(* And the keep flags: a row is cleared when it and, before it in the      *)
(* order of the kernel, a row it overlaps have been compared.  V1 compares *)
(* in the thread of the row that goes, V2 in that of the row that stays.   *)
(***************************************************************************)
Filled == 1 .. Rowcount

Before(s, r) ==
  IF NmsOf(kind) = "V1" THEN Conf(s) > Conf(r) \/ (Conf(s) = Conf(r) /\ s > r)
                        ELSE \E i, j \in Filled : i < j /\ idx[i] = s /\ idx[j] = r

Compared(s, r) == IF NmsOf(kind) = "V1" THEN r \in ran ELSE \E i \in ran : idx[i] = s

Beats(s, r) == Before(s, r) /\ Overlap(s, r)

InOrder ==
  cleared /\ pc \in {"nms", "show"} /\ NmsOf(kind) = "V2" =>
    /\ Permutation(idx) /\ Sorted(idx)
    /\ \A r \in Filled : \E i \in Filled : idx[i] = r

KeepRight ==
  cleared /\ pc \in {"nms", "show"} =>
    \A r \in Filled :
      rows[r].keep = IF \E s \in Filled : Beats(s, r) /\ Compared(s, r) THEN 0 ELSE 1

RanRows == pc \in {"nms", "show"} => ran \subseteq Filled

DrawnBoxes == {rows[r].box : r \in Drawn}

ResultRight ==
  /\ Collects(kind) /\ pc # "show" => m_objectss = <<>>
  /\ pc = "show" => ran = Filled
  /\ pc = "show" /\ cleared =>
       /\ Found = DrawnBoxes
       /\ \A i, j \in DOMAIN m_objectss : i # j => m_objectss[i] # m_objectss[j]

YoloInv == /\ TypeOK /\ Flow /\ Threads /\ RowsClear /\ RowsHold /\ CountExact
           /\ InOrder /\ KeepRight /\ RanRows /\ ResultRight

-----------------------------------------------------------------------------

LEMMA RowcountType ==
  ASSUME TypeOK
  PROVE  Rowcount \in Nat /\ Rowcount <= topK /\ Filled \subseteq Rows
BY YoloAssumption DEF TypeOK, Rowcount, Filled, Rows

LEMMA DrawnFinite ==
  ASSUME TypeOK
  PROVE  IsFiniteSet(Drawn) /\ Drawn \subseteq Kept /\ Kept \subseteq Filled
<1>1. Drawn \subseteq Kept /\ Kept \subseteq Filled
  BY DEF Drawn, Kept, Filled
<1>2. IsFiniteSet(Filled)
  BY RowcountType, FS_Interval DEF Filled
<1> QED
  BY <1>1, <1>2, FS_Subset

\* What Collect adds are the drawn rows, each once.
LEMMA CollectProperties ==
  ASSUME YoloInv, Collect
  PROVE  \E order \in [1 .. Cardinality(Drawn) -> Drawn] :
           /\ Cardinality(Drawn) \in Nat
           /\ \A r \in Drawn : \E i \in DOMAIN order : order[i] = r
           /\ \A i, j \in DOMAIN order : i # j => order[i] # order[j]
           /\ m_objectss' = [i \in DOMAIN order |-> rows[order[i]].box]
<1> DEFINE N == Cardinality(Drawn)
<1>1. TypeOK /\ pc = "nms"
  BY DEF YoloInv, Collect, Goto
<1>2. N \in Nat /\ IsFiniteSet(Drawn)
  BY <1>1, DrawnFinite, FS_CardinalityType
<1>3. PICK order \in [1 .. N -> Drawn] :
        /\ \A i, j \in DOMAIN order : i < j => order[i] < order[j]
        /\ m_objectss' = (IF Collects(kind) THEN m_objectss ELSE <<>>)
                           \o [i \in DOMAIN order |-> rows[order[i]].box]
  BY DEF Collect
<1>4. \A i, j \in DOMAIN order : i # j => order[i] # order[j]
  <2>1. \A r \in Drawn : r \in Int
    BY <1>1, DrawnFinite DEF Filled
  <2>2. \A i \in DOMAIN order : i \in Int /\ order[i] \in Int
    BY <1>2, <1>3, <2>1
  <2>3. \A i, j \in DOMAIN order : i < j => order[i] < order[j]
    BY <1>3
  <2> SUFFICES ASSUME NEW i \in DOMAIN order, NEW j \in DOMAIN order, i # j
               PROVE  order[i] # order[j]
    OBVIOUS
  <2>4. i < j \/ j < i
    BY <2>2
  <2>5. order[i] < order[j] \/ order[j] < order[i]
    BY <2>3, <2>4
  <2>6. order[i] \in Int /\ order[j] \in Int
    BY <2>2
  <2> QED
    BY <2>5, <2>6
<1>5. \A r \in Drawn : \E i \in DOMAIN order : order[i] = r
  <2>1. order \in Injection(1 .. N, Drawn)
    BY <1>3, <1>4 DEF Injection, IsInjective
  <2>2. IsFiniteSet(1 .. N) /\ Cardinality(1 .. N) = N
    BY <1>2, FS_Interval
  <2>3. order \in Surjection(1 .. N, Drawn)
    BY <1>2, <2>1, <2>2, FS_Injection
  <2> QED
    BY <1>3, <2>3 DEF Surjection
<1>6. m_objectss' = [i \in DOMAIN order |-> rows[order[i]].box]
  <2> DEFINE s == [i \in 1 .. N |-> rows[order[i]].box]
  <2>1. s \in Seq(Boxes \cup {None})
    <3>1. \A i \in 1 .. N : rows[order[i]].box \in Boxes \cup {None}
      <4>1. \A i \in 1 .. N : order[i] \in Rows
        BY <1>1, <1>3, DrawnFinite, RowcountType
      <4> QED
        BY <1>1, <4>1 DEF TypeOK
    <3> QED
      BY <1>2, <3>1
  <2>2. DOMAIN order = 1 .. N
    BY <1>3
  <2>3. m_objectss' = <<>> \o s
    BY <1>1, <1>3, <2>2 DEF YoloInv, ResultRight
  <2> HIDE DEF s
  <2>4. m_objectss' = s
    BY <2>1, <2>3, ConcatEmptySeq
  <2> QED
    BY <2>2, <2>4 DEF s
<1> QED
  BY <1>2, <1>3, <1>4, <1>5, <1>6

LEMMA InitYoloInv == Init => YoloInv
<1> SUFFICES ASSUME Init
             PROVE  YoloInv
  OBVIOUS
<1> USE DEF Init
<1>1. TypeOK
  <2>1. count \in Nat
    BY YoloAssumption
  <2>2. rows \in [Rows -> [box : Boxes \cup {None}, keep : {0, 1}]]
    BY DEF Zero
  <2>3. m_objectss \in Seq(Boxes \cup {None})
    BY EmptySeq
  <2>4. /\ thread \in [Boxes -> {"add", "write", "done"}] /\ index \in [Boxes -> Nat]
        /\ idx \in [Rows -> Rows] /\ {img, src, hwc} \subseteq Pictures \cup {None}
    OBVIOUS
  <2>5. /\ pc = "take" /\ kind \in Kinds /\ out \subseteq Boxes
        /\ context \in BOOLEAN /\ ran \subseteq Rows /\ cleared \in BOOLEAN
    OBVIOUS
  <2> HIDE DEF Init
  <2> QED
    BY <2>1, <2>2, <2>3, <2>4, <2>5 DEF TypeOK
<1> QED
  BY <1>1 DEF YoloInv, Flow, Threads, RowsClear, RowsHold, CountExact, InOrder, KeepRight,
              RanRows, ResultRight

LEMMA TypeStep ==
  ASSUME YoloInv, [Next]_vars
  PROVE  TypeOK'
<1> USE DEF Goto, inputVars, decodeVars, nmsVars
<1>0. TypeOK
  BY DEF YoloInv
<1>1. ASSUME NEW p \in Pictures, Take(p)
      PROVE  TypeOK'
  BY <1>0, <1>1 DEF TypeOK, Take
<1>2. CASE Copy
  BY <1>0, <1>2 DEF TypeOK, Copy
<1>3. CASE Preprocess
  BY <1>0, <1>3 DEF TypeOK, Preprocess
<1>4. CASE Infer
  <2>1. out' \subseteq Boxes
    <3>1. hwc # None => Candidates[hwc] \subseteq Boxes
      BY <1>0, YoloAssumption DEF TypeOK
    <3> QED
      BY <1>0, <1>4, <3>1 DEF TypeOK, Infer
  <2>2. thread' \in [Boxes -> {"add", "write", "done"}]
    BY <1>4 DEF Infer
  <2> QED
    BY <1>0, <1>4, <2>1, <2>2 DEF TypeOK, Infer
<1>5. ASSUME NEW b \in Boxes, AtomicAdd(b)
      PROVE  TypeOK'
  <2>1. /\ thread' \in [Boxes -> {"add", "write", "done"}] /\ index' \in [Boxes -> Nat]
        /\ count' \in Nat
    BY <1>0, <1>5 DEF TypeOK, AtomicAdd
  <2> QED
    BY <1>0, <1>5, <2>1 DEF TypeOK, AtomicAdd
<1>6. ASSUME NEW b \in Boxes, Write(b)
      PROVE  TypeOK'
  <2>1. /\ thread' \in [Boxes -> {"add", "write", "done"}]
        /\ rows' \in [Rows -> [box : Boxes \cup {None}, keep : {0, 1}]]
    BY <1>0, <1>6 DEF TypeOK, Write
  <2> QED
    BY <1>0, <1>6, <2>1 DEF TypeOK, Write
<1>7. CASE SortByKey
  BY <1>0, <1>7 DEF TypeOK, SortByKey
<1>8. ASSUME NEW dx \in Rows, NmsFast(dx)
      PROVE  TypeOK'
  <2>1. rows' \in [Rows -> [box : Boxes \cup {None}, keep : {0, 1}]]
    BY <1>0, <1>8 DEF TypeOK, NmsFast
  <2> QED
    BY <1>0, <1>8, <2>1 DEF TypeOK, NmsFast, NmsThread
<1>9. ASSUME NEW dx \in Rows, NmsSort(dx)
      PROVE  TypeOK'
  <2>1. \A r \in Rows : [rows[r] EXCEPT !.keep = 0] \in [box : Boxes \cup {None}, keep : {0, 1}]
    BY <1>0 DEF TypeOK
  <2>2. rows' \in [Rows -> [box : Boxes \cup {None}, keep : {0, 1}]]
    BY <1>0, <1>9, <2>1 DEF TypeOK, NmsSort
  <2> QED
    BY <1>0, <1>9, <2>2 DEF TypeOK, NmsSort, NmsThread
<1>10. CASE Collect
  <2>1. m_objectss' \in Seq(Boxes \cup {None})
    <3>1. PICK order \in [1 .. Cardinality(Drawn) -> Drawn] :
            /\ Cardinality(Drawn) \in Nat
            /\ m_objectss' = [i \in DOMAIN order |-> rows[order[i]].box]
      BY <1>10, CollectProperties
    <3>2. \A i \in DOMAIN order : order[i] \in Rows
      BY <1>0, DrawnFinite, RowcountType
    <3>3. \A i \in DOMAIN order : rows[order[i]].box \in Boxes \cup {None}
      BY <1>0, <3>2 DEF TypeOK
    <3>4. DOMAIN order = 1 .. Cardinality(Drawn)
      BY <3>1
    <3> QED
      BY <3>1, <3>3, <3>4
  <2> QED
    BY <1>0, <1>10, <2>1 DEF TypeOK, Collect
<1>11. CASE Reset
  <2>1. rows' \in [Rows -> [box : Boxes \cup {None}, keep : {0, 1}]]
    BY <1>11 DEF Reset, Zero
  <2>2. m_objectss' \in Seq(Boxes \cup {None})
    BY <1>0, <1>11, EmptySeq DEF Reset, TypeOK
  <2> QED
    BY <1>0, <1>11, <2>1, <2>2 DEF TypeOK, Reset
<1>12. CASE UNCHANGED vars
  BY <1>0, <1>12 DEF TypeOK, vars
<1> QED
  BY <1>1, <1>2, <1>3, <1>4, <1>5, <1>6, <1>7, <1>8, <1>9, <1>10, <1>11, <1>12 DEF Next

-----------------------------------------------------------------------------
(* Up to the decode kernel *)

LEMMA BeforeInferStep ==
  ASSUME YoloInv, TypeOK', (\E p \in Pictures : Take(p)) \/ Copy \/ Preprocess
  PROVE  YoloInv'
<1> USE DEF Goto, inputVars, decodeVars, nmsVars
<1>1. /\ pc \in {"take", "copy", "preprocess"} /\ pc' \in {"copy", "preprocess", "infer"}
      /\ UNCHANGED <<kind, out, context, thread, index, count, rows, idx, ran,
                     m_objectss, cleared>>
  BY DEF Take, Copy, Preprocess
<1>2. Flow'
  <2>1. CASE \E p \in Pictures : Take(p)
    BY <2>1 DEF Take, Flow
  <2>2. CASE Copy
    BY <2>2 DEF Copy, Flow, YoloInv
  <2>3. CASE Preprocess
    BY <2>3 DEF Preprocess, Flow, YoloInv
  <2> QED
    BY <2>1, <2>2, <2>3
<1>3. Threads'
  BY <1>1 DEF Threads, YoloInv
<1>4. RowsClear'
  BY <1>1 DEF RowsClear, YoloInv, Rows, Zero
<1>5. ResultRight'
  BY <1>1 DEF ResultRight, YoloInv, Collects
<1> QED
  BY <1>1, <1>2, <1>3, <1>4, <1>5
     DEF YoloInv, RowsHold, CountExact, InOrder, KeepRight, RanRows

\* The threads start on the objects of the network.
LEMMA InferStep ==
  ASSUME YoloInv, TypeOK', Infer
  PROVE  YoloInv'
<1> USE DEF Goto, nmsVars
<1>1. /\ pc = "infer" /\ pc' = "decode"
      /\ thread' = [b \in Boxes |-> IF b \in out' THEN "add" ELSE "done"]
      /\ UNCHANGED <<kind, img, src, hwc, index, count, rows, idx, ran, m_objectss,
                     cleared>>
  BY DEF Infer
<1>2. out' \subseteq Boxes /\ TypeOK
  BY DEF TypeOK, YoloInv
<1>3. Flow'
  <2>1. img \in Pictures /\ img # None
    BY <1>1, YoloAssumption DEF YoloInv, Flow
  <2> QED
    BY <1>1, <2>1 DEF Infer, YoloInv, Flow
<1>4. \A b \in Boxes : thread'[b] = IF b \in out' THEN "add" ELSE "done"
  BY <1>1
<1>5. Threads'
  BY <1>1, <1>4 DEF Threads
<1>6. cleared => count = 0 /\ \A r \in Rows : rows[r] = Zero
  BY <1>1 DEF YoloInv, RowsClear
<1>7. RowsHold'
  BY <1>1, <1>2, <1>4, <1>6 DEF RowsHold, Holds, Reserved, Rows, Zero
<1>8. CountExact'
  <2>1. CameBy' = {}
    BY <1>2, <1>4 DEF CameBy
  <2> QED
    BY <1>1, <1>6, <2>1, FS_EmptySet DEF CountExact, Holds, Rows, Zero
<1> QED
  BY <1>1, <1>3, <1>5, <1>7, <1>8
     DEF YoloInv, RowsClear, InOrder, KeepRight, RanRows, ResultRight, Collects

\* A thread that comes by is counted, and takes a row unless there are too many.
LEMMA AtomicAddStep ==
  ASSUME YoloInv, TypeOK', NEW b \in Boxes, AtomicAdd(b)
  PROVE  YoloInv'
<1>1. /\ pc = "decode" /\ pc' = "decode" /\ thread[b] = "add" /\ b \in out
      /\ index' = [index EXCEPT ![b] = count] /\ count' = count + 1
      /\ thread' = [thread EXCEPT ![b] = IF count >= topK THEN "done" ELSE "write"]
      /\ UNCHANGED <<kind, img, src, hwc, out, context, rows, idx, ran, m_objectss,
                     cleared>>
  BY DEF AtomicAdd, inputVars, nmsVars, YoloInv, Threads
<1>2. /\ TypeOK /\ count \in Nat /\ topK \in Nat /\ out \subseteq Boxes
      /\ thread \in [Boxes -> {"add", "write", "done"}] /\ index \in [Boxes -> Nat]
  BY YoloAssumption DEF YoloInv, TypeOK
<1>3. \A a \in Boxes : /\ a # b => thread'[a] = thread[a] /\ index'[a] = index[a]
                       /\ thread'[b] = IF count >= topK THEN "done" ELSE "write"
                       /\ index'[b] = count
  BY <1>1, <1>2
<1>4. Threads'
  <2> SUFFICES ASSUME NEW a \in Boxes
               PROVE  /\ thread'[a] # "done" => a \in out
                      /\ thread'[a] = "write" =>
                           /\ index'[a] < topK /\ index'[a] < count'
                           /\ \A d \in Boxes \ {a} : thread'[d] = "write" =>
                                index'[a] # index'[d]
    BY <1>1 DEF Threads
  <2>1. CASE a = b
    BY <1>1, <1>2, <1>3, <2>1 DEF YoloInv, Threads
  <2>2. CASE a # b
    BY <1>1, <1>2, <1>3, <2>2 DEF YoloInv, Threads
  <2> QED
    BY <2>1, <2>2
<1>5. CASE cleared
  <2>1. IsFiniteSet(CameBy) /\ CameBy \subseteq out /\ IsFiniteSet(out)
    BY <1>2, YoloAssumption, FS_Subset DEF CameBy
  <2>2. CameBy' = CameBy \cup {b} /\ b \notin CameBy
    BY <1>1, <1>2, <1>3 DEF CameBy
  <2>3. Cardinality(CameBy') = Cardinality(CameBy) + 1
    BY <2>1, <2>2, FS_AddElement
  <2>4. CountExact'
    BY <1>1, <1>5, <2>3 DEF YoloInv, CountExact, Holds
  <2>5. Cardinality(out) <= topK => count < topK
    <3>1. count = Cardinality(CameBy)
      BY <1>1, <1>5 DEF YoloInv, CountExact
    <3>2. Cardinality(CameBy') <= Cardinality(out) /\ Cardinality(out) \in Nat
      BY <1>1, <2>1, <2>2, FS_Subset, FS_CardinalityType
    <3> QED
      BY <1>2, <2>3, <3>1, <3>2
  <2>6. \A r \in Rows : Reserved(r)' <=> Reserved(r) \/ (count < topK /\ r = count + 1)
    BY <1>1, <1>2, <1>3 DEF Reserved
  <2>7. ASSUME NEW r \in Rows, ~Holds(r)
        PROVE  rows[r] = Zero /\ (r > count' \/ Reserved(r)')
    <3>1. rows[r] = Zero /\ (r > count \/ Reserved(r))
      BY <1>1, <1>5, <2>7 DEF YoloInv, RowsHold
    <3>2. r \in Nat /\ r <= topK
      BY <1>2 DEF Rows
    <3> QED
      BY <1>1, <1>2, <2>6, <3>1, <3>2
  <2>8. ASSUME NEW r \in Rows, Holds(r)
        PROVE  /\ r <= count' /\ ~Reserved(r)'
               /\ rows[r].box \in out /\ thread'[rows[r].box] = "done"
    <3>1. r <= count /\ ~Reserved(r) /\ rows[r].box \in out /\ thread[rows[r].box] = "done"
      BY <1>1, <1>5, <2>8 DEF YoloInv, RowsHold
    <3>2. r \in Nat /\ rows[r].box # b
      BY <1>1, <3>1 DEF Rows
    <3> QED
      BY <1>1, <1>2, <1>3, <2>6, <3>1, <3>2
  <2>9. ASSUME Cardinality(out) <= topK, NEW a \in out, thread'[a] = "done"
        PROVE  \E r \in Rows : rows[r].box = a
    <3>1. a # b /\ thread[a] = "done"
      BY <1>2, <1>3, <2>5, <2>9
    <3> QED
      BY <1>1, <1>5, <2>9, <3>1 DEF YoloInv, RowsHold
  <2>10. RowsHold'
    <3>1. \A r \in Rows : Holds(r)' <=> Holds(r)
      BY <1>1 DEF Holds
    <3>2. \A r, s \in Rows : Holds(r) /\ rows[r].box = rows[s].box => r = s
      BY <1>1, <1>5 DEF YoloInv, RowsHold
    <3> QED
      BY <1>1, <2>7, <2>8, <2>9, <3>1, <3>2 DEF RowsHold, Zero
  <2> QED
    BY <1>1, <1>4, <2>4, <2>10
       DEF YoloInv, Flow, RowsClear, InOrder, KeepRight, RanRows, ResultRight, Collects
<1>6. CASE ~cleared
  BY <1>1, <1>4, <1>6
     DEF YoloInv, Flow, RowsClear, RowsHold, CountExact, InOrder, KeepRight, RanRows,
         ResultRight, Collects
<1> QED
  BY <1>5, <1>6

\* A thread fills the row it has reserved, which no other has touched.
LEMMA WriteStep ==
  ASSUME YoloInv, TypeOK', NEW b \in Boxes, Write(b)
  PROVE  YoloInv'
<1>1. /\ pc = "decode" /\ pc' = "decode" /\ thread[b] = "write" /\ b \in out
      /\ rows' = [rows EXCEPT ![index[b] + 1] = [box |-> b, keep |-> 1]]
      /\ thread' = [thread EXCEPT ![b] = "done"]
      /\ UNCHANGED <<kind, img, src, hwc, out, context, index, count, idx, ran,
                     m_objectss, cleared>>
  BY DEF Write, inputVars, nmsVars, YoloInv, Threads
<1>2. /\ TypeOK /\ count \in Nat /\ topK \in Nat /\ out \subseteq Boxes /\ b # None
      /\ thread \in [Boxes -> {"add", "write", "done"}] /\ index \in [Boxes -> Nat]
      /\ rows \in [Rows -> [box : Boxes \cup {None}, keep : {0, 1}]]
  BY YoloAssumption DEF YoloInv, TypeOK
<1>3. /\ \A a \in Boxes : a # b => thread'[a] = thread[a]
      /\ thread'[b] = "done"
  BY <1>1, <1>2
<1> DEFINE q == index[b] + 1
<1>4. /\ q \in Rows /\ q <= count
      /\ \A a \in Boxes \ {b} : thread[a] = "write" => index[a] + 1 # q
  BY <1>1, <1>2 DEF YoloInv, Threads, Rows
<1>5. /\ \A r \in Rows : r # q => rows'[r] = rows[r]
      /\ rows'[q] = [box |-> b, keep |-> 1]
  BY <1>1, <1>2, <1>4
<1>6. \A r \in Rows : Reserved(r)' <=> Reserved(r) /\ r # q
  BY <1>1, <1>2, <1>3, <1>4 DEF Reserved
<1>7. Reserved(q)
  BY <1>1 DEF Reserved
<1> HIDE DEF q
<1>8. Threads'
  BY <1>1, <1>3 DEF YoloInv, Threads
<1>9. CASE cleared
  <2>1. ~Holds(q)
    BY <1>1, <1>4, <1>7, <1>9 DEF YoloInv, RowsHold
  <2>2. \A r \in Rows : Holds(r)' <=> Holds(r) \/ r = q
    BY <1>2, <1>4, <1>5 DEF Holds
  <2>3. ASSUME NEW r \in Rows, ~Holds(r)'
        PROVE  rows'[r] = Zero /\ (r > count \/ Reserved(r)')
    <3>1. r # q /\ ~Holds(r)
      BY <2>2, <2>3
    <3>2. rows[r] = Zero /\ (r > count \/ Reserved(r))
      BY <1>1, <1>9, <3>1 DEF YoloInv, RowsHold
    <3> QED
      BY <1>5, <1>6, <3>1, <3>2
  <2>4. ASSUME NEW r \in Rows, Holds(r)'
        PROVE  /\ r <= count /\ ~Reserved(r)'
               /\ rows'[r].box \in out /\ thread'[rows'[r].box] = "done"
    <3>1. CASE r = q
      BY <1>1, <1>3, <1>4, <1>5, <1>6, <3>1
    <3>2. CASE r # q
      <4>1. /\ r <= count /\ ~Reserved(r) /\ rows[r].box \in out
            /\ thread[rows[r].box] = "done"
        BY <1>1, <1>9, <2>2, <2>4, <3>2 DEF YoloInv, RowsHold
      <4> QED
        BY <1>2, <1>3, <1>5, <1>6, <3>2, <4>1
    <3> QED
      BY <3>1, <3>2
  <2>5. ASSUME NEW r \in Rows, NEW s \in Rows, Holds(r)', rows'[r].box = rows'[s].box
        PROVE  r = s
    <3>1. \A t \in Rows : Holds(t) => rows[t].box # b
      BY <1>1, <1>9 DEF YoloInv, RowsHold
    <3>2. \A t \in Rows : t # q => rows'[t].box # b
      BY <1>2, <1>5, <3>1 DEF Holds
    <3>3. CASE r = q
      BY <1>5, <2>5, <3>2, <3>3
    <3>4. CASE s = q
      BY <1>5, <2>5, <3>2, <3>4
    <3>5. CASE r # q /\ s # q
      BY <1>1, <1>5, <1>9, <2>2, <2>5, <3>5 DEF YoloInv, RowsHold
    <3> QED
      BY <3>3, <3>4, <3>5
  <2>6. ASSUME Cardinality(out) <= topK, NEW a \in out, thread'[a] = "done"
        PROVE  \E r \in Rows : rows'[r].box = a
    <3>1. CASE a = b
      BY <1>4, <1>5, <3>1
    <3>2. CASE a # b
      <4>1. thread[a] = "done"
        BY <1>2, <1>3, <2>6, <3>2
      <4>2. PICK r \in Rows : rows[r].box = a
        BY <1>1, <1>9, <2>6, <4>1 DEF YoloInv, RowsHold
      <4>3. r # q
        BY <1>2, <2>1, <4>2, YoloAssumption DEF Holds
      <4> QED
        BY <1>5, <4>2, <4>3
    <3> QED
      BY <3>1, <3>2
  <2>7. RowsHold'
    BY <1>1, <2>3, <2>4, <2>5, <2>6 DEF RowsHold, Zero
  <2>8. CountExact'
    <3>1. CameBy' = CameBy
      BY <1>1, <1>2, <1>3 DEF CameBy
    <3>2. \A r \in Rows : Holds(r)' => rows'[r].keep = 1
      BY <1>1, <1>5, <1>9, <2>2 DEF YoloInv, CountExact
    <3> QED
      BY <1>1, <1>9, <3>1, <3>2 DEF YoloInv, CountExact
  <2> QED
    BY <1>1, <1>8, <2>7, <2>8
       DEF YoloInv, Flow, RowsClear, InOrder, KeepRight, RanRows, ResultRight, Collects
<1>10. CASE ~cleared
  BY <1>1, <1>8, <1>10
     DEF YoloInv, Flow, RowsClear, RowsHold, CountExact, InOrder, KeepRight, RanRows,
         ResultRight, Collects
<1> QED
  BY <1>9, <1>10

-----------------------------------------------------------------------------
(* The nms kernels *)

\* When the threads have ended the rows up to the count hold objects.
LEMMA FilledHold ==
  ASSUME YoloInv, cleared, pc \in {"decode", "nms", "show"},
         \A b \in Boxes : thread[b] = "done"
  PROVE  /\ \A r \in Rows : r \in Filled <=> Holds(r)
         /\ \A r \in Filled : rows[r].box \in out /\ rows[r].box \in Boxes
<1>1. TypeOK /\ count \in Nat /\ topK \in Nat
  BY YoloAssumption DEF YoloInv, TypeOK
<1>2. \A r : ~Reserved(r)
  BY DEF Reserved
<1>3. \A r \in Rows : r \in Filled <=> r <= count
  BY <1>1 DEF Filled, Rowcount, Rows
<1>4. \A r \in Rows : Holds(r) <=> r <= count
  <2>1. \A r \in Rows : ~Holds(r) => r > count
    BY <1>2 DEF YoloInv, RowsHold
  <2>2. \A r \in Rows : Holds(r) => r <= count
    BY DEF YoloInv, RowsHold
  <2> QED
    BY <1>1, <2>1, <2>2 DEF Rows
<1>5. \A r \in Filled : rows[r].box \in out
  BY <1>1, <1>3, <1>4, RowcountType DEF YoloInv, RowsHold
<1> QED
  BY <1>1, <1>3, <1>4, <1>5 DEF TypeOK

\* The kernels touch the flags only.
LEMMA FlagsOnly ==
  ASSUME UNCHANGED <<kind, count, idx>>, \A r \in Rows : rows'[r].box = rows[r].box,
         TypeOK
  PROVE  /\ Filled' = Filled
         /\ \A r \in Rows : Conf(r)' = Conf(r) /\ (Holds(r)' <=> Holds(r))
         /\ \A r, s \in Rows : (Overlap(s, r)' <=> Overlap(s, r))
                                 /\ (Before(s, r)' <=> Before(s, r))
<1>1. Filled' = Filled /\ Rowcount' = Rowcount
  BY DEF Filled, Rowcount
<1>2. \A r \in Rows : Conf(r)' = Conf(r) /\ (Holds(r)' <=> Holds(r))
  BY DEF Conf, Holds
<1>3. \A r, s \in Rows : Overlap(s, r)' <=> Overlap(s, r)
  BY DEF Overlap, SameLabel, LabelOf
<1>4. \A r, s \in Rows : Before(s, r)' <=> Before(s, r)
  BY <1>1, <1>2 DEF Before
<1> QED
  BY <1>1, <1>2, <1>3, <1>4

LEMMA OverlapSymmetric ==
  ASSUME TypeOK, NEW r \in Rows, NEW s \in Rows
  PROVE  Overlap(r, s) <=> Overlap(s, r)
<1>1. rows[r].box \in Boxes \cup {None} /\ rows[s].box \in Boxes \cup {None}
  BY DEF TypeOK
<1> QED
  BY <1>1, YoloAssumption DEF Overlap, SameLabel

LEMMA ConfType ==
  ASSUME TypeOK, NEW r \in Rows
  PROVE  Conf(r) \in Nat /\ (Conf(r) > 0 <=> Holds(r))
<1>1. rows[r].box \in Boxes \cup {None}
  BY DEF TypeOK
<1> QED
  BY <1>1, YoloAssumption DEF Conf, Holds

\* An empty row has confidence 0: sorting all topK rows leaves the objects in the
\* first places, which are those the threads look at.
LEMMA ObjectsFirst ==
  ASSUME TypeOK, NEW perm \in [Rows -> Rows], Permutation(perm), Sorted(perm),
         \A r \in Rows : r \in Filled <=> Holds(r)
  PROVE  \A r \in Filled : \E i \in Filled : perm[i] = r
<1> SUFFICES ASSUME NEW r \in Filled, \A i \in Filled : perm[i] # r
             PROVE  FALSE
  OBVIOUS
<1>1. topK \in Nat /\ Rowcount \in Nat /\ Rowcount <= topK /\ r \in Rows
      /\ Filled \subseteq Rows
  BY RowcountType, YoloAssumption
<1>2. IsFiniteSet(Rows)
  BY <1>1, FS_Interval DEF Rows
<1>3. perm \in Injection(Rows, Rows)
  BY DEF Injection, IsInjective, Permutation
<1>4. perm \in Surjection(Rows, Rows)
  BY <1>2, <1>3, FS_Injection
<1>5. PICK j \in Rows : perm[j] = r
  BY <1>1, <1>4 DEF Surjection
<1>6. j \notin Filled
  BY <1>5
<1>7. ASSUME NEW i \in Filled
      PROVE  perm[i] \in Filled \ {r}
  <2>1. i \in Rows /\ i < j
    BY <1>1, <1>6 DEF Filled, Rows
  <2>2. Conf(perm[i]) >= Conf(r)
    BY <1>5, <2>1 DEF Sorted
  <2>3. Conf(r) > 0 /\ Conf(r) \in Nat /\ Conf(perm[i]) \in Nat
    BY <1>1, <2>1, ConfType
  <2>4. Holds(perm[i])
    BY <2>1, <2>2, <2>3, ConfType
  <2> QED
    BY <2>1, <2>4
<1>8. IsFiniteSet(Filled) /\ Cardinality(Filled) = Rowcount
  BY <1>1, FS_Interval DEF Filled
<1>9. /\ IsFiniteSet(Filled \ {r})
      /\ Cardinality(Filled \ {r}) = Rowcount - 1
  BY <1>8, FS_RemoveElement
<1> DEFINE f == [i \in Filled |-> perm[i]]
<1>10. f \in [Filled -> Filled \ {r}]
  BY <1>7
<1>11. PICK x, y \in Filled : x # y /\ f[x] = f[y]
  <2> HIDE DEF f
  <2>1. Cardinality(Filled \ {r}) < Cardinality(Filled)
    BY <1>1, <1>8, <1>9
  <2> QED
    BY <1>8, <1>9, <1>10, <2>1, FS_PigeonHole
<1> QED
  BY <1>1, <1>11 DEF Permutation

\* The threads have ended and no row has been compared.
LEMMA SortStep ==
  ASSUME YoloInv, TypeOK', SortByKey
  PROVE  YoloInv'
<1>1. /\ pc = "decode" /\ pc' = "nms" /\ ran' = {}
      /\ \A b \in Boxes : thread[b] = "done"
      /\ UNCHANGED <<kind, img, src, hwc, out, context, thread, index, count, rows,
                     m_objectss, cleared>>
  BY DEF SortByKey, Goto, inputVars, decodeVars
<1>2. Flow' /\ Threads' /\ RowsClear' /\ CountExact' /\ RanRows' /\ ResultRight'
  BY <1>1 DEF YoloInv, Flow, Threads, RowsClear, CountExact, RanRows, ResultRight, Collects
<1>3. RowsHold'
  BY <1>1 DEF YoloInv, RowsHold, Holds, Reserved, Zero
<1>4. CASE cleared
  <2>1. \A r \in Rows : r \in Filled <=> Holds(r)
    BY <1>1, <1>4, FilledHold
  <2>2. InOrder'
    <3> SUFFICES ASSUME NmsOf(kind) = "V2"
                 PROVE  /\ Permutation(idx') /\ Sorted(idx')
                        /\ \A r \in Filled : \E i \in Filled : idx'[i] = r
      BY <1>1 DEF InOrder, Permutation, Sorted, Conf, Filled, Rowcount, NmsOf
    <3>1. NmsOf(kind) # "V1"
      BY DEF NmsOf
    <3>2. PICK perm \in [Rows -> Rows] : Permutation(perm) /\ Sorted(perm) /\ idx' = perm
      BY <3>1 DEF SortByKey
    <3> QED
      BY <2>1, <3>2, ObjectsFirst DEF YoloInv
  <2>3. KeepRight'
    <3>1. \A r \in Filled : rows[r].keep = 1
      BY <1>1, <1>4, <2>1, RowcountType DEF YoloInv, CountExact
    <3>2. \A r, s : ~Compared(s, r)'
      BY <1>1 DEF Compared
    <3>3. Filled' = Filled
      BY <1>1 DEF Filled, Rowcount
    <3> QED
      BY <1>1, <3>1, <3>2, <3>3 DEF KeepRight
  <2> QED
    BY <1>2, <1>3, <2>2, <2>3 DEF YoloInv
<1>5. CASE ~cleared
  BY <1>1, <1>2, <1>3, <1>5 DEF YoloInv, InOrder, KeepRight
<1> QED
  BY <1>4, <1>5

\* A step of either kernel: all but the flags stays.
LEMMA NmsFrame ==
  ASSUME YoloInv, TypeOK', NEW dx \in Rows, NmsThread(dx),
         \A r \in Rows : rows'[r].box = rows[r].box,
         \A r \in Rows : rows[r] = Zero => rows'[r] = Zero,
         cleared => KeepRight'
  PROVE  YoloInv'
<1>1. /\ pc = "nms" /\ pc' = "nms" /\ dx \in Filled /\ dx \notin ran
      /\ ran' = ran \cup {dx}
      /\ UNCHANGED <<kind, img, src, hwc, out, context, thread, index, count, idx,
                     m_objectss, cleared>>
  BY DEF NmsThread, inputVars, decodeVars, Filled
<1>2. TypeOK
  BY DEF YoloInv
<1>3. /\ Filled' = Filled
      /\ \A r \in Rows : Conf(r)' = Conf(r) /\ (Holds(r)' <=> Holds(r))
  BY <1>1, <1>2, FlagsOnly
<1>4. Flow' /\ Threads' /\ RowsClear' /\ CountExact' /\ ResultRight'
  BY <1>1 DEF YoloInv, Flow, Threads, RowsClear, CountExact, ResultRight, Collects
<1>5. RowsHold'
  <2> SUFFICES ASSUME cleared
               PROVE  RowsHold'
    BY <1>1 DEF RowsHold
  <2>1. /\ \A r \in Rows : ~Holds(r) => rows[r] = Zero /\ (r > count \/ Reserved(r))
        /\ \A r \in Rows : Holds(r) => /\ r <= count /\ ~Reserved(r)
                                       /\ rows[r].box \in out
                                       /\ thread[rows[r].box] = "done"
        /\ \A r, s \in Rows : Holds(r) /\ rows[r].box = rows[s].box => r = s
        /\ Cardinality(out) <= topK =>
             \A b \in out : thread[b] = "done" => \E r \in Rows : rows[r].box = b
    BY <1>1 DEF YoloInv, RowsHold
  <2>2. \A r : Reserved(r)' <=> Reserved(r)
    BY <1>1 DEF Reserved
  <2> QED
    BY <1>1, <1>3, <2>1, <2>2 DEF RowsHold, Zero
<1>6. RanRows'
  BY <1>1, <1>3 DEF YoloInv, RanRows
<1>7. InOrder'
  <2> SUFFICES ASSUME cleared, NmsOf(kind) = "V2"
               PROVE  Permutation(idx) /\ Sorted(idx)'
                      /\ \A r \in Filled : \E i \in Filled : idx[i] = r
    BY <1>1, <1>3 DEF InOrder, NmsOf, Permutation
  <2>1. Permutation(idx) /\ Sorted(idx) /\ \A r \in Filled : \E i \in Filled : idx[i] = r
    BY <1>1 DEF YoloInv, InOrder
  <2>2. \A i \in Rows : idx[i] \in Rows
    BY <1>2 DEF TypeOK
  <2>3. Sorted(idx)'
    BY <1>1, <1>3, <2>1, <2>2 DEF Sorted
  <2> QED
    BY <2>1, <2>3
<1>8. KeepRight'
  BY <1>1 DEF KeepRight
<1> QED
  BY <1>4, <1>5, <1>6, <1>7, <1>8 DEF YoloInv

\* V1: the thread of a row clears its own flag if a row before it overlaps it.
LEMMA NmsFastStep ==
  ASSUME YoloInv, TypeOK', NEW dx \in Rows, NmsFast(dx)
  PROVE  YoloInv'
<1> DEFINE Gone == \E i \in Filled : Before(i, dx) /\ Overlap(i, dx)
<1>1. /\ NmsThread(dx) /\ NmsOf(kind) = "V1" /\ TypeOK
      /\ pc = "nms" /\ dx \in Filled /\ dx \notin ran /\ ran' = ran \cup {dx}
      /\ UNCHANGED <<kind, count, idx, thread, cleared>>
  BY DEF NmsFast, NmsThread, inputVars, decodeVars, Filled, YoloInv
<1>2. Filled \subseteq Rows /\ rows \in [Rows -> [box : Boxes \cup {None}, keep : {0, 1}]]
  BY <1>1, RowcountType DEF TypeOK
<1>3. rows' = IF Gone THEN [rows EXCEPT ![dx].keep = 0] ELSE rows
  <2>1. ~Before(dx, dx)
    <3>1. Conf(dx) \in Nat /\ dx \in Nat
      BY <1>1, <1>2, ConfType DEF Rows
    <3> QED
      BY <1>1, <3>1 DEF Before
  <2>2. \A i \in Filled : i # dx =>
          (Before(i, dx) <=> Conf(i) > Conf(dx) \/ (Conf(i) = Conf(dx) /\ i > dx))
    BY <1>1 DEF Before
  <2>3. \A i \in Filled : Overlap(i, dx) <=> Overlap(dx, i)
    BY <1>1, <1>2, OverlapSymmetric
  <2>4. Gone <=> \E i \in 1 .. Rowcount \ {dx} :
                   /\ Conf(i) > Conf(dx) \/ (Conf(i) = Conf(dx) /\ i > dx)
                   /\ Overlap(dx, i)
    BY <2>1, <2>2, <2>3 DEF Filled
  <2> HIDE DEF Gone
  <2> QED
    BY <2>4 DEF NmsFast
<1>4. /\ \A r \in Rows : rows'[r].box = rows[r].box
      /\ \A r \in Rows : r # dx => rows'[r] = rows[r]
      /\ rows'[dx].keep = IF Gone THEN 0 ELSE rows[dx].keep
      /\ \A r \in Rows : rows[r] = Zero => rows'[r] = Zero
  <2> HIDE DEF Gone
  <2> QED
    BY <1>2, <1>3 DEF Zero
<1>5. /\ Filled' = Filled
      /\ \A r, s \in Rows : Beats(s, r)' <=> Beats(s, r)
  BY <1>1, <1>4, FlagsOnly DEF Beats
<1>6. \A r, s \in Rows : /\ Compared(s, r) <=> r \in ran
                         /\ Compared(s, r)' <=> r \in ran \/ r = dx
  BY <1>1 DEF Compared
<1>7. ASSUME cleared, NEW r \in Filled
      PROVE  rows'[r].keep = IF \E s \in Filled : Beats(s, r) /\ Compared(s, r)' THEN 0 ELSE 1
  <2>1. rows[r].keep = IF \E s \in Filled : Beats(s, r) /\ Compared(s, r) THEN 0 ELSE 1
    BY <1>1, <1>7 DEF YoloInv, KeepRight
  <2>2. CASE r = dx
    <3>1. rows[r].keep = 1
      BY <1>1, <1>2, <1>6, <2>1, <2>2
    <3>2. Gone <=> \E s \in Filled : Beats(s, r) /\ Compared(s, r)'
      BY <1>2, <1>6, <2>2 DEF Beats
    <3> HIDE DEF Gone
    <3> QED
      BY <1>4, <2>2, <3>1, <3>2
  <2>3. CASE r # dx
    <3>1. \A s \in Filled : Compared(s, r)' <=> Compared(s, r)
      BY <1>2, <1>6, <2>3
    <3> QED
      BY <1>2, <1>4, <2>1, <2>3, <3>1
  <2> QED
    BY <2>2, <2>3
<1>8. cleared => KeepRight'
  BY <1>2, <1>5, <1>7 DEF KeepRight
<1> QED
  BY <1>1, <1>4, <1>8, NmsFrame

\* V2: the thread of a place clears the flags of the rows that come later and that
\* its row overlaps.
LEMMA NmsSortStep ==
  ASSUME YoloInv, TypeOK', NEW dx \in Rows, NmsSort(dx)
  PROVE  YoloInv'
<1> DEFINE gone == {r \in Rows : \E i \in dx + 1 .. Rowcount :
                      r = idx[i] /\ Overlap(idx[dx], r)}
<1>1. /\ NmsThread(dx) /\ NmsOf(kind) = "V2" /\ NmsOf(kind) # "V1" /\ TypeOK
      /\ pc = "nms" /\ dx \in Filled /\ dx \notin ran /\ ran' = ran \cup {dx}
      /\ rows' = [r \in Rows |-> IF r \in gone THEN [rows[r] EXCEPT !.keep = 0] ELSE rows[r]]
      /\ UNCHANGED <<kind, count, idx, thread, cleared>>
  BY DEF NmsSort, NmsThread, inputVars, decodeVars, Filled, YoloInv
<1>2. /\ Filled \subseteq Rows /\ rows \in [Rows -> [box : Boxes \cup {None}, keep : {0, 1}]]
      /\ Rowcount \in Nat /\ idx \in [Rows -> Rows] /\ dx \in Nat
  BY <1>1, RowcountType DEF TypeOK, Rows
<1>3. \A r \in Rows : r \in gone <=> \E i \in Filled : dx < i /\ r = idx[i] /\ Overlap(idx[dx], r)
  BY <1>2 DEF Filled
<1> HIDE DEF gone
<1>4. /\ \A r \in Rows : rows'[r].box = rows[r].box
      /\ \A r \in Rows : rows'[r].keep = IF r \in gone THEN 0 ELSE rows[r].keep
      /\ \A r \in Rows : rows[r] = Zero => rows'[r] = Zero
  BY <1>1, <1>2 DEF Zero
<1>5. /\ Filled' = Filled
      /\ \A r, s \in Rows : Beats(s, r)' <=> Beats(s, r)
  BY <1>1, <1>4, FlagsOnly DEF Beats
<1>6. \A r, s : Compared(s, r)' <=> Compared(s, r) \/ s = idx[dx]
  BY <1>1 DEF Compared
<1>7. ASSUME cleared, NEW r \in Filled
      PROVE  rows'[r].keep = IF \E s \in Filled : Beats(s, r) /\ Compared(s, r)' THEN 0 ELSE 1
  <2>1. rows[r].keep = IF \E s \in Filled : Beats(s, r) /\ Compared(s, r) THEN 0 ELSE 1
    BY <1>1, <1>7 DEF YoloInv, KeepRight
  <2>2. Permutation(idx)
    BY <1>1, <1>7 DEF YoloInv, InOrder
  <2>3. r \in gone <=> Beats(idx[dx], r)
    <3>1. Before(idx[dx], r) <=> \E j \in Filled : dx < j /\ idx[j] = r
      <4>1. \A i \in Filled : idx[i] = idx[dx] => i = dx
        BY <1>1, <1>2, <2>2 DEF Permutation
      <4> QED
        BY <1>1, <4>1 DEF Before
    <3> QED
      BY <1>2, <1>3, <3>1 DEF Beats
  <2>4. Beats(idx[dx], r) => idx[dx] \in Filled
    <3>1. \A b \in Boxes : thread[b] = "done"
      BY <1>1 DEF YoloInv, Threads
    <3>2. idx[dx] \in Rows
      BY <1>2
    <3> QED
      BY <1>1, <1>7, <3>1, <3>2, FilledHold DEF Beats, Overlap, SameLabel, Holds
  <2> QED
    BY <1>2, <1>4, <1>6, <2>1, <2>3, <2>4
<1>8. cleared => KeepRight'
  BY <1>2, <1>5, <1>7 DEF KeepRight
<1> QED
  BY <1>1, <1>4, <1>8, NmsFrame

-----------------------------------------------------------------------------
(* The result *)

\* The result is the boxes of the drawn rows, each once.
LEMMA CollectStep ==
  ASSUME YoloInv, TypeOK', Collect
  PROVE  YoloInv'
<1>1. /\ pc = "nms" /\ pc' = "show" /\ ran = Filled
      /\ UNCHANGED <<kind, img, src, hwc, out, context, thread, index, count, rows,
                     idx, ran, cleared>>
  BY DEF Collect, Goto, inputVars, decodeVars, nmsVars, Filled
<1>2. Filled' = Filled /\ DrawnBoxes' = DrawnBoxes
  BY <1>1 DEF Filled, Rowcount, DrawnBoxes, Drawn, Kept
<1>3. PICK order \in [1 .. Cardinality(Drawn) -> Drawn] :
        /\ \A r \in Drawn : \E i \in DOMAIN order : order[i] = r
        /\ \A i, j \in DOMAIN order : i # j => order[i] # order[j]
        /\ m_objectss' = [i \in DOMAIN order |-> rows[order[i]].box]
  BY CollectProperties
<1>4. Found' = DrawnBoxes
  <2>1. \A r \in Drawn : \E i \in DOMAIN m_objectss' : m_objectss'[i] = rows[r].box
    BY <1>3
  <2>2. \A i \in DOMAIN m_objectss' : \E r \in Drawn : m_objectss'[i] = rows[r].box
    BY <1>3
  <2> QED
    BY <2>1, <2>2 DEF Found, DrawnBoxes
<1>5. cleared => \A i, j \in DOMAIN m_objectss' : i # j => m_objectss'[i] # m_objectss'[j]
  <2> SUFFICES ASSUME cleared, NEW i \in DOMAIN order, NEW j \in DOMAIN order, i # j
               PROVE  rows[order[i]].box # rows[order[j]].box
    BY <1>3
  <2>1. order[i] \in Filled /\ order[j] \in Filled /\ Filled \subseteq Rows
    BY DrawnFinite, RowcountType DEF YoloInv
  <2>2. Holds(order[i])
    <3>1. \A b \in Boxes : thread[b] = "done"
      BY <1>1 DEF YoloInv, Threads
    <3> QED
      BY <1>1, <2>1, <3>1, FilledHold
  <2>3. \A r, s \in Rows : Holds(r) /\ rows[r].box = rows[s].box => r = s
    BY <1>1 DEF YoloInv, RowsHold
  <2> QED
    BY <1>3, <2>1, <2>2, <2>3
<1>6. ResultRight'
  BY <1>1, <1>2, <1>4, <1>5 DEF ResultRight
<1>7. RowsHold'
  BY <1>1 DEF YoloInv, RowsHold, Holds, Reserved, Zero
<1>8. InOrder'
  BY <1>1, <1>2 DEF YoloInv, InOrder, Permutation, Sorted, Conf
<1>9. KeepRight'
  <2>1. \A r, s : (Beats(s, r)' <=> Beats(s, r)) /\ (Compared(s, r)' <=> Compared(s, r))
    BY <1>1, <1>2
       DEF Beats, Before, Overlap, SameLabel, LabelOf, Conf, Compared
  <2> QED
    BY <1>1, <1>2, <2>1 DEF YoloInv, KeepRight
<1> QED
  BY <1>1, <1>2, <1>6, <1>7, <1>8, <1>9
     DEF YoloInv, Flow, Threads, RowsClear, CountExact, RanRows

\* After reset() nothing is left of the picture.
LEMMA ResetStep ==
  ASSUME YoloInv, TypeOK', Reset
  PROVE  YoloInv'
<1>1. /\ pc = "show" /\ pc' = "take" /\ count' = 0 /\ rows' = [r \in Rows |-> Zero]
      /\ m_objectss' = IF Collects(kind) THEN <<>> ELSE m_objectss
      /\ UNCHANGED <<kind, img, src, hwc, out, context, thread, index>>
  BY DEF Reset, Goto, inputVars
<1>2. RowsClear'
  BY <1>1 DEF RowsClear, Rows, Zero
<1> QED
  BY <1>1, <1>2
     DEF YoloInv, Flow, Threads, RowsHold, CountExact, InOrder, KeepRight, RanRows,
         ResultRight, Collects

LEMMA StutterStep ==
  ASSUME YoloInv, TypeOK', UNCHANGED vars
  PROVE  YoloInv'
<1>1. UNCHANGED <<pc, kind, img, src, hwc, out, context, thread, index, count, rows, idx,
                  ran, m_objectss, cleared>>
  BY DEF vars, inputVars, decodeVars, nmsVars
<1>2. Flow' /\ Threads' /\ RowsClear' /\ CountExact' /\ RanRows'
  BY <1>1 DEF YoloInv, Flow, Threads, RowsClear, CountExact, CameBy, Holds, Rows, Zero,
              RanRows, Filled, Rowcount
<1>3. RowsHold'
  BY <1>1 DEF YoloInv, RowsHold, Holds, Reserved, Rows, Zero
<1>4. InOrder'
  BY <1>1 DEF YoloInv, InOrder, Permutation, Sorted, Conf, Filled, Rowcount, Rows
<1>5. KeepRight'
  <2>1. \A r, s : (Beats(s, r)' <=> Beats(s, r)) /\ (Compared(s, r)' <=> Compared(s, r))
    BY <1>1 DEF Beats, Before, Overlap, SameLabel, LabelOf, Conf, Compared, Filled, Rowcount
  <2> QED
    BY <1>1, <2>1 DEF YoloInv, KeepRight, Filled, Rowcount
<1>6. ResultRight'
  <2>1. Filled' = Filled /\ Found' = Found /\ DrawnBoxes' = DrawnBoxes
    BY <1>1 DEF Filled, Rowcount, Found, DrawnBoxes, Drawn, Kept
  <2> QED
    BY <1>1, <2>1 DEF YoloInv, ResultRight, Collects
<1> QED
  BY <1>2, <1>3, <1>4, <1>5, <1>6 DEF YoloInv

LEMMA YoloStep ==
  ASSUME YoloInv, [Next]_vars
  PROVE  YoloInv'
<1>1. TypeOK'
  BY TypeStep
<1> QED
  BY <1>1, BeforeInferStep, InferStep, AtomicAddStep, WriteStep, SortStep, NmsFastStep,
     NmsSortStep, CollectStep, ResetStep, StutterStep DEF Next

\* The inductive invariant holds for any network, any kind of detector and any order
\* of the threads.
THEOREM YoloInvariant == Spec => []YoloInv
<1>1. Init => YoloInv
  BY InitYoloInv
<1>2. YoloInv /\ [Next]_vars => YoloInv'
  BY YoloStep
<1> QED
  BY <1>1, <1>2, PTL DEF Spec

\* Whatever the network does, the device buffers are not overrun.
THEOREM YoloTypeCorrect == Spec => []TypeOK
<1>1. YoloInv => TypeOK
  BY DEF YoloInv
<1> QED
  BY <1>1, YoloInvariant, PTL

\* The threads of the decode kernel stay within the rows and apart from each other.
THEOREM RowsStayApart == Spec => []RowsApart
<1>1. YoloInv => RowsApart
  <2> SUFFICES ASSUME YoloInv, NEW b \in Boxes, thread[b] = "write"
               PROVE  /\ index[b] < topK
                      /\ \A a \in Boxes \ {b} : thread[a] = "write" => index[a] # index[b]
                      /\ rows[index[b] + 1] = Zero \/ ~cleared
    BY DEF RowsApart
  <2>1. /\ index[b] < topK /\ pc = "decode"
        /\ \A a \in Boxes \ {b} : thread[a] = "write" => index[b] # index[a]
    BY DEF YoloInv, Threads
  <2>2. index[b] + 1 \in Rows /\ Reserved(index[b] + 1)
    <3>1. index[b] \in Nat /\ topK \in Nat
      BY YoloAssumption DEF YoloInv, TypeOK
    <3>2. index[b] + 1 \in Rows
      BY <2>1, <3>1 DEF Rows
    <3> QED
      BY <3>2 DEF Reserved
  <2>3. ASSUME cleared
        PROVE  rows[index[b] + 1] = Zero
    BY <2>1, <2>2, <2>3 DEF YoloInv, RowsHold
  <2> QED
    BY <2>1, <2>3
<1> QED
  BY <1>1, YoloInvariant, PTL

-----------------------------------------------------------------------------
(* What suppression comes to *)

\* There is a least element in every non-empty set of numbers.
LEMMA LeastOfNaturals ==
  ASSUME NEW T \in SUBSET Nat, T # {}
  PROVE  \E x \in T : \A y \in T : x <= y
<1>1. IsWellFoundedOn(OpToRel(<, Nat), Nat)
  BY NatLessThanWellFounded
<1>2. PICK x \in T : \A y \in T : ~ (<<y, x>> \in OpToRel(<, Nat))
  BY <1>1, WFMin
<1>3. ASSUME NEW y \in T
      PROVE  x <= y
  <2>1. ~ (y < x)
    BY <1>2 DEF OpToRel
  <2>2. x \in Nat /\ y \in Nat
    OBVIOUS
  <2> QED
    BY <2>1, <2>2
<1> QED
  BY <1>3

Compares == cleared /\ pc \in {"nms", "show"}

LEMMA RowsOfPicture ==
  ASSUME YoloInv, Compares
  PROVE  /\ \A r \in Rows : r \in Filled <=> Holds(r)
         /\ Filled \subseteq Rows
         /\ \A r \in Filled : /\ rows[r].box \in out /\ rows[r].box \in Boxes
                              /\ Conf(r) = Confidence[rows[r].box] /\ Conf(r) \in Nat
                              /\ r \in Nat
         /\ \A r, s \in Filled : rows[r].box = rows[s].box => r = s
         /\ Cardinality(out) <= topK =>
              \A b \in out : \E r \in Filled : rows[r].box = b
<1>1. \A b \in Boxes : thread[b] = "done"
  BY DEF YoloInv, Compares, Threads
<1>2. /\ \A r \in Rows : r \in Filled <=> Holds(r)
      /\ \A r \in Filled : rows[r].box \in out /\ rows[r].box \in Boxes
  BY <1>1, FilledHold DEF Compares
<1>3. TypeOK /\ Filled \subseteq Rows /\ out \subseteq Boxes
  BY RowcountType DEF YoloInv, TypeOK
<1>4. \A r \in Filled : Conf(r) = Confidence[rows[r].box] /\ Conf(r) \in Nat /\ r \in Nat
  BY <1>2, <1>3, ConfType, YoloAssumption DEF Conf, Rows
<1>5. \A r, s \in Filled : rows[r].box = rows[s].box => r = s
  BY <1>2, <1>3 DEF YoloInv, Compares, RowsHold
<1>6. ASSUME Cardinality(out) <= topK, NEW b \in out
      PROVE  \E r \in Filled : rows[r].box = b
  <2>1. PICK r \in Rows : rows[r].box = b
    BY <1>1, <1>3, <1>6 DEF YoloInv, Compares, RowsHold
  <2>2. Holds(r)
    BY <1>3, <2>1, YoloAssumption DEF Holds
  <2> QED
    BY <1>2, <2>1, <2>2
<1> QED
  BY <1>2, <1>3, <1>4, <1>5, <1>6

\* Both kernels compare the rows in a total order, the surer ones first.
LEMMA BeforeIsOrder ==
  ASSUME YoloInv, Compares
  PROVE  /\ \A r \in Filled : ~Before(r, r)
         /\ \A r, s, t \in Filled : Before(r, s) /\ Before(s, t) => Before(r, t)
         /\ \A r, s \in Filled : r # s => Before(r, s) \/ Before(s, r)
         /\ \A r, s \in Filled : Before(r, s) => Conf(r) >= Conf(s)
<1>1. Filled \subseteq Rows /\ \A r \in Filled : Conf(r) \in Nat /\ r \in Nat
  BY RowsOfPicture
<1>2. CASE NmsOf(kind) = "V1"
  <2>1. \A r, s : Before(r, s) <=> Conf(r) > Conf(s) \/ (Conf(r) = Conf(s) /\ r > s)
    BY <1>2 DEF Before
  <2> QED
    BY <1>1, <2>1
<1>3. CASE NmsOf(kind) = "V2"
  <2>1. \A r, s : Before(r, s) <=> \E i, j \in Filled : i < j /\ idx[i] = r /\ idx[j] = s
    BY <1>3 DEF Before
  <2>2. /\ \A i, j \in Filled : idx[i] = idx[j] => i = j
        /\ \A i, j \in Filled : i < j => Conf(idx[i]) >= Conf(idx[j])
        /\ \A r \in Filled : \E i \in Filled : idx[i] = r
    BY <1>1, <1>3 DEF YoloInv, Compares, InOrder, Permutation, Sorted
  <2>3. \A r \in Filled : ~Before(r, r)
    BY <1>1, <2>1, <2>2
  <2>4. ASSUME NEW r \in Filled, NEW s \in Filled, NEW t \in Filled,
               Before(r, s), Before(s, t)
        PROVE  Before(r, t)
    <3>1. PICK i, j \in Filled : i < j /\ idx[i] = r /\ idx[j] = s
      BY <2>1, <2>4
    <3>2. PICK k, l \in Filled : k < l /\ idx[k] = s /\ idx[l] = t
      BY <2>1, <2>4
    <3>3. j = k /\ i \in Nat /\ j \in Nat /\ l \in Nat
      BY <1>1, <2>2, <3>1, <3>2
    <3>4. i < l
      BY <3>1, <3>2, <3>3
    <3> QED
      BY <2>1, <3>1, <3>2, <3>4
  <2>5. ASSUME NEW r \in Filled, NEW s \in Filled, r # s
        PROVE  Before(r, s) \/ Before(s, r)
    <3>1. PICK i \in Filled : idx[i] = r
      BY <2>2
    <3>2. PICK j \in Filled : idx[j] = s
      BY <2>2
    <3>3. i < j \/ j < i
      BY <1>1, <2>5, <3>1, <3>2
    <3> QED
      BY <2>1, <3>1, <3>2, <3>3
  <2>6. \A r, s \in Filled : Before(r, s) => Conf(r) >= Conf(s)
    BY <2>1, <2>2
  <2> QED
    BY <2>3, <2>4, <2>5, <2>6
<1> QED
  BY <1>2, <1>3 DEF NmsOf

\* Among any rows one comes first, and none of them is surer.
LEMMA FirstRow ==
  ASSUME YoloInv, Compares, NEW S \in SUBSET Filled, S # {}
  PROVE  \E f \in S : \A s \in S : ~Before(s, f) /\ Conf(f) >= Conf(s)
<1> DEFINE Earlier(r) == {s \in S : Before(s, r)}
           Rank(r) == Cardinality(Earlier(r))
           T == {Rank(r) : r \in S}
<1>1. /\ IsFiniteSet(S)
      /\ \A r \in S : IsFiniteSet(Earlier(r)) /\ Rank(r) \in Nat
  <2>1. IsFiniteSet(Filled)
    BY RowcountType, FS_Interval DEF YoloInv, Filled
  <2>2. IsFiniteSet(S)
    BY <2>1, FS_Subset
  <2>3. \A r \in S : IsFiniteSet(Earlier(r))
    BY <2>2, FS_Subset
  <2> QED
    BY <2>2, <2>3, FS_CardinalityType
<1>2. PICK n \in T : \A k \in T : n <= k
  <2>1. T \in SUBSET Nat /\ T # {}
    BY <1>1
  <2> HIDE DEF T
  <2> QED
    BY <2>1, LeastOfNaturals
<1>3. PICK f \in S : n = Rank(f)
  OBVIOUS
<1>4. ASSUME NEW s \in S
      PROVE  ~Before(s, f)
  <2> SUFFICES ASSUME Before(s, f)
               PROVE  FALSE
    OBVIOUS
  <2>1. Earlier(s) \in SUBSET Earlier(f) /\ s \in Earlier(f) /\ s \notin Earlier(s)
    BY BeforeIsOrder
  <2>2. IsFiniteSet(Earlier(f)) /\ Rank(s) \in Nat /\ Rank(f) \in Nat
    BY <1>1
  <2>3. Rank(s) <= Rank(f) /\ Rank(s) # Rank(f)
    <3> HIDE DEF Earlier
    <3>1. Rank(s) <= Rank(f) /\ (Rank(f) = Rank(s) => Earlier(f) = Earlier(s))
      BY <2>1, <2>2, FS_Subset
    <3> QED
      BY <2>1, <3>1
  <2>4. Rank(f) <= Rank(s)
    BY <1>2, <1>3
  <2> HIDE DEF Rank
  <2> QED
    BY <2>2, <2>3, <2>4
<1>5. ASSUME NEW s \in S
      PROVE  Conf(f) >= Conf(s)
  <2>1. s = f \/ Before(f, s)
    BY <1>4, BeforeIsOrder
  <2> QED
    BY <2>1, BeforeIsOrder, RowsOfPicture
<1> QED
  BY <1>4, <1>5

\* When all threads have run a row is kept unless one before it overlaps it.
LEMMA KeptExactly ==
  ASSUME YoloInv, Compares, ran = Filled
  PROVE  \A r \in Filled : r \in Kept <=> \A s \in Filled : ~Beats(s, r)
<1> SUFFICES ASSUME NEW r \in Filled
             PROVE  r \in Kept <=> \A s \in Filled : ~Beats(s, r)
  OBVIOUS
<1>1. rows[r].keep = IF \E s \in Filled : Beats(s, r) /\ Compared(s, r) THEN 0 ELSE 1
  BY DEF YoloInv, Compares, KeepRight
<1>2. \A s \in Filled : Compared(s, r)
  <2>1. CASE NmsOf(kind) = "V1"
    BY <2>1 DEF Compared
  <2>2. CASE NmsOf(kind) = "V2"
    BY <2>2 DEF Compared, YoloInv, Compares, InOrder
  <2> QED
    BY <2>1, <2>2 DEF NmsOf
<1> QED
  BY <1>1, <1>2 DEF Kept, Filled

KeptBoxes == {rows[r].box : r \in Kept}

LEMMA DrawnAreVisible == DrawnBoxes = KeptBoxes \ Hidden
BY DEF DrawnBoxes, Drawn, KeptBoxes, Hidden

\* With distinct confidences the order of the threads does not show.
THEOREM OrderIsHidden == Spec => []OrderOfThreadsHidden
<1>1. YoloInv => OrderOfThreadsHidden
  <2> SUFFICES ASSUME YoloInv, Shown, Cardinality(out) <= topK, ~Ties(out)
               PROVE  Found = {b \in out : \A a \in out : ~Better(a, b)} \ Hidden
    BY DEF OrderOfThreadsHidden
  <2>1. Compares /\ ran = Filled /\ Found = KeptBoxes \ Hidden
    BY DrawnAreVisible DEF Shown, Compares, YoloInv, ResultRight
  <2>2. \A r, s \in Filled : Beats(s, r) <=> Better(rows[s].box, rows[r].box)
    <3> SUFFICES ASSUME NEW r \in Filled, NEW s \in Filled
                 PROVE  Beats(s, r) <=> Better(rows[s].box, rows[r].box)
      OBVIOUS
    <3>1. /\ rows[r].box \in out /\ rows[s].box \in out
          /\ Conf(r) = Confidence[rows[r].box] /\ Conf(s) = Confidence[rows[s].box]
          /\ Conf(r) \in Nat /\ Conf(s) \in Nat
          /\ rows[r].box = rows[s].box => r = s
      BY <2>1, RowsOfPicture
    <3>2. rows[r].box # None /\ rows[s].box # None
      BY <3>1, YoloAssumption DEF YoloInv, TypeOK
    <3>3. r # s => Conf(r) # Conf(s)
      BY <3>1 DEF Ties
    <3>4. Before(s, r) <=> Conf(s) > Conf(r)
      <4>1. /\ ~Before(r, r) /\ (r # s => Before(r, s) \/ Before(s, r))
            /\ Before(r, s) => Conf(r) >= Conf(s)
            /\ Before(s, r) => Conf(s) >= Conf(r)
        BY <2>1, BeforeIsOrder
      <4> QED
        BY <3>1, <3>3, <4>1
    <3>5. Overlap(s, r) <=> /\ <<rows[s].box, rows[r].box>> \in Overlaps
                            /\ LabelOf(rows[s].box) = LabelOf(rows[r].box)
      BY <3>2 DEF Overlap, SameLabel
    <3> QED
      BY <3>1, <3>4, <3>5 DEF Beats, Better
  <2>3. KeptBoxes = {b \in out : \A a \in out : ~Better(a, b)}
    <3>1. \A r \in Filled : r \in Kept <=> \A a \in out : ~Better(a, rows[r].box)
      BY <2>1, <2>2, KeptExactly, RowsOfPicture
    <3>2. Kept \subseteq Filled
      BY DrawnFinite DEF YoloInv
    <3>3. /\ \A r \in Filled : rows[r].box \in out
          /\ \A b \in out : \E r \in Filled : rows[r].box = b
      BY <2>1, RowsOfPicture
    <3> QED
      BY <3>1, <3>2, <3>3 DEF KeptBoxes
  <2> QED
    BY <2>1, <2>3
<1> QED
  BY <1>1, YoloInvariant, PTL

\* If copy() is called, what is shown was found in the picture, each object once: only
\* the missing call shows the objects of nothing.
THEOREM ResultOfCopiedPicture ==
  ASSUME CallsCopy
  PROVE  Spec => []ResultOfPicture
<1>1. YoloInv => ResultOfPicture
  <2> SUFFICES ASSUME YoloInv, Shown
               PROVE  /\ Found \subseteq Candidates[img]
                      /\ Cardinality(Found) = Len(m_objectss)
    BY DEF ResultOfPicture
  <2>1. Compares /\ Found = KeptBoxes \ Hidden /\ out = Candidates[img]
    BY DrawnAreVisible DEF Shown, Compares, YoloInv, ResultRight, Flow
  <2>2. Found \subseteq Candidates[img]
    BY <2>1, DrawnFinite, RowsOfPicture DEF KeptBoxes, YoloInv
  <2>3. Cardinality(Found) = Len(m_objectss)
    <3> DEFINE N == Len(m_objectss)
    <3>1. m_objectss \in [1 .. N -> Found] /\ N \in Nat
      BY DEF YoloInv, TypeOK, Found
    <3>2. \A i, j \in DOMAIN m_objectss : i # j => m_objectss[i] # m_objectss[j]
      BY DEF Shown, YoloInv, ResultRight
    <3> HIDE DEF N
    <3>3. m_objectss \in Surjection(1 .. N, Found)
      BY <3>1 DEF Surjection, Found
    <3>4. m_objectss \in Injection(1 .. N, Found)
      BY <3>1, <3>2 DEF Injection, IsInjective
    <3>5. IsFiniteSet(1 .. N) /\ Cardinality(1 .. N) = N
      BY <3>1, FS_Interval
    <3> QED
      BY <3>3, <3>4, <3>5, FS_Surjection DEF N
  <2> QED
    BY <2>2, <2>3
<1> QED
  BY <1>1, YoloInvariant, PTL

-----------------------------------------------------------------------------
(* The promise *)

\* The kept rows justify themselves by the picture.
LEMMA KeptJustified ==
  ASSUME YoloInv, Compares, ran = Filled, out = Candidates[img], img \in Pictures
  PROVE  Promise!Justified(KeptBoxes, img)
<1>1. /\ Kept \subseteq Filled /\ TypeOK
      /\ \A r \in Filled : rows[r].box \in out /\ rows[r].box \in Boxes
      /\ \A r \in Filled : rows[r].box # None
  BY DrawnFinite, RowsOfPicture, YoloAssumption DEF YoloInv
<1>2. KeptBoxes \subseteq Candidates[img]
  BY <1>1 DEF KeptBoxes
<1>3. ASSUME NEW a \in KeptBoxes, NEW b \in KeptBoxes, a # b, LabelOf(a) = LabelOf(b)
      PROVE  <<a, b>> \notin Overlaps
  <2>1. PICK r \in Kept : rows[r].box = a
    BY DEF KeptBoxes
  <2>2. PICK s \in Kept : rows[s].box = b
    BY DEF KeptBoxes
  <2>3. ~Beats(r, s) /\ ~Beats(s, r)
    BY <1>1, KeptExactly
  <2>4. Before(r, s) \/ Before(s, r)
    BY <1>1, <1>3, <2>1, <2>2, BeforeIsOrder
  <2>5. ~Overlap(r, s)
    BY <1>1, <2>3, <2>4, OverlapSymmetric, RowcountType DEF Beats
  <2> QED
    BY <1>1, <1>3, <2>1, <2>2, <2>5 DEF Overlap, SameLabel
<1>4. ASSUME Cardinality(Candidates[img]) <= topK, NEW a \in Candidates[img]
      PROVE  \E b \in KeptBoxes : LabelOf(a) = LabelOf(b) /\ Confidence[b] >= Confidence[a]
  <2>1. PICK r \in Filled : rows[r].box = a
    BY <1>4, RowsOfPicture
  <2> DEFINE S == {s \in Filled : LabelOf(rows[s].box) = LabelOf(a)}
  <2>2. PICK f \in S : \A s \in S : ~Before(s, f) /\ Conf(f) >= Conf(s)
    <3>1. S \in SUBSET Filled /\ r \in S
      BY <2>1
    <3> HIDE DEF S
    <3> QED
      BY <3>1, FirstRow
  <2>3. f \in Kept
    <3>1. \A s \in Filled : ~Beats(s, f)
      BY <2>2 DEF Beats, Overlap, SameLabel
    <3> QED
      BY <3>1, KeptExactly
  <2>4. Confidence[rows[f].box] >= Confidence[a]
    BY <2>1, <2>2, RowsOfPicture
  <2> QED
    BY <2>3, <2>4 DEF KeptBoxes
<1>5. \A b \in KeptBoxes \cup Candidates[img] : b \in Boxes
  BY <1>2, YoloAssumption
<1> QED
  BY <1>2, <1>3, <1>4, <1>5 DEF Promise!Justified, Promise!SameLabel

\* No detector changes its kind.
LEMMA SameView ==
  ASSUME UNCHANGED kind
  PROVE  UNCHANGED [label |-> [b \in Boxes |-> LabelOf(b)], hidden |-> Hidden]
BY DEF LabelOf, Hidden

LEMMA PromiseTake ==
  ASSUME YoloInv, NEW p \in Pictures, Take(p)
  PROVE  Promise!Take
<1>1. pc = "take" /\ pc' = "copy" /\ img' = p /\ UNCHANGED kind
  BY DEF Take, Goto
<1> QED
  BY <1>1, SameView DEF Promise!Take

LEMMA PromiseShow ==
  ASSUME CallsCopy, YoloInv, YoloInv', Collect
  PROVE  Promise!Show
<1>1. /\ pc = "nms" /\ pc' = "show" /\ ran = Filled
      /\ UNCHANGED <<kind, img, out, context, count, rows, cleared>>
      /\ img \in Pictures /\ img # None
  BY YoloAssumption DEF Collect, Goto, inputVars, decodeVars, nmsVars, Filled, YoloInv, Flow
<1>2. m_objectss' # None /\ <<None>> # None
  <2>1. m_objectss' \in Seq(Boxes \cup {None}) /\ <<None>> \in Seq(Boxes \cup {None})
    BY DEF YoloInv, TypeOK
  <2> QED
    BY <2>1, YoloAssumption
<1>3. UNCHANGED [label |-> [b \in Boxes |-> LabelOf(b)], hidden |-> Hidden]
  BY <1>1, SameView
<1>4. CASE ~(cleared /\ context)
  BY <1>1, <1>2, <1>3, <1>4 DEF Promise!Show
<1>5. CASE cleared /\ context
  <2>1. Promise!Objects(m_objectss') = KeptBoxes \ Hidden /\ Promise!Once(m_objectss')
    <3>1. Found' = DrawnBoxes'
      BY <1>1, <1>5 DEF YoloInv, ResultRight
    <3>2. DrawnBoxes' = DrawnBoxes
      BY <1>1 DEF DrawnBoxes, Drawn, Kept, Rowcount
    <3>3. Promise!Objects(m_objectss') = Found'
      BY DEF Promise!Objects, Found
    <3>4. Promise!Once(m_objectss')
      BY <1>1, <1>5 DEF YoloInv, ResultRight, Promise!Once
    <3> QED
      BY <3>1, <3>2, <3>3, <3>4, DrawnAreVisible
  <2>2. Promise!Justified(KeptBoxes, img)
    <3>1. Compares /\ out = Candidates[img]
      BY <1>1, <1>5 DEF Compares, YoloInv, Flow
    <3> QED
      BY <1>1, <3>1, KeptJustified
  <2>3. KeptBoxes \subseteq Candidates[img]
    BY <2>2 DEF Promise!Justified
  <2>4. \E hidden \in SUBSET (Hidden \cap Candidates[img]) :
          /\ Promise!Objects(m_objectss') \cap Hidden = {}
          /\ Promise!Justified(Promise!Objects(m_objectss') \cup hidden, img)
    <3>1. Promise!Objects(m_objectss') \cup (KeptBoxes \cap Hidden) = KeptBoxes
      BY <2>1
    <3>2. KeptBoxes \cap Hidden \in SUBSET (Hidden \cap Candidates[img])
      BY <2>3
    <3> QED
      BY <2>1, <2>2, <3>1, <3>2
  <2> QED
    BY <1>1, <1>2, <1>3, <1>5, <2>1, <2>4 DEF Promise!Show
<1> QED
  BY <1>4, <1>5

LEMMA PromiseDone ==
  ASSUME YoloInv, Reset
  PROVE  Promise!Done
<1>1. pc = "show" /\ pc' = "take" /\ UNCHANGED kind
  BY DEF Reset, Goto, inputVars
<1>2. m_objectss # None /\ <<None>> # None
  <2>1. m_objectss \in Seq(Boxes \cup {None}) /\ <<None>> \in Seq(Boxes \cup {None})
    BY DEF YoloInv, TypeOK
  <2> QED
    BY <2>1, YoloAssumption
<1> QED
  BY <1>1, <1>2, SameView DEF Promise!Done

\* The way of the picture and the threads cannot be seen.
LEMMA PromiseStutter ==
  ASSUME YoloInv, \/ Copy \/ Preprocess \/ Infer
                  \/ \E b \in Boxes : AtomicAdd(b) \/ Write(b)
                  \/ SortByKey
                  \/ \E dx \in Rows : NmsFast(dx) \/ NmsSort(dx)
                  \/ UNCHANGED vars
  PROVE  UNCHANGED Promise!resultVars
<1> USE DEF Goto, inputVars, decodeVars, nmsVars
<1>1. CASE UNCHANGED vars
  <2>1. UNCHANGED <<pc, kind, img, m_objectss, cleared, context>>
    BY <1>1 DEF vars
  <2> QED
    BY <2>1, SameView DEF Promise!resultVars
<1>2. ASSUME pc \notin {"take", "show"}, pc' \notin {"take", "show"}, UNCHANGED <<kind, img>>
      PROVE  UNCHANGED Promise!resultVars
  BY <1>2, SameView DEF Promise!resultVars
<1>3. CASE Copy \/ Preprocess \/ Infer \/ SortByKey
  BY <1>2, <1>3 DEF Copy, Preprocess, Infer, SortByKey
<1>4. CASE \E b \in Boxes : AtomicAdd(b) \/ Write(b)
  BY <1>2, <1>4 DEF AtomicAdd, Write
<1>5. CASE \E dx \in Rows : NmsFast(dx) \/ NmsSort(dx)
  BY <1>2, <1>5 DEF NmsFast, NmsSort, NmsThread
<1> QED
  BY <1>1, <1>3, <1>4, <1>5

\* A yolo detector that calls copy() keeps the promise of DetectionResult.
THEOREM YoloKeepsPromise ==
  ASSUME CallsCopy
  PROVE  Spec => ImplementsDetection
<1>1. Init => Promise!Init
  BY DEF Init, Promise!Init
<1>2. YoloInv /\ YoloInv' /\ [Next]_vars => [Promise!Next]_(Promise!resultVars)
  <2> SUFFICES ASSUME YoloInv, YoloInv', [Next]_vars
               PROVE  Promise!Next \/ UNCHANGED Promise!resultVars
    OBVIOUS
  <2> QED
    BY PromiseTake, PromiseShow, PromiseDone, PromiseStutter DEF Next, Promise!Next
<1> QED
  BY <1>1, <1>2, YoloInvariant, PTL DEF Spec, ImplementsDetection, Promise!Spec
==============================================================================
