-------------------------- MODULE WxDetectionProofs --------------------------
(***************************************************************************)
(* Proofs about WxDetection for any network, any number of threads, rows   *)
(* and objects, and any order of the threads.                              *)
(***************************************************************************)
EXTENDS WxDetection, TLAPS, FiniteSetTheorems, SequenceTheorems

(***************************************************************************)
(* The inductive invariant, first of CalDetection.  A thread looks at a    *)
(* suffix of its anchors.  The rows up to the count are reserved by one    *)
(* thread each or hold an object of the picture, and as long as the count  *)
(* is within the rows, every anchor a thread is done with is in a row and  *)
(* the count is that of the anchors that took one.                         *)
(***************************************************************************)
Done(c) == Len(Anchors[img][c]) - Len(todo[c])
InRow(c) == Done(c) + (IF row[c] = 0 THEN 0 ELSE 1)
Counted == {a \in Anchorage(img) : a[2] <= InRow(a[1])}
Reserved(r) == \E c \in Cells : row[c] = r
Filled(r) == r \in Rows /\ r <= count /\ ~Reserved(r)

InPicture == pc # "take" => img \in Pictures

ThreadsRest == pc # "kernel" => todo = Idle /\ \A c \in Cells : row[c] = 0

RowsReserved ==
  /\ \A c \in Cells : row[c] # 0 => todo[c] # <<>> /\ row[c] <= count
  /\ \A c, d \in Cells : c # d /\ row[c] # 0 => row[c] # row[d]

Suffixes ==
  pc = "kernel" /\ fresh => \A c \in Cells :
    /\ Len(todo[c]) <= Len(Anchors[img][c])
    /\ \A i \in DOMAIN todo[c] : todo[c][i] = Anchors[img][c][Done(c) + i]

RowsFilled ==
  pc = "kernel" /\ fresh =>
    /\ \A r \in Rows : Filled(r) => rows[r] \in Objects(img)
    /\ count <= MaxRows => \A c \in Cells : \A i \in 1 .. Done(c) :
         \E r \in Rows : Filled(r) /\ rows[r] = Anchors[img][c][i]

CountExact ==
  pc = "kernel" /\ fresh =>
    IF count <= MaxRows THEN count = Cardinality(Counted) ELSE ~Fits(img)

KernelInv == /\ TypeOK /\ InPicture /\ ThreadsRest /\ RowsReserved /\ Suffixes
             /\ RowsFilled /\ CountExact

\* Once the buffer is copied: it holds objects of the picture, all of them if
\* they all found a row.
Reading == pc \in {"classes", "outer", "inner", "show"}

OutputOfPicture ==
  Reading /\ fresh =>
    /\ Taken(output) \subseteq AboveThreshold(img)
    /\ output.count <= MaxRows => AboveThreshold(img) = Taken(output)
    /\ Fits(img) => output.count <= MaxRows

(***************************************************************************)
(* Then of nms().  Above the threshold there are the objects of the        *)
(* classes that wait, those shown, those a shown one overlaps, and in the  *)
(* loops those still in the vector.  The vector is sorted and holds no     *)
(* object twice; up to the present item it is the part of the result that  *)
(* has its class, and these objects do not overlap what comes after them.  *)
(***************************************************************************)
Looping == pc \in {"outer", "inner"}
Items == IF pc = "inner" THEN m + 1 ELSE m
Dets == {dets[i] : i \in DOMAIN dets}

Suppressed(b) == \E f \in Found : /\ Label[f] = Label[b]
                                  /\ Confidence[f] >= Confidence[b]
                                  /\ <<f, b>> \in Overlaps

NothingYet == ~Reading => res = <<>>

ResultApart ==
  /\ Reading => Found \subseteq Taken(output)
  /\ \A f \in Found : Label[f] \notin classes
  /\ \A i, j \in DOMAIN res : i # j =>
       /\ res[i] # res[j]
       /\ Label[res[i]] = Label[res[j]] => <<res[i], res[j]>> \notin Overlaps

NothingForgotten ==
  Reading => \A b \in Taken(output) : \/ Label[b] \in classes
                                       \/ b \in Found
                                       \/ Suppressed(b)
                                       \/ (Looping /\ b \in Dets)

VectorSorted ==
  Looping =>
    /\ \A i \in DOMAIN dets : dets[i] \in Taken(output) /\ Label[dets[i]] \notin classes
    /\ \A i, j \in DOMAIN dets :
         /\ Label[dets[i]] = Label[dets[j]]
         /\ i < j => dets[i] # dets[j] /\ Confidence[dets[i]] >= Confidence[dets[j]]

ItemsShown ==
  Looping =>
    /\ \A i \in DOMAIN dets : i <= Items => dets[i] \in Found
    /\ \A f \in Found : \A i \in DOMAIN dets : Label[f] = Label[dets[i]] =>
         \E j \in DOMAIN dets : j <= Items /\ dets[j] = f

ItemsApart ==
  /\ pc = "inner" => /\ m < n /\ n <= Len(dets)
                     /\ res # <<>> /\ res[Len(res)] = dets[m + 1]
                     /\ \A j \in m + 2 .. n : <<dets[m + 1], dets[j]>> \notin Overlaps
  /\ Looping => \A i, j \in DOMAIN dets :
                  i <= m /\ i < j => <<dets[i], dets[j]>> \notin Overlaps

AllClasses == pc = "show" => classes = {}

NmsInv == /\ NothingYet /\ ResultApart /\ NothingForgotten /\ VectorSorted
          /\ ItemsShown /\ ItemsApart /\ AllClasses

WxInv == KernelInv /\ OutputOfPicture /\ NmsInv

-----------------------------------------------------------------------------

\* What erase() leaves of a vector.
LEMMA EraseProperties ==
  ASSUME NEW S, NEW s \in Seq(S), NEW k \in 1 .. Len(s)
  PROVE  /\ Erase(s, k) \in Seq(S)
         /\ Len(Erase(s, k)) = Len(s) - 1
         /\ \A i \in 1 .. Len(s) - 1 :
              Erase(s, k)[i] = IF i < k THEN s[i] ELSE s[i + 1]
<1> DEFINE front == SubSeq(s, 1, k - 1)
           back == SubSeq(s, k + 1, Len(s))
<1>1. /\ front \in Seq(S) /\ Len(front) = k - 1
      /\ \A i \in 1 .. k - 1 : front[i] = s[i]
  <2>1. \A i \in 1 .. k - 1 : s[i] \in S
    OBVIOUS
  <2> QED
    BY <2>1, SubSeqProperties
<1>2. /\ back \in Seq(S) /\ Len(back) = Len(s) - k
      /\ \A i \in 1 .. Len(s) - k : back[i] = s[k + i]
  <2>1. \A i \in k + 1 .. Len(s) : s[i] \in S
    OBVIOUS
  <2>2. /\ back \in Seq(S)
        /\ Len(back) = IF k + 1 <= Len(s) THEN Len(s) - (k + 1) + 1 ELSE 0
        /\ \A i \in 1 .. Len(s) - (k + 1) + 1 : back[i] = s[k + 1 + i - 1]
    BY <2>1, SubSeqProperties
  <2> QED
    BY <2>2
<1>3. /\ Erase(s, k) \in Seq(S)
      /\ Len(Erase(s, k)) = Len(s) - 1
      /\ \A i \in 1 .. Len(s) - 1 :
           Erase(s, k)[i] = IF i <= k - 1 THEN front[i] ELSE back[i - (k - 1)]
  <2> HIDE DEF front, back
  <2>1. Erase(s, k) = front \o back
    BY DEF Erase, front, back
  <2>2. front \in Seq(S) /\ back \in Seq(S)
    BY <1>1, <1>2
  <2>3. /\ front \o back \in Seq(S)
        /\ Len(front \o back) = Len(front) + Len(back)
        /\ \A i \in 1 .. Len(front) + Len(back) :
             (front \o back)[i] = IF i <= Len(front) THEN front[i]
                                 ELSE back[i - Len(front)]
    BY <2>2, ConcatProperties
  <2>4. Len(front) = k - 1 /\ Len(front) + Len(back) = Len(s) - 1
    BY <1>1, <1>2
  <2>5. \A i \in 1 .. Len(s) - 1 :
          (front \o back)[i] = IF i <= k - 1 THEN front[i] ELSE back[i - (k - 1)]
    BY <2>3, <2>4
  <2> QED
    BY <2>1, <2>3, <2>4, <2>5
<1> QED
  <2> SUFFICES ASSUME NEW i \in 1 .. Len(s) - 1
               PROVE  Erase(s, k)[i] = IF i < k THEN s[i] ELSE s[i + 1]
    BY <1>3
  <2> HIDE DEF front, back
  <2>1. CASE i < k
    <3>1. i \in 1 .. k - 1 /\ i <= k - 1
      BY <2>1
    <3>2. Erase(s, k)[i] = front[i]
      BY <1>3, <3>1
    <3> QED
      BY <1>1, <2>1, <3>1, <3>2
  <2>2. CASE i >= k
    <3>1. i - (k - 1) \in 1 .. Len(s) - k /\ k + (i - (k - 1)) = i + 1
      BY <2>2
    <3> QED
      BY <1>2, <1>3, <2>2, <3>1
  <2> QED
    BY <2>1, <2>2

\* The anchors of a picture are finitely many.
LEMMA AnchorageFinite ==
  ASSUME NEW p \in Pictures
  PROVE  IsFiniteSet(Anchorage(p))
<1> DEFINE Own(c) == {c} \X DOMAIN Anchors[p][c]
           All == {Own(c) : c \in Cells}
<1>1. \A c \in Cells : IsFiniteSet(Own(c))
  <2> SUFFICES ASSUME NEW c \in Cells
               PROVE  IsFiniteSet(Own(c))
    OBVIOUS
  <2>1. DOMAIN Anchors[p][c] = 1 .. Len(Anchors[p][c]) /\ Len(Anchors[p][c]) \in Nat
    BY WxAssumption
  <2>2. IsFiniteSet(DOMAIN Anchors[p][c])
    BY <2>1, FS_Interval
  <2> QED
    BY <2>2, FS_Singleton, FS_Product
<1>2. [c \in Cells |-> Own(c)] \in Surjection(Cells, All)
  BY DEF Surjection
<1>3. IsFiniteSet(All)
  BY <1>2, FS_Surjection, WxAssumption
<1>4. IsFiniteSet(UNION All)
  <2>1. \A T \in All : IsFiniteSet(T)
    BY <1>1
  <2> HIDE DEF All
  <2> QED
    BY <1>3, <2>1, FS_UNION
<1> QED
  BY <1>4 DEF Anchorage

\* What a buffer holds above the threshold are finitely many objects.
LEMMA TakenFinite ==
  ASSUME NEW out, out \in [count : Nat, rows : [Rows -> Boxes \cup {None}]]
  PROVE  IsFiniteSet(Taken(out)) /\ Taken(out) \subseteq Boxes
<1> DEFINE All == {out.rows[r] : r \in Rows}
<1>1. IsFiniteSet(Rows)
  BY FS_Interval, WxAssumption DEF Rows
<1>2. out.rows \in Surjection(Rows, All)
  BY DEF Surjection
<1>3. IsFiniteSet(All)
  BY <1>1, <1>2, FS_Surjection
<1>4. Taken(out) \in SUBSET All /\ Taken(out) \subseteq Boxes
  BY DEF Taken
<1> QED
  BY <1>3, <1>4, FS_Subset

\* std::sort leaves every object of the class once.
LEMMA ArrangementProperties ==
  ASSUME NEW S, IsFiniteSet(S), NEW s \in Arrangements(S)
  PROVE  /\ s \in Seq(S)
         /\ \A b \in S : \E i \in DOMAIN s : s[i] = b
         /\ \A i, j \in DOMAIN s : i # j => s[i] # s[j]
         /\ \A i, j \in DOMAIN s : i < j => Confidence[s[i]] >= Confidence[s[j]]
<1> DEFINE N == Cardinality(S)
<1>1. N \in Nat
  BY FS_CardinalityType
<1>2. /\ s \in [1 .. N -> S]
      /\ \A b \in S : \E i \in DOMAIN s : s[i] = b
      /\ \A i, j \in DOMAIN s : i < j => Confidence[s[i]] >= Confidence[s[j]]
  BY DEF Arrangements
<1>3. s \in Surjection(1 .. N, S)
  BY <1>2 DEF Surjection
<1>4. IsFiniteSet(1 .. N) /\ Cardinality(1 .. N) = N
  BY <1>1, FS_Interval
<1>5. s \in Injection(1 .. N, S)
  BY <1>3, <1>4, FS_SurjSameCardinalityImpliesInj
<1>6. \A i, j \in DOMAIN s : i # j => s[i] # s[j]
  BY <1>2, <1>5 DEF Injection, IsInjective
<1>7. s \in Seq(S)
  BY <1>1, <1>2
<1> QED
  BY <1>2, <1>6, <1>7

-----------------------------------------------------------------------------

LEMMA InitWxInv == Init => WxInv
<1> SUFFICES ASSUME Init
             PROVE  WxInv
  OBVIOUS
<1> USE DEF Init, Idle
<1>1. TypeOK
  <2>1. todo \in [Cells -> Seq(Boxes)] /\ row \in [Cells -> 0 .. MaxRows]
    BY WxAssumption
  <2>2. count \in Nat /\ rows \in [Rows -> Boxes \cup {None}]
    BY WxAssumption
  <2>3. output \in [count : Nat, rows : [Rows -> Boxes \cup {None}]]
    BY <2>2
  <2>4. dets \in Seq(Boxes) /\ res \in Seq(Boxes)
    BY EmptySeq
  <2>5. pc = "take" /\ img \in Pictures \cup {None} /\ fresh \in BOOLEAN
    OBVIOUS
  <2>6. classes \subseteq Nat /\ {m, n} \subseteq Nat
    OBVIOUS
  <2> HIDE DEF Init
  <2> QED
    BY <2>1, <2>2, <2>3, <2>4, <2>5, <2>6 DEF TypeOK
<1>2. KernelInv
  BY <1>1 DEF KernelInv, InPicture, ThreadsRest, RowsReserved, Suffixes, RowsFilled,
              CountExact
<1>3. OutputOfPicture
  BY DEF OutputOfPicture, Reading
<1>4. NmsInv
  BY DEF NmsInv, NothingYet, ResultApart, NothingForgotten, VectorSorted, ItemsShown,
         ItemsApart, AllClasses, Reading, Looping, Found
<1> QED
  BY <1>2, <1>3, <1>4 DEF WxInv

\* Every value stays in its type; a row is only taken while there is one.
LEMMA TypeStep ==
  ASSUME WxInv, [Next]_vars
  PROVE  TypeOK'
<1> USE DEF Goto, kernelVars, nmsVars
<1>0. TypeOK
  BY DEF WxInv, KernelInv
<1>1. ASSUME NEW p \in Pictures, Take(p)
      PROVE  TypeOK'
  BY <1>0, <1>1 DEF TypeOK, Take
<1>2. CASE Enqueue
  <2>1. img \in Pictures
    BY <1>2 DEF Enqueue, WxInv, KernelInv, InPicture
  <2>2. Anchors[img] \in [Cells -> Seq(Boxes)]
    BY <2>1, WxAssumption
  <2>3. CASE fresh' = TRUE /\ count' = 0 /\ todo' = Anchors[img]
    BY <1>0, <1>2, <2>2, <2>3 DEF TypeOK, Enqueue
  <2>4. CASE fresh' = FALSE /\ UNCHANGED <<count, todo>>
    BY <1>0, <1>2, <2>4 DEF TypeOK, Enqueue
  <2> QED
    BY <1>2, <2>3, <2>4 DEF Enqueue
<1>3. ASSUME NEW c \in Cells, AtomicAdd(c)
      PROVE  TypeOK'
  <2>1. count + 1 \in 0 .. MaxRows
    BY <1>0, <1>3, WxAssumption DEF TypeOK, AtomicAdd
  <2> QED
    BY <1>0, <1>3, <2>1 DEF TypeOK, AtomicAdd
<1>4. ASSUME NEW c \in Cells, NoRow(c)
      PROVE  TypeOK'
  <2>1. <<>> \in Seq(Boxes)
    OBVIOUS
  <2> QED
    BY <1>0, <1>4, <2>1 DEF TypeOK, NoRow
<1>5. ASSUME NEW c \in Cells, Write(c)
      PROVE  TypeOK'
  <2>1. todo[c] \in Seq(Boxes) /\ todo[c] # <<>>
    BY <1>0, <1>5 DEF TypeOK, Write, WxInv, KernelInv, RowsReserved
  <2>2. Head(todo[c]) \in Boxes /\ Tail(todo[c]) \in Seq(Boxes)
    BY <2>1
  <2>3. todo' \in [Cells -> Seq(Boxes)] /\ rows' \in [Rows -> Boxes \cup {None}]
    BY <1>0, <1>5, <2>2 DEF TypeOK, Write
  <2>4. row' \in [Cells -> 0 .. MaxRows]
    BY <1>0, <1>5, WxAssumption DEF TypeOK, Write
  <2> QED
    BY <1>0, <1>5, <2>3, <2>4 DEF TypeOK, Write
<1>6. CASE Synchronize
  <2>1. output' \in [count : Nat, rows : [Rows -> Boxes \cup {None}]]
    BY <1>0, <1>6 DEF TypeOK, Synchronize
  <2>2. Taken(output') \subseteq Boxes
    BY <2>1, TakenFinite
  <2>3. classes' \subseteq Nat
    BY <1>6, <2>2, WxAssumption DEF Synchronize
  <2> QED
    BY <1>0, <1>6, <2>1, <2>3 DEF TypeOK, Synchronize
<1>7. ASSUME NEW l \in classes, NextClass(l)
      PROVE  TypeOK'
  <2>1. IsFiniteSet(Taken(output)) /\ Taken(output) \subseteq Boxes
    BY <1>0, TakenFinite DEF TypeOK
  <2>2. IsFiniteSet(InClass(output, l)) /\ InClass(output, l) \subseteq Boxes
    BY <2>1, FS_Subset DEF InClass
  <2>3. dets' \in Seq(InClass(output, l))
    BY <1>7, <2>2, ArrangementProperties DEF NextClass
  <2>4. dets' \in Seq(Boxes)
    BY <2>2, <2>3, SeqMonotonic
  <2> QED
    BY <1>0, <1>7, <2>4 DEF TypeOK, NextClass
<1>8. CASE Item
  <2>1. dets[m + 1] \in Boxes
    BY <1>0, <1>8 DEF TypeOK, Item
  <2> QED
    BY <1>0, <1>8, <2>1 DEF TypeOK, Item
<1>9. CASE Suppress
  <2>1. n + 1 \in 1 .. Len(dets)
    BY <1>0, <1>9 DEF TypeOK, Suppress
  <2>2. Erase(dets, n + 1) \in Seq(Boxes)
    BY <1>0, <2>1, EraseProperties DEF TypeOK
  <2> QED
    BY <1>0, <1>9, <2>2 DEF TypeOK, Suppress
<1>10. CASE Keep \/ NextItem \/ EndOfClass
  <2>1. {m', n'} \subseteq Nat
    BY <1>0, <1>10 DEF TypeOK, Keep, NextItem, EndOfClass
  <2>2. pc' \in {"classes", "outer", "inner"}
    BY <1>10 DEF Keep, NextItem, EndOfClass
  <2>3. UNCHANGED <<img, todo, row, count, rows, output, classes, dets, res, fresh>>
    BY <1>10 DEF Keep, NextItem, EndOfClass
  <2> QED
    BY <1>0, <2>1, <2>2, <2>3 DEF TypeOK
<1>11. CASE EndOfClasses
  BY <1>0, <1>11 DEF TypeOK, EndOfClasses
<1>12. CASE Draw
  BY <1>0, <1>12 DEF TypeOK, Draw
<1>13. CASE UNCHANGED vars
  BY <1>0, <1>13 DEF TypeOK, vars
<1> QED
  BY <1>1, <1>2, <1>3, <1>4, <1>5, <1>6, <1>7, <1>8, <1>9, <1>10, <1>11, <1>12,
     <1>13 DEF Next, DetectImg, CalDetection, Nms

-----------------------------------------------------------------------------
(* CalDetection *)

\* Outside the kernel its threads rest.
LEMMA QuietKernelStep ==
  ASSUME WxInv, TypeOK',
         \/ \E p \in Pictures : Take(p)
         \/ Synchronize \/ Nms \/ Draw
         \/ UNCHANGED vars /\ pc # "kernel"
  PROVE  KernelInv'
<1> USE DEF Goto, kernelVars, nmsVars
<1>1. /\ pc' # "kernel" /\ UNCHANGED <<todo, row, count, rows>>
      /\ pc = "kernel" => todo = Idle
      /\ pc' # "take" => img' \in Pictures
  <2> USE DEF WxInv, KernelInv, InPicture
  <2>1. CASE \E p \in Pictures : Take(p)
    BY <2>1 DEF Take
  <2>2. CASE Synchronize
    BY <2>2 DEF Synchronize
  <2>3. CASE Nms
    BY <2>3 DEF Nms, NextClass, Item, Suppress, Keep, NextItem, EndOfClass, EndOfClasses
  <2>4. CASE Draw
    BY <2>4 DEF Draw
  <2>5. CASE UNCHANGED vars /\ pc # "kernel"
    BY <2>5 DEF vars
  <2> QED
    BY <2>1, <2>2, <2>3, <2>4, <2>5
<1>2. todo = Idle /\ \A c \in Cells : row[c] = 0
  BY <1>1 DEF WxInv, KernelInv, ThreadsRest, RowsReserved, Idle
<1> QED
  BY <1>1, <1>2 DEF WxInv, KernelInv, InPicture, ThreadsRest, RowsReserved, Suffixes,
     RowsFilled, CountExact

\* The threads begin with all their anchors and no row, or not at all.
LEMMA EnqueueStep ==
  ASSUME WxInv, TypeOK', Enqueue
  PROVE  KernelInv'
<1> USE DEF Goto
<1>1. /\ pc = "enqueue" /\ pc' = "kernel" /\ UNCHANGED <<img, row, rows>>
      /\ \A c \in Cells : row[c] = 0 /\ row'[c] = 0
      /\ img \in Pictures
  BY DEF Enqueue, WxInv, KernelInv, ThreadsRest, InPicture
<1>2. CASE fresh' = TRUE /\ count' = 0 /\ todo' = Anchors[img]
  <2>1. \A c \in Cells : Anchors[img][c] \in Seq(Boxes)
    BY <1>1, WxAssumption
  <2>2. \A c \in Cells : Done(c)' = 0 /\ InRow(c)' = 0
    BY <1>1, <1>2, <2>1 DEF Done, InRow
  <2>3. Suffixes'
    BY <1>1, <1>2, <2>1, <2>2 DEF Suffixes
  <2>4. RowsFilled'
    BY <1>1, <1>2, <2>2 DEF RowsFilled, Filled, Rows
  <2>5. Counted' = {}
    <3>1. \A a \in Anchorage(img)' : a[1] \in Cells /\ a[2] \in Nat /\ ~(a[2] <= 0)
      BY <1>1, <2>1 DEF Anchorage
    <3> QED
      BY <2>2, <3>1 DEF Counted
  <2>6. CountExact'
    BY <1>2, <2>5, FS_EmptySet, WxAssumption DEF CountExact
  <2> QED
    BY <1>1, <2>3, <2>4, <2>6 DEF KernelInv, InPicture, ThreadsRest, RowsReserved
<1>3. CASE fresh' = FALSE
  BY <1>1, <1>3
     DEF KernelInv, InPicture, ThreadsRest, RowsReserved, Suffixes, RowsFilled, CountExact
<1> QED
  BY <1>2, <1>3 DEF Enqueue

\* A thread that takes the next row is alone in it; its anchor is counted.
LEMMA AtomicAddStep ==
  ASSUME WxInv, TypeOK', NEW c \in Cells, AtomicAdd(c)
  PROVE  KernelInv'
<1>1. /\ pc = "kernel" /\ pc' = "kernel" /\ todo[c] # <<>> /\ row[c] = 0
      /\ count < MaxRows /\ count' = count + 1
      /\ row' = [row EXCEPT ![c] = count + 1]
      /\ UNCHANGED <<img, todo, rows, fresh>>
  BY DEF AtomicAdd
<1>2. /\ TypeOK /\ img \in Pictures /\ row \in [Cells -> 0 .. MaxRows] /\ count \in Nat
      /\ todo \in [Cells -> Seq(Boxes)]
  BY <1>1 DEF WxInv, KernelInv, InPicture, TypeOK
<1>3. RowsReserved'
  BY <1>1, <1>2 DEF WxInv, KernelInv, RowsReserved
<1>4. \A r : Filled(r)' <=> Filled(r)
  BY <1>1, <1>2, WxAssumption DEF Filled, Reserved, WxInv, KernelInv, RowsReserved, Rows
<1>5. Suffixes'
  BY <1>1 DEF WxInv, KernelInv, Suffixes, Done
<1>6. RowsFilled'
  <2>1. /\ \A d \in Cells : Done(d)' = Done(d)
        /\ count' <= MaxRows => count <= MaxRows
        /\ Objects(img)' = Objects(img)
    BY <1>1, <1>2, WxAssumption DEF Done, Objects
  <2> QED
    BY <1>1, <1>4, <2>1 DEF WxInv, KernelInv, RowsFilled
<1>7. CountExact'
  <2> SUFFICES ASSUME fresh
               PROVE  count' <= MaxRows /\ count' = Cardinality(Counted')
    BY <1>1, <1>2, WxAssumption DEF CountExact
  <2>1. /\ Anchors[img] \in [Cells -> Seq(Boxes)]
        /\ \A d \in Cells : Len(Anchors[img][d]) \in Nat /\ Len(todo[d]) \in Nat
    BY <1>2, WxAssumption
  <2> DEFINE a == <<c, Done(c) + 1>>
  <2>2. a \in Anchorage(img) /\ a \notin Counted
    <3>1. Done(c) \in Nat /\ Done(c) + 1 <= Len(Anchors[img][c])
      BY <1>1, <1>2, <2>1 DEF WxInv, KernelInv, Suffixes, Done
    <3>2. Done(c) + 1 \in DOMAIN Anchors[img][c]
      BY <2>1, <3>1
    <3> QED
      BY <1>1, <3>1, <3>2 DEF Anchorage, Counted, InRow
  <2>3. Counted' = Counted \cup {a}
    <3>1. \A d \in Cells : InRow(d)' = IF d = c THEN Done(c) + 1 ELSE InRow(d)
      <4>1. \A d \in Cells : Done(d)' = Done(d) /\ Done(d) \in Int
        BY <1>1, <2>1 DEF Done
      <4>2. \A d \in Cells : row'[d] = IF d = c THEN count + 1 ELSE row[d]
        BY <1>1, <1>2
      <4> QED
        BY <1>2, <4>1, <4>2 DEF InRow
    <3>2. InRow(c) = Done(c)
      BY <1>1, <2>1 DEF InRow, Done
    <3>3. \A x \in Anchorage(img) : /\ x = <<x[1], x[2]>> /\ x[1] \in Cells
                                    /\ x[2] \in Nat
      BY <2>1 DEF Anchorage
    <3>4. Done(c) \in Int
      BY <2>1 DEF Done
    <3>5. ASSUME NEW x \in Anchorage(img)
          PROVE  x[2] <= InRow(x[1])' <=> x[2] <= InRow(x[1]) \/ x = a
      BY <3>1, <3>2, <3>3, <3>4
    <3>6. Anchorage(img)' = Anchorage(img)
      BY <1>1 DEF Anchorage
    <3> QED
      BY <2>2, <3>5, <3>6 DEF Counted
  <2>4. IsFiniteSet(Counted)
    BY <1>2, AnchorageFinite, FS_Subset DEF Counted
  <2>5. count = Cardinality(Counted)
    BY <1>1, <1>2, WxAssumption DEF WxInv, KernelInv, CountExact
  <2>6. Cardinality(Counted \cup {a}) = Cardinality(Counted) + 1
    <3> HIDE DEF a
    <3> QED
      BY <2>2, <2>4, FS_AddElement
  <2>7. count' = Cardinality(Counted')
    BY <1>1, <2>3, <2>5, <2>6
  <2> QED
    BY <1>1, <1>2, <2>7, WxAssumption
<1> QED
  BY <1>1, <1>2, <1>3, <1>5, <1>6, <1>7 DEF KernelInv, InPicture, ThreadsRest

\* A thread that finds no row shows that not all anchors have one.
LEMMA NoRowStep ==
  ASSUME WxInv, TypeOK', NEW c \in Cells, NoRow(c)
  PROVE  KernelInv'
<1>1. /\ pc = "kernel" /\ pc' = "kernel" /\ todo[c] # <<>> /\ row[c] = 0
      /\ count >= MaxRows /\ count' = count + 1
      /\ todo' = [todo EXCEPT ![c] = <<>>]
      /\ UNCHANGED <<img, row, rows, fresh>>
  BY DEF NoRow
<1>2. /\ TypeOK /\ img \in Pictures /\ row \in [Cells -> 0 .. MaxRows] /\ count \in Nat
      /\ todo \in [Cells -> Seq(Boxes)] /\ MaxRows \in Nat
  BY <1>1, WxAssumption DEF WxInv, KernelInv, InPicture, TypeOK
<1>3. /\ Anchors[img] \in [Cells -> Seq(Boxes)]
      /\ \A d \in Cells : Len(Anchors[img][d]) \in Nat /\ Len(todo[d]) \in Nat
  BY <1>2, WxAssumption
<1>4. RowsReserved'
  BY <1>1, <1>2 DEF WxInv, KernelInv, RowsReserved
<1>5. \A r : Filled(r)' <=> Filled(r)
  BY <1>1, <1>2 DEF Filled, Reserved, Rows
<1>6. Suffixes'
  <2> SUFFICES ASSUME fresh, NEW d \in Cells
               PROVE  /\ Len(todo'[d]) <= Len(Anchors[img][d])
                      /\ \A i \in DOMAIN todo'[d] :
                           todo'[d][i] = Anchors[img][d][Done(d)' + i]
    BY <1>1 DEF Suffixes
  <2>1. CASE d = c
    <3>1. todo'[d] = <<>>
      BY <1>1, <1>2, <2>1
    <3> QED
      BY <1>3, <3>1
  <2>2. CASE d # c
    <3>1. todo'[d] = todo[d] /\ Done(d)' = Done(d)
      BY <1>1, <1>2, <2>2 DEF Done
    <3> QED
      BY <1>1, <3>1 DEF WxInv, KernelInv, Suffixes
  <2> QED
    BY <2>1, <2>2
<1>7. RowsFilled'
  BY <1>1, <1>2, <1>5 DEF WxInv, KernelInv, RowsFilled
<1>8. CountExact'
  <2> SUFFICES ASSUME fresh, count <= MaxRows
               PROVE  ~Fits(img)
    <3>1. ~(count' <= MaxRows)
      BY <1>1, <1>2
    <3>2. CASE fresh /\ ~(count <= MaxRows)
      BY <1>1, <3>1, <3>2 DEF CountExact, WxInv, KernelInv, Fits, Anchorage
    <3> QED
      BY <1>1, <3>1, <3>2 DEF CountExact, Fits, Anchorage
  <2> DEFINE a == <<c, Done(c) + 1>>
  <2>1. a \in Anchorage(img) /\ a \notin Counted
    <3>1. Done(c) \in Nat /\ Done(c) + 1 <= Len(Anchors[img][c])
      BY <1>1, <1>2, <1>3 DEF WxInv, KernelInv, Suffixes, Done
    <3>2. Done(c) + 1 \in DOMAIN Anchors[img][c]
      BY <1>3, <3>1
    <3> QED
      BY <1>1, <3>1, <3>2 DEF Anchorage, Counted, InRow
  <2>2. IsFiniteSet(Anchorage(img)) /\ Counted \subseteq Anchorage(img)
    BY <1>2, AnchorageFinite DEF Counted
  <2>3. Cardinality(Counted) = MaxRows
    BY <1>1, <1>2 DEF WxInv, KernelInv, CountExact
  <2>4. /\ IsFiniteSet(Counted)
        /\ Cardinality(Counted) <= Cardinality(Anchorage(img))
        /\ Cardinality(Counted) = Cardinality(Anchorage(img)) => Counted = Anchorage(img)
    BY <2>2, FS_Subset
  <2>5. Cardinality(Anchorage(img)) \in Nat
    BY <2>2, FS_CardinalityType
  <2> HIDE DEF a
  <2> QED
    BY <1>2, <2>1, <2>3, <2>4, <2>5 DEF Fits
<1> QED
  BY <1>1, <1>2, <1>4, <1>6, <1>7, <1>8 DEF KernelInv, InPicture, ThreadsRest

\* A thread that fills its row overwrites no other object.
LEMMA WriteStep ==
  ASSUME WxInv, TypeOK', NEW c \in Cells, Write(c)
  PROVE  KernelInv'
<1>1. /\ pc = "kernel" /\ pc' = "kernel" /\ row[c] # 0
      /\ rows' = [rows EXCEPT ![row[c]] = Head(todo[c])]
      /\ todo' = [todo EXCEPT ![c] = Tail(todo[c])]
      /\ row' = [row EXCEPT ![c] = 0]
      /\ UNCHANGED <<img, count, fresh>>
  BY DEF Write
<1>2. /\ TypeOK /\ img \in Pictures /\ row \in [Cells -> 0 .. MaxRows] /\ count \in Nat
      /\ todo \in [Cells -> Seq(Boxes)] /\ MaxRows \in Nat
      /\ rows \in [Rows -> Boxes \cup {None}]
  BY <1>1, WxAssumption DEF WxInv, KernelInv, InPicture, TypeOK
<1>3. /\ Anchors[img] \in [Cells -> Seq(Boxes)]
      /\ \A d \in Cells : Len(Anchors[img][d]) \in Nat /\ Len(todo[d]) \in Nat
  BY <1>2, WxAssumption
<1>4. /\ todo[c] # <<>> /\ row[c] <= count /\ row[c] \in Rows
      /\ \A d \in Cells : d # c => row[d] # row[c]
  BY <1>1, <1>2 DEF WxInv, KernelInv, RowsReserved, Rows
<1>5. /\ Len(Tail(todo[c])) = Len(todo[c]) - 1 /\ Head(todo[c]) = todo[c][1]
      /\ Len(todo[c]) >= 1
      /\ \A i \in 1 .. Len(todo[c]) - 1 : Tail(todo[c])[i] = todo[c][i + 1]
  BY <1>2, <1>4
<1>6. RowsReserved'
  BY <1>1, <1>2 DEF WxInv, KernelInv, RowsReserved
<1>7. /\ \A d \in Cells : d # c => todo'[d] = todo[d] /\ Done(d)' = Done(d)
      /\ todo'[c] = Tail(todo[c]) /\ Done(c)' = Done(c) + 1
      /\ \A d \in Cells : Done(d) \in Int
  <2>1. /\ \A d \in Cells : d # c => todo'[d] = todo[d]
        /\ todo'[c] = Tail(todo[c])
    BY <1>1, <1>2
  <2>2. Len(Anchors[img][c]) - (Len(todo[c]) - 1) = Len(Anchors[img][c]) - Len(todo[c]) + 1
    BY <1>3
  <2>3. Done(c)' = Done(c) + 1
    BY <1>1, <1>5, <2>1, <2>2 DEF Done
  <2>4. \A d \in Cells : d # c => Done(d)' = Done(d)
    BY <1>1, <2>1 DEF Done
  <2>5. \A d \in Cells : Done(d) \in Int
    BY <1>3 DEF Done
  <2> QED
    BY <2>1, <2>3, <2>4, <2>5
<1>8. Suffixes'
  <2> SUFFICES ASSUME fresh, NEW d \in Cells
               PROVE  /\ Len(todo'[d]) <= Len(Anchors[img][d])
                      /\ \A i \in DOMAIN todo'[d] :
                           todo'[d][i] = Anchors[img][d][Done(d)' + i]
    BY <1>1 DEF Suffixes
  <2>1. /\ Len(todo[d]) <= Len(Anchors[img][d])
        /\ \A i \in DOMAIN todo[d] : todo[d][i] = Anchors[img][d][Done(d) + i]
    BY <1>1 DEF WxInv, KernelInv, Suffixes
  <2>2. CASE d = c
    <3>1. Len(todo'[c]) <= Len(Anchors[img][c])
      BY <1>3, <1>5, <1>7, <2>1, <2>2
    <3>2. ASSUME NEW i \in DOMAIN todo'[c]
          PROVE  todo'[c][i] = Anchors[img][c][Done(c)' + i]
      <4>1. i \in 1 .. Len(todo[c]) - 1 /\ i + 1 \in DOMAIN todo[c]
        BY <1>2, <1>3, <1>5, <1>7
      <4>2. Done(c)' + i = Done(c) + (i + 1)
        BY <1>7, <4>1
      <4> QED
        BY <1>5, <1>7, <2>1, <2>2, <4>1, <4>2
    <3> QED
      BY <2>2, <3>1, <3>2
  <2>3. CASE d # c
    BY <1>7, <2>1, <2>3
  <2> QED
    BY <2>2, <2>3
<1>9. \A r \in Rows : Filled(r)' <=> Filled(r) \/ r = row[c]
  BY <1>1, <1>2, <1>4 DEF Filled, Reserved, Rows
<1>10. ~Filled(row[c])
  BY <1>1 DEF Filled, Reserved
<1>11. \A r \in Rows : r # row[c] => rows'[r] = rows[r]
  BY <1>1, <1>2
<1>12. rows'[row[c]] = todo[c][1]
  BY <1>1, <1>2, <1>4, <1>5
<1>13. RowsFilled'
  <2> SUFFICES ASSUME fresh
               PROVE  /\ \A r \in Rows : Filled(r)' => rows'[r] \in Objects(img)
                      /\ count <= MaxRows => \A d \in Cells : \A i \in 1 .. Done(d)' :
                           \E r \in Rows : Filled(r)' /\ rows'[r] = Anchors[img][d][i]
    BY <1>1 DEF RowsFilled, Objects
  <2>1. /\ \A r \in Rows : Filled(r) => rows[r] \in Objects(img)
        /\ count <= MaxRows => \A d \in Cells : \A i \in 1 .. Done(d) :
             \E r \in Rows : Filled(r) /\ rows[r] = Anchors[img][d][i]
    BY <1>1 DEF WxInv, KernelInv, RowsFilled
  <2>2. /\ Len(todo[c]) <= Len(Anchors[img][c])
        /\ todo[c][1] = Anchors[img][c][Done(c) + 1]
    BY <1>1, <1>2, <1>3, <1>5 DEF WxInv, KernelInv, Suffixes
  <2>3. Done(c) \in Nat /\ Done(c) + 1 \in DOMAIN Anchors[img][c]
    <3>1. /\ Anchors[img][c] \in Seq(Boxes) /\ Len(Anchors[img][c]) \in Nat
          /\ Len(todo[c]) \in Nat
      BY <1>3
    <3>2. \A x, y \in Nat : x >= 1 /\ x <= y => y - x \in Nat /\ (y - x) + 1 \in 1 .. y
      OBVIOUS
    <3>3. Done(c) \in Nat /\ Done(c) + 1 \in 1 .. Len(Anchors[img][c])
      BY <1>5, <2>2, <3>1, <3>2 DEF Done
    <3> QED
      BY <3>1, <3>3
  <2>4. todo[c][1] \in Objects(img)
    BY <2>2, <2>3 DEF Objects
  <2>5. ASSUME NEW r \in Rows, Filled(r)'
        PROVE  rows'[r] \in Objects(img)
    BY <1>9, <1>10, <1>11, <1>12, <2>1, <2>4, <2>5
  <2>6. ASSUME count <= MaxRows, NEW d \in Cells, NEW i \in 1 .. Done(d)'
        PROVE  \E r \in Rows : Filled(r)' /\ rows'[r] = Anchors[img][d][i]
    <3>1. CASE d = c /\ i = Done(c) + 1
      BY <1>4, <1>9, <1>12, <2>2, <3>1
    <3>2. CASE i \in 1 .. Done(d)
      <4>1. PICK r \in Rows : Filled(r) /\ rows[r] = Anchors[img][d][i]
        BY <2>1, <2>6, <3>2
      <4> QED
        BY <1>9, <1>10, <1>11, <4>1
    <3>3. Done(d) \in Int
      BY <1>3 DEF Done
    <3> QED
      BY <1>7, <3>1, <3>2, <3>3
  <2> QED
    BY <2>5, <2>6
<1>14. CountExact'
  <2>1. \A d \in Cells : InRow(d)' = InRow(d)
    <3>1. \A d \in Cells : row'[d] = IF d = c THEN 0 ELSE row[d]
      BY <1>1, <1>2
    <3> QED
      BY <1>1, <1>7, <3>1 DEF InRow
  <2>2. \A x \in Anchorage(img) : x[1] \in Cells
    BY DEF Anchorage
  <2>3. Counted' = Counted
    BY <1>1, <2>1, <2>2 DEF Counted, Anchorage
  <2> QED
    BY <1>1, <2>3 DEF WxInv, KernelInv, CountExact, Fits, Anchorage
<1> QED
  BY <1>1, <1>2, <1>6, <1>8, <1>13, <1>14 DEF KernelInv, InPicture, ThreadsRest

LEMMA KernelStep ==
  ASSUME WxInv, [Next]_vars
  PROVE  KernelInv'
<1>1. TypeOK'
  BY TypeStep
<1>2. CASE UNCHANGED vars /\ pc = "kernel"
  <2>1. UNCHANGED <<pc, img, todo, row, count, rows, fresh>>
    BY <1>2 DEF vars, kernelVars
  <2>2. InPicture' /\ ThreadsRest' /\ RowsReserved'
    BY <2>1 DEF WxInv, KernelInv, InPicture, ThreadsRest, RowsReserved
  <2>3. Suffixes'
    BY <2>1 DEF WxInv, KernelInv, Suffixes, Done
  <2>4. RowsFilled'
    BY <2>1 DEF WxInv, KernelInv, RowsFilled, Done, Reserved, Filled, Objects
  <2>5. CountExact'
    BY <2>1 DEF WxInv, KernelInv, CountExact, Done, InRow, Counted, Fits, Anchorage
  <2> QED
    BY <1>1, <2>2, <2>3, <2>4, <2>5 DEF KernelInv
<1> QED
  BY <1>1, <1>2, QuietKernelStep, EnqueueStep, AtomicAddStep, NoRowStep, WriteStep
     DEF Next, DetectImg, CalDetection

\* When all threads have returned every row up to the count is filled.
LEMMA OutputStep ==
  ASSUME WxInv, [Next]_vars
  PROVE  OutputOfPicture'
<1> USE DEF Goto, kernelVars, nmsVars
<1>1. CASE Synchronize
  <2> SUFFICES ASSUME fresh
               PROVE  /\ Taken(output') \subseteq AboveThreshold(img)
                      /\ count <= MaxRows => AboveThreshold(img) \subseteq Taken(output')
                      /\ Fits(img) => count <= MaxRows
    BY <1>1 DEF Synchronize, OutputOfPicture, Taken, AboveThreshold, Objects, Fits,
       Anchorage
  <2>1. /\ pc = "kernel" /\ todo = Idle /\ output' = [count |-> count, rows |-> rows]
        /\ img \in Pictures /\ TypeOK
    BY <1>1 DEF Synchronize, WxInv, KernelInv, InPicture
  <2>2. \A r : Filled(r) <=> r \in Rows /\ r <= count
    <3>1. \A c \in Cells : row[c] = 0
      BY <2>1 DEF WxInv, KernelInv, RowsReserved, Idle
    <3> QED
      BY <3>1 DEF Filled, Reserved, Rows
  <2>3. \A c \in Cells : Done(c) = Len(Anchors[img][c]) /\ Anchors[img][c] \in Seq(Boxes)
    BY <2>1, WxAssumption DEF Done, Idle
  <2>4. Taken(output') \subseteq AboveThreshold(img)
    BY <2>1, <2>2 DEF Taken, AboveThreshold, WxInv, KernelInv, RowsFilled
  <2>5. ASSUME count <= MaxRows, NEW b \in AboveThreshold(img)
        PROVE  b \in Taken(output')
    <3>1. PICK c \in Cells : \E i \in DOMAIN Anchors[img][c] : b = Anchors[img][c][i]
      BY DEF AboveThreshold, Objects
    <3>2. PICK i \in 1 .. Done(c) : b = Anchors[img][c][i]
      BY <2>3, <3>1
    <3>3. PICK r \in Rows : Filled(r) /\ rows[r] = b
      BY <2>1, <2>5, <3>2 DEF WxInv, KernelInv, RowsFilled
    <3>4. b \in Boxes /\ b # None
      BY <2>3, <3>2, WxAssumption
    <3> QED
      BY <2>1, <2>2, <3>3, <3>4 DEF Taken, AboveThreshold
  <2>6. Fits(img) => count <= MaxRows
    BY <2>1 DEF WxInv, KernelInv, CountExact
  <2> QED
    BY <2>4, <2>5, <2>6
<1>2. CASE UNCHANGED <<output, img, fresh>> /\ (Reading' => Reading)
  BY <1>2 DEF WxInv, OutputOfPicture, Taken, AboveThreshold, Objects, Fits, Anchorage
<1>3. ASSUME NEW p \in Pictures, Take(p)
      PROVE  ~Reading'
  BY <1>3 DEF Take, Reading
<1>4. CASE Enqueue \/ Draw
  BY <1>4 DEF Enqueue, Draw, Reading, OutputOfPicture
<1>5. CASE CalDetection
  BY <1>2, <1>5 DEF CalDetection, AtomicAdd, NoRow, Write, Reading
<1>6. CASE Nms
  BY <1>2, <1>6 DEF Nms, NextClass, Item, Suppress, Keep, NextItem, EndOfClass,
     EndOfClasses, Reading
<1>7. CASE UNCHANGED vars
  BY <1>2, <1>7 DEF vars, Reading
<1> QED
  BY <1>1, <1>3, <1>4, <1>5, <1>6, <1>7 DEF Next, DetectImg, OutputOfPicture

-----------------------------------------------------------------------------
(* nms() *)

\* Before nms() begins there is no result.
LEMMA BeforeNmsStep ==
  ASSUME WxInv, \/ \E p \in Pictures : Take(p)
                \/ Enqueue \/ CalDetection \/ Draw
                \/ UNCHANGED vars /\ ~Reading
  PROVE  NmsInv'
<1> USE DEF Goto, kernelVars, nmsVars
<1>1. ~Reading' /\ res' = <<>>
  <2>1. CASE \E p \in Pictures : Take(p)
    BY <2>1 DEF Take, Reading, WxInv, NmsInv, NothingYet
  <2>2. CASE Enqueue
    BY <2>2 DEF Enqueue, Reading, WxInv, NmsInv, NothingYet
  <2>3. CASE CalDetection
    BY <2>3 DEF CalDetection, AtomicAdd, NoRow, Write, Reading, WxInv, NmsInv, NothingYet
  <2>4. CASE Draw
    BY <2>4 DEF Draw, Reading
  <2>5. CASE UNCHANGED vars /\ ~Reading
    BY <2>5 DEF vars, Reading, WxInv, NmsInv, NothingYet
  <2> QED
    BY <2>1, <2>2, <2>3, <2>4, <2>5
<1> QED
  BY <1>1 DEF NmsInv, NothingYet, ResultApart, NothingForgotten, VectorSorted, ItemsShown,
     ItemsApart, AllClasses, Reading, Looping, Found

\* At first all classes wait.
LEMMA BeginNmsStep ==
  ASSUME WxInv, Synchronize
  PROVE  NmsInv'
<1>1. /\ pc' = "classes" /\ res' = <<>>
      /\ classes' = {Label[b] : b \in Taken(output')}
  BY DEF Synchronize, Goto, WxInv, NmsInv, NothingYet, Reading
<1> QED
  BY <1>1 DEF NmsInv, NothingYet, ResultApart, NothingForgotten, VectorSorted, ItemsShown,
     ItemsApart, AllClasses, Reading, Looping, Found

\* A class is sorted: nothing of it has been shown.
LEMMA NextClassStep ==
  ASSUME WxInv, TypeOK', NEW l \in classes, NextClass(l)
  PROVE  NmsInv'
<1>1. /\ pc = "classes" /\ pc' = "outer" /\ classes' = classes \ {l} /\ m' = 0
      /\ dets' \in Arrangements(InClass(output, l)) /\ UNCHANGED <<output, res>>
  BY DEF NextClass, Goto
<1>2. /\ dets' \in Seq(InClass(output, l))
      /\ \A b \in InClass(output, l) : \E i \in DOMAIN dets' : dets'[i] = b
      /\ \A i, j \in DOMAIN dets' : i # j => dets'[i] # dets'[j]
      /\ \A i, j \in DOMAIN dets' : i < j => Confidence[dets'[i]] >= Confidence[dets'[j]]
  <2>1. IsFiniteSet(Taken(output))
    BY TakenFinite DEF WxInv, KernelInv, TypeOK
  <2>2. IsFiniteSet(InClass(output, l))
    BY <2>1, FS_Subset DEF InClass
  <2> QED
    BY <1>1, <2>2, ArrangementProperties
<1>3. \A i \in DOMAIN dets' : /\ i \in Nat /\ i >= 1
                              /\ dets'[i] \in Taken(output) /\ Label[dets'[i]] = l
  BY <1>2 DEF InClass
<1>4. Found' = Found /\ Taken(output)' = Taken(output)
  BY <1>1 DEF Found, Taken
<1>5. ResultApart'
  BY <1>1, <1>4 DEF ResultApart, WxInv, NmsInv, Reading
<1>6. NothingForgotten'
  <2> SUFFICES ASSUME NEW b \in Taken(output)
               PROVE  Label[b] \in classes' \/ b \in Found \/ Suppressed(b) \/ b \in Dets'
    BY <1>1, <1>4 DEF NothingForgotten, Looping, Suppressed
  <2>1. CASE Label[b] = l
    BY <1>2, <2>1 DEF InClass, Dets
  <2>2. CASE Label[b] # l
    BY <1>1, <2>2 DEF WxInv, NmsInv, NothingForgotten, Reading, Looping
  <2> QED
    BY <2>1, <2>2
<1>7. VectorSorted'
  <2>1. ASSUME NEW i \in DOMAIN dets', NEW j \in DOMAIN dets'
        PROVE  /\ Label[dets'[i]] = Label[dets'[j]]
               /\ i < j => dets'[i] # dets'[j] /\ Confidence[dets'[i]] >= Confidence[dets'[j]]
    BY <1>2, <1>3
  <2> QED
    BY <1>1, <1>3, <1>4, <2>1 DEF VectorSorted
<1>8. ItemsShown'
  BY <1>1, <1>3, <1>4 DEF ItemsShown, Items, WxInv, NmsInv, ResultApart
<1>9. ItemsApart'
  BY <1>1, <1>3 DEF ItemsApart
<1> QED
  BY <1>1, <1>5, <1>6, <1>7, <1>8, <1>9 DEF NmsInv, NothingYet, AllClasses, Reading

\* The next item goes to the result: it has not been shown, and no shown object of
\* its class overlaps it.
LEMMA ItemStep ==
  ASSUME WxInv, TypeOK', Item
  PROVE  NmsInv'
<1>1. /\ pc = "outer" /\ pc' = "inner" /\ m < Len(dets) /\ n' = m + 1
      /\ res' = Append(res, dets[m + 1]) /\ UNCHANGED <<output, classes, dets, m>>
  BY DEF Item, Goto
<1>2. /\ dets \in Seq(Boxes) /\ res \in Seq(Boxes) /\ m \in Nat
      /\ Len(dets) \in Nat /\ Len(res) \in Nat
      /\ DOMAIN dets = 1 .. Len(dets) /\ DOMAIN res = 1 .. Len(res)
      /\ m + 1 \in DOMAIN dets
  BY <1>1 DEF WxInv, KernelInv, TypeOK
<1> DEFINE d == dets[m + 1]
<1>3. /\ d \in Boxes /\ Len(res') = Len(res) + 1 /\ DOMAIN res' = 1 .. Len(res) + 1
      /\ \A i \in 1 .. Len(res) : res'[i] = res[i]
      /\ res'[Len(res) + 1] = d /\ res' # <<>>
  BY <1>1, <1>2
<1>4. Found' = Found \cup {d} /\ Taken(output)' = Taken(output)
  BY <1>1, <1>2, <1>3 DEF Found, Taken
<1>5. d \notin Found
  <2> SUFFICES ASSUME d \in Found
               PROVE  FALSE
    OBVIOUS
  <2>1. PICK j \in DOMAIN dets : j <= m /\ dets[j] = d
    BY <1>1, <1>2 DEF WxInv, NmsInv, ItemsShown, Looping, Items
  <2> QED
    BY <1>1, <1>2, <2>1 DEF WxInv, NmsInv, VectorSorted, Looping
<1>6. \A f \in Found : Label[f] = Label[d] => <<f, d>> \notin Overlaps /\ <<d, f>> \notin Overlaps
  <2> SUFFICES ASSUME NEW f \in Found, Label[f] = Label[d]
               PROVE  <<f, d>> \notin Overlaps /\ <<d, f>> \notin Overlaps
    OBVIOUS
  <2>1. PICK j \in DOMAIN dets : j <= m /\ dets[j] = f
    BY <1>1, <1>2 DEF WxInv, NmsInv, ItemsShown, Looping, Items
  <2>2. <<f, d>> \notin Overlaps
    <3>1. j < m + 1
      BY <1>2, <2>1
    <3>2. <<dets[j], dets[m + 1]>> \notin Overlaps
      BY <1>1, <1>2, <2>1, <3>1 DEF WxInv, NmsInv, ItemsApart, Looping
    <3> QED
      BY <2>1, <3>2
  <2>3. f \in Boxes
    BY <1>2, <2>1
  <2> QED
    BY <1>3, <2>2, <2>3, WxAssumption
<1>7. d \in Taken(output) /\ Label[d] \notin classes
  BY <1>1, <1>2 DEF WxInv, NmsInv, VectorSorted, Looping
<1>8. ResultApart'
  <2>1. Found \subseteq Taken(output) /\ \A f \in Found : Label[f] \notin classes
    BY <1>1 DEF WxInv, NmsInv, ResultApart, Reading
  <2>2. ASSUME NEW i \in DOMAIN res', NEW j \in DOMAIN res', i # j
        PROVE  /\ res'[i] # res'[j]
               /\ Label[res'[i]] = Label[res'[j]] => <<res'[i], res'[j]>> \notin Overlaps
    <3>1. CASE i \in DOMAIN res /\ j \in DOMAIN res
      BY <1>2, <1>3, <2>2, <3>1 DEF WxInv, NmsInv, ResultApart
    <3>2. CASE i \in DOMAIN res /\ j = Len(res) + 1
      <4>1. res'[i] \in Found /\ res'[j] = d
        BY <1>2, <1>3, <3>2 DEF Found
      <4> QED
        BY <1>5, <1>6, <4>1
    <3>3. CASE i = Len(res) + 1 /\ j \in DOMAIN res
      <4>1. res'[j] \in Found /\ res'[i] = d
        BY <1>2, <1>3, <3>3 DEF Found
      <4> QED
        BY <1>5, <1>6, <4>1
    <3> QED
      BY <1>2, <1>3, <2>2, <3>1, <3>2, <3>3
  <2> QED
    BY <1>1, <1>4, <1>7, <2>1, <2>2 DEF ResultApart
<1>9. NothingForgotten'
  <2>1. \A b : Suppressed(b) => Suppressed(b)'
    BY <1>4 DEF Suppressed
  <2> QED
    BY <1>1, <1>4, <2>1 DEF WxInv, NmsInv, NothingForgotten, Reading, Looping, Dets
<1>10. VectorSorted'
  BY <1>1, <1>4 DEF WxInv, NmsInv, VectorSorted, Looping
<1>11. ItemsShown'
  <2>1. /\ \A i \in DOMAIN dets : i <= m => dets[i] \in Found
        /\ \A f \in Found : \A i \in DOMAIN dets : Label[f] = Label[dets[i]] =>
             \E j \in DOMAIN dets : j <= m /\ dets[j] = f
    BY <1>1 DEF WxInv, NmsInv, ItemsShown, Looping, Items
  <2>2. \A i \in DOMAIN dets : i <= m + 1 => dets[i] \in Found \cup {d}
    BY <1>2, <2>1
  <2>3. \A f \in Found \cup {d} : \A i \in DOMAIN dets : Label[f] = Label[dets[i]] =>
          \E j \in DOMAIN dets : j <= m + 1 /\ dets[j] = f
    BY <1>2, <2>1
  <2> QED
    BY <1>1, <1>4, <2>2, <2>3 DEF ItemsShown, Items
<1>12. ItemsApart'
  <2>1. m < n' /\ n' <= Len(dets) /\ res'[Len(res')] = dets[m + 1]
    BY <1>1, <1>2, <1>3
  <2>2. \A j \in m + 2 .. n' : FALSE
    BY <1>1, <1>2
  <2> QED
    BY <1>1, <1>3, <2>1, <2>2 DEF WxInv, NmsInv, ItemsApart, Looping
<1> QED
  BY <1>1, <1>8, <1>9, <1>10, <1>11, <1>12 DEF NmsInv, NothingYet, AllClasses, Reading

\* What is erased comes after the item, is no surer and of its class.
LEMMA SuppressStep ==
  ASSUME WxInv, TypeOK', Suppress
  PROVE  NmsInv'
<1>1. /\ pc = "inner" /\ pc' = "inner" /\ n < Len(dets) /\ dets' = Erase(dets, n + 1)
      /\ <<dets[m + 1], dets[n + 1]>> \in Overlaps
      /\ UNCHANGED <<output, classes, m, n, res>>
  BY DEF Suppress, Overlap
<1>2. /\ dets \in Seq(Boxes) /\ m \in Nat /\ n \in Nat /\ m < n
      /\ Len(dets) \in Nat /\ DOMAIN dets = 1 .. Len(dets)
      /\ n + 1 \in DOMAIN dets /\ m + 1 \in DOMAIN dets
  BY <1>1 DEF WxInv, KernelInv, TypeOK, NmsInv, ItemsApart
<1>3. /\ Len(dets') = Len(dets) - 1 /\ DOMAIN dets' = 1 .. Len(dets) - 1
      /\ \A i \in DOMAIN dets' : dets'[i] = IF i < n + 1 THEN dets[i] ELSE dets[i + 1]
  <2>1. dets' \in Seq(Boxes)
    <3>1. Erase(dets, n + 1) \in Seq(Boxes)
      BY <1>2, EraseProperties
    <3> QED
      BY <1>1, <3>1
  <2>2. /\ Len(dets') = Len(dets) - 1
        /\ \A i \in 1 .. Len(dets) - 1 : dets'[i] = IF i < n + 1 THEN dets[i] ELSE dets[i + 1]
    <3> DEFINE k == n + 1
    <3>1. dets \in Seq(Boxes) /\ k \in 1 .. Len(dets)
      BY <1>2
    <3> HIDE DEF k
    <3>2. /\ Len(Erase(dets, k)) = Len(dets) - 1
          /\ \A i \in 1 .. Len(dets) - 1 :
               Erase(dets, k)[i] = IF i < k THEN dets[i] ELSE dets[i + 1]
      BY <3>1, EraseProperties
    <3> QED
      BY <1>1, <3>2 DEF k
  <2> QED
    BY <2>1, <2>2
<1> DEFINE Old(i) == IF i < n + 1 THEN i ELSE i + 1
\* The vector keeps its order.
<1>4. /\ \A i \in DOMAIN dets' : Old(i) \in DOMAIN dets /\ dets'[i] = dets[Old(i)]
      /\ \A i, j \in DOMAIN dets' : i < j => Old(i) < Old(j)
      /\ \A i \in DOMAIN dets' : i <= n => Old(i) = i
      /\ \A i \in DOMAIN dets' : Old(i) <= n => i = Old(i)
      /\ \A i \in DOMAIN dets : i # n + 1 => \E k \in DOMAIN dets' : Old(k) = i
  <2>1. \A i \in DOMAIN dets : i # n + 1 => \E k \in DOMAIN dets' : Old(k) = i
    <3> SUFFICES ASSUME NEW i \in DOMAIN dets, i # n + 1
                 PROVE  \E k \in DOMAIN dets' : Old(k) = i
      OBVIOUS
    <3>1. CASE i < n + 1
      <4>1. i \in DOMAIN dets' /\ Old(i) = i
        BY <1>2, <1>3, <3>1
      <4> QED
        BY <4>1
    <3>2. CASE i > n + 1
      <4>1. i - 1 \in DOMAIN dets' /\ Old(i - 1) = i
        BY <1>2, <1>3, <3>2
      <4> QED
        BY <4>1
    <3> QED
      BY <1>2, <3>1, <3>2
  <2>2. /\ \A i \in DOMAIN dets' : Old(i) \in DOMAIN dets /\ dets'[i] = dets[Old(i)]
        /\ \A i, j \in DOMAIN dets' : i < j => Old(i) < Old(j)
        /\ \A i \in DOMAIN dets' : i <= n => Old(i) = i
        /\ \A i \in DOMAIN dets' : Old(i) <= n => i = Old(i)
    BY <1>2, <1>3
  <2> QED
    BY <2>1, <2>2
<1> HIDE DEF Old
<1>5. Found' = Found /\ Taken(output)' = Taken(output)
  BY <1>1 DEF Found, Taken
<1>6. \A i \in DOMAIN dets : i <= m + 1 => i \in DOMAIN dets' /\ dets'[i] = dets[i]
  BY <1>1, <1>2, <1>3
<1>7. ResultApart'
  BY <1>1, <1>5 DEF ResultApart, WxInv, NmsInv, Reading
<1>8. Suppressed(dets[n + 1])
  <2>1. dets[m + 1] \in Found
    BY <1>1, <1>2 DEF WxInv, NmsInv, ItemsShown, Looping, Items
  <2>2. /\ Label[dets[m + 1]] = Label[dets[n + 1]]
        /\ Confidence[dets[m + 1]] >= Confidence[dets[n + 1]]
    <3>1. m + 1 < n + 1
      BY <1>2
    <3> QED
      BY <1>1, <1>2, <3>1 DEF WxInv, NmsInv, VectorSorted, Looping
  <2> QED
    BY <1>1, <2>1, <2>2 DEF Suppressed
<1>9. NothingForgotten'
  <2> SUFFICES ASSUME NEW b \in Taken(output)
               PROVE  Label[b] \in classes \/ b \in Found \/ Suppressed(b) \/ b \in Dets'
    BY <1>1, <1>5 DEF NothingForgotten, Looping, Suppressed
  <2>1. ASSUME b \in Dets
        PROVE  Suppressed(b) \/ b \in Dets'
    <3>1. PICK i \in DOMAIN dets : b = dets[i]
      BY <2>1 DEF Dets
    <3>2. CASE i = n + 1
      BY <1>8, <3>1, <3>2
    <3>3. CASE i # n + 1
      BY <1>4, <3>1, <3>3 DEF Dets
    <3> QED
      BY <3>2, <3>3
  <2> QED
    BY <1>1, <2>1 DEF WxInv, NmsInv, NothingForgotten, Reading
<1>10. VectorSorted'
  <2>1. /\ \A i \in DOMAIN dets : dets[i] \in Taken(output) /\ Label[dets[i]] \notin classes
        /\ \A i, j \in DOMAIN dets :
             /\ Label[dets[i]] = Label[dets[j]]
             /\ i < j => dets[i] # dets[j] /\ Confidence[dets[i]] >= Confidence[dets[j]]
    BY <1>1 DEF WxInv, NmsInv, VectorSorted, Looping
  <2>2. /\ \A i \in DOMAIN dets' : dets'[i] \in Taken(output) /\ Label[dets'[i]] \notin classes
        /\ \A i, j \in DOMAIN dets' :
             /\ Label[dets'[i]] = Label[dets'[j]]
             /\ i < j => dets'[i] # dets'[j] /\ Confidence[dets'[i]] >= Confidence[dets'[j]]
    BY <1>4, <2>1
  <2> QED
    BY <1>1, <1>5, <2>2 DEF VectorSorted
<1>11. ItemsShown'
  <2>1. /\ \A i \in DOMAIN dets : i <= m + 1 => dets[i] \in Found
        /\ \A f \in Found : \A i \in DOMAIN dets : Label[f] = Label[dets[i]] =>
             \E j \in DOMAIN dets : j <= m + 1 /\ dets[j] = f
    BY <1>1 DEF WxInv, NmsInv, ItemsShown, Looping, Items
  <2>2. ASSUME NEW i \in DOMAIN dets', i <= m + 1
        PROVE  dets'[i] \in Found
    <3>1. i <= n /\ Old(i) = i
      BY <1>2, <1>3, <1>4, <2>2
    <3> QED
      BY <1>4, <2>1, <2>2, <3>1
  <2>3. ASSUME NEW f \in Found, NEW i \in DOMAIN dets', Label[f] = Label[dets'[i]]
        PROVE  \E j \in DOMAIN dets' : j <= m + 1 /\ dets'[j] = f
    <3>1. PICK j \in DOMAIN dets : j <= m + 1 /\ dets[j] = f
      BY <1>4, <2>1, <2>3
    <3> QED
      BY <1>6, <3>1
  <2> QED
    BY <1>1, <1>5, <2>2, <2>3 DEF ItemsShown, Items
<1>12. ItemsApart'
  <2>1. /\ m < n /\ res # <<>> /\ res[Len(res)] = dets[m + 1]
        /\ \A j \in m + 2 .. n : <<dets[m + 1], dets[j]>> \notin Overlaps
        /\ \A i, j \in DOMAIN dets : i <= m /\ i < j => <<dets[i], dets[j]>> \notin Overlaps
    BY <1>1 DEF WxInv, NmsInv, ItemsApart, Looping
  <2>2. n <= Len(dets') /\ dets'[m + 1] = dets[m + 1]
    BY <1>1, <1>2, <1>3
  <2>3. \A j \in m + 2 .. n : dets'[j] = dets[j]
    BY <1>2, <1>3, <2>2
  <2>4. ASSUME NEW i \in DOMAIN dets', NEW j \in DOMAIN dets', i <= m, i < j
        PROVE  <<dets'[i], dets'[j]>> \notin Overlaps
    <3>1. i <= n /\ Old(i) = i
      BY <1>2, <1>3, <1>4, <2>4
    <3> QED
      BY <1>4, <2>1, <2>4, <3>1
  <2> QED
    BY <1>1, <2>1, <2>2, <2>3, <2>4 DEF ItemsApart
<1> QED
  BY <1>1, <1>7, <1>9, <1>10, <1>11, <1>12 DEF NmsInv, NothingYet, AllClasses, Reading

\* What is kept does not overlap the item.
LEMMA KeepStep ==
  ASSUME WxInv, TypeOK', Keep
  PROVE  NmsInv'
<1>1. /\ pc = "inner" /\ pc' = "inner" /\ n < Len(dets) /\ n' = n + 1
      /\ <<dets[m + 1], dets[n + 1]>> \notin Overlaps
      /\ UNCHANGED <<output, classes, dets, m, res>>
  BY DEF Keep, Overlap
<1>2. m \in Nat /\ n \in Nat /\ m < n /\ Len(dets) \in Nat
  BY <1>1 DEF WxInv, KernelInv, TypeOK, NmsInv, ItemsApart
<1>3. Found' = Found /\ Taken(output)' = Taken(output) /\ Dets' = Dets
  BY <1>1 DEF Found, Taken, Dets
<1>4. ItemsApart'
  <2>1. \A j \in m + 2 .. n' : j \in m + 2 .. n \/ j = n + 1
    BY <1>1, <1>2
  <2>2. m < n' /\ n' <= Len(dets)
    BY <1>1, <1>2
  <2> QED
    BY <1>1, <2>1, <2>2 DEF WxInv, NmsInv, ItemsApart, Looping
<1> QED
  BY <1>1, <1>3, <1>4
     DEF WxInv, NmsInv, NothingYet, ResultApart, NothingForgotten, VectorSorted,
         ItemsShown, AllClasses, Reading, Looping, Items, Suppressed

\* At the end of the vector the item overlaps nothing that follows it.
LEMMA NextItemStep ==
  ASSUME WxInv, TypeOK', NextItem
  PROVE  NmsInv'
<1>1. /\ pc = "inner" /\ pc' = "outer" /\ n >= Len(dets) /\ m' = m + 1
      /\ UNCHANGED <<output, classes, dets, res>>
  BY DEF NextItem, Goto
<1>2. /\ m \in Nat /\ n \in Nat /\ m < n /\ Len(dets) \in Nat
      /\ DOMAIN dets = 1 .. Len(dets)
  BY <1>1 DEF WxInv, KernelInv, TypeOK, NmsInv, ItemsApart
<1>3. Found' = Found /\ Taken(output)' = Taken(output) /\ Dets' = Dets
  BY <1>1 DEF Found, Taken, Dets
<1>4. ItemsApart'
  <2>1. /\ \A j \in m + 2 .. n : <<dets[m + 1], dets[j]>> \notin Overlaps
        /\ \A i, j \in DOMAIN dets : i <= m /\ i < j => <<dets[i], dets[j]>> \notin Overlaps
    BY <1>1 DEF WxInv, NmsInv, ItemsApart, Looping
  <2>2. ASSUME NEW i \in DOMAIN dets, NEW j \in DOMAIN dets, i <= m + 1, i < j
        PROVE  <<dets[i], dets[j]>> \notin Overlaps
    <3>1. CASE i <= m
      BY <2>1, <2>2, <3>1
    <3>2. CASE i = m + 1
      <4>1. j \in m + 2 .. n
        BY <1>1, <1>2, <2>2, <3>2
      <4> QED
        BY <2>1, <3>2, <4>1
    <3> QED
      BY <1>2, <2>2, <3>1, <3>2
  <2> QED
    BY <1>1, <2>2 DEF ItemsApart
<1> QED
  BY <1>1, <1>3, <1>4
     DEF WxInv, NmsInv, NothingYet, ResultApart, NothingForgotten, VectorSorted,
         ItemsShown, AllClasses, Reading, Looping, Items, Suppressed

\* At the end of a class its objects are shown or suppressed.
LEMMA EndStep ==
  ASSUME WxInv, TypeOK', EndOfClass \/ EndOfClasses \/ (UNCHANGED vars /\ Reading)
  PROVE  NmsInv'
<1> USE DEF Goto, nmsVars
<1>1. /\ UNCHANGED <<output, classes, dets, m, n, res>>
      /\ Reading /\ Reading'
  BY DEF EndOfClass, EndOfClasses, vars, Reading
<1>2. Found' = Found /\ Taken(output)' = Taken(output) /\ Dets' = Dets
  BY <1>1 DEF Found, Taken, Dets
<1>3. CASE EndOfClass
  <2>1. /\ m \in Nat /\ Len(dets) \in Nat /\ DOMAIN dets = 1 .. Len(dets)
        /\ pc = "outer" /\ pc' = "classes" /\ m >= Len(dets)
    BY <1>3 DEF WxInv, KernelInv, TypeOK, EndOfClass
  <2>2. \A i \in DOMAIN dets : i <= m
    BY <2>1
  <2>3. Dets \subseteq Found
    BY <2>1, <2>2 DEF WxInv, NmsInv, ItemsShown, Looping, Items, Dets
  <2> QED
    BY <1>1, <1>2, <2>1, <2>3
       DEF WxInv, NmsInv, NothingYet, ResultApart, NothingForgotten, VectorSorted,
           ItemsShown, ItemsApart, AllClasses, Looping, Suppressed
<1>4. CASE EndOfClasses
  <2>1. pc = "classes" /\ pc' = "show" /\ classes = {}
    BY <1>4 DEF EndOfClasses
  <2> QED
    BY <1>1, <1>2, <2>1
       DEF WxInv, NmsInv, NothingYet, ResultApart, NothingForgotten, VectorSorted,
           ItemsShown, ItemsApart, AllClasses, Looping, Suppressed
<1>5. CASE UNCHANGED vars
  <2>1. UNCHANGED pc
    BY <1>5 DEF vars
  <2> QED
    BY <1>1, <1>2, <2>1
       DEF WxInv, NmsInv, NothingYet, ResultApart, NothingForgotten, VectorSorted,
           ItemsShown, ItemsApart, AllClasses, Looping, Suppressed, Items
<1> QED
  BY <1>3, <1>4, <1>5

-----------------------------------------------------------------------------

LEMMA WxStep ==
  ASSUME WxInv, [Next]_vars
  PROVE  WxInv'
<1>1. TypeOK' /\ KernelInv' /\ OutputOfPicture'
  BY TypeStep, KernelStep, OutputStep
<1>2. CASE UNCHANGED vars
  BY <1>1, <1>2, BeforeNmsStep, EndStep DEF WxInv
<1>3. CASE Next
  BY <1>1, <1>3, BeforeNmsStep, BeginNmsStep, NextClassStep, ItemStep, SuppressStep,
     KeepStep, NextItemStep, EndStep DEF WxInv, Next, DetectImg, Nms
<1> QED
  BY <1>2, <1>3

\* The inductive invariant holds for any network and any order of the threads.
THEOREM WxInvariant == Spec => []WxInv
<1>1. Init => WxInv
  BY InitWxInv
<1>2. WxInv /\ [Next]_vars => WxInv'
  BY WxStep
<1> QED
  BY <1>1, <1>2, PTL DEF Spec

\* No thread of CalDetection takes a row beyond kMaxNumOutputBbox.
THEOREM WxTypeCorrect == Spec => []TypeOK
<1>1. WxInv => TypeOK
  BY DEF WxInv, KernelInv
<1> QED
  BY <1>1, WxInvariant, PTL

\* The reference `item` of nms() stays good while nms() erases behind it.
THEOREM ItemStaysGood == Spec => []ItemStays
<1>1. WxInv => ItemStays
  BY DEF WxInv, NmsInv, ItemsApart, ItemStays
<1> QED
  BY <1>1, WxInvariant, PTL

\* What nms() drops a shown object of its class overlaps, which is as sure.
THEOREM DropsAreJustified == Spec => []DropsJustified
<1>1. WxInv => DropsJustified
  <2> SUFFICES ASSUME WxInv, pc = "show", NEW b \in Taken(output) \ Found
               PROVE  Suppressed(b)
    BY DEF DropsJustified, Suppressed
  <2> QED
    BY DEF WxInv, NmsInv, NothingForgotten, AllClasses, Reading, Looping
<1> QED
  BY <1>1, WxInvariant, PTL

\* Unless the buffer is full, nms() sees every object of the picture.
THEOREM NothingIsLost == Spec => []NothingLost
<1>1. WxInv => NothingLost
  BY DEF WxInv, OutputOfPicture, NothingLost, Reading
<1> QED
  BY <1>1, WxInvariant, PTL

-----------------------------------------------------------------------------
(* The promise *)

\* A result is a sequence of objects and neither None nor the fault.
LEMMA ResultsDiffer ==
  ASSUME NEW s \in Seq(Boxes)
  PROVE  s # None /\ <<None>> # None
<1>1. s \in Seq(Boxes \cup {None}) /\ <<None>> \in Seq(Boxes \cup {None})
  OBVIOUS
<1> QED
  BY <1>1, WxAssumption

\* When no class waits any more the picture justifies the result.
LEMMA ResultJustified ==
  ASSUME WxInv, pc = "classes", classes = {}, fresh
  PROVE  Promise!Justified(Found, img) /\ Promise!Once(res)
<1>1. /\ res \in Seq(Boxes) /\ DOMAIN res = 1 .. Len(res) /\ Len(res) \in Nat
      /\ img \in Pictures
  BY DEF WxInv, KernelInv, TypeOK, InPicture
<1>2. Found \subseteq Taken(output) /\ Taken(output) \subseteq AboveThreshold(img)
  BY DEF WxInv, NmsInv, ResultApart, OutputOfPicture, Reading
<1>3. \A a, b \in Found : a # b /\ Label[a] = Label[b] => <<a, b>> \notin Overlaps
  BY DEF WxInv, NmsInv, ResultApart, Found
<1>4. Fits(img) => \A a \in AboveThreshold(img) : \E b \in Found :
                     Label[a] = Label[b] /\ Confidence[b] >= Confidence[a]
  <2> SUFFICES ASSUME Fits(img), NEW a \in AboveThreshold(img)
               PROVE  \E b \in Found : Label[a] = Label[b] /\ Confidence[b] >= Confidence[a]
    OBVIOUS
  <2>1. a \in Taken(output)
    BY DEF WxInv, OutputOfPicture, Reading
  <2>2. a \in Found \/ Suppressed(a)
    BY <2>1 DEF WxInv, NmsInv, NothingForgotten, Reading, Looping
  <2>3. Confidence[a] \in Nat
    BY <2>1, TakenFinite, WxAssumption DEF WxInv, KernelInv, TypeOK
  <2>4. CASE a \in Found
    BY <2>3, <2>4
  <2>5. CASE Suppressed(a)
    BY <2>5 DEF Suppressed
  <2> QED
    BY <2>2, <2>4, <2>5
<1>5. Promise!Once(res)
  BY DEF Promise!Once, WxInv, NmsInv, ResultApart
<1> QED
  BY <1>1, <1>2, <1>3, <1>4, <1>5 DEF Promise!Justified, Promise!SameLabel

\* A picture is taken and nothing shown yet.
LEMMA PromiseTake ==
  ASSUME WxInv, NEW p \in Pictures, Take(p)
  PROVE  Promise!Take
<1>1. pc = "take" /\ pc' = "enqueue" /\ img' = p
  BY DEF Take, Goto
<1> QED
  BY <1>1 DEF Promise!Take

\* The end of nms() shows the result, or what a failed network left.
LEMMA PromiseShow ==
  ASSUME WxInv, EndOfClasses
  PROVE  Promise!Show
<1>1. /\ pc = "classes" /\ pc' = "show" /\ UNCHANGED <<img, res, fresh>>
      /\ img \in Pictures /\ img # None /\ res \in Seq(Boxes) /\ res # None
      /\ <<None>> # None
  BY WxAssumption, ResultsDiffer
     DEF EndOfClasses, Goto, nmsVars, WxInv, KernelInv, InPicture, TypeOK
<1>2. CASE ~fresh
  BY <1>1, <1>2 DEF Promise!Show
<1>3. CASE fresh
  <2>1. Promise!Justified(Found, img) /\ Promise!Once(res)
    BY <1>1, <1>3, ResultJustified DEF EndOfClasses
  <2>2. Promise!Objects(res) = Found
    BY DEF Promise!Objects, Found
  <2>3. \E hidden \in SUBSET ({} \cap [p \in Pictures |-> AboveThreshold(p)][img]) :
          /\ Promise!Objects(res) \cap {} = {}
          /\ Promise!Justified(Promise!Objects(res) \cup hidden, img)
    <3>1. Promise!Objects(res) \cup {} = Found
      BY <2>2
    <3> QED
      BY <2>1, <3>1
  <2> QED
    BY <1>1, <1>3, <2>1, <2>2, <2>3 DEF Promise!Show
<1> QED
  BY <1>2, <1>3

\* What was drawn is gone before the next picture is taken.
LEMMA PromiseDone ==
  ASSUME WxInv, Draw
  PROVE  Promise!Done
<1>1. pc = "show" /\ pc' = "take" /\ res # None /\ <<None>> # None
  BY ResultsDiffer DEF Draw, Goto, WxInv, KernelInv, TypeOK
<1> QED
  BY <1>1 DEF Promise!Done

\* The kernel and the loops of nms() cannot be seen.
LEMMA PromiseStutter ==
  ASSUME WxInv, \/ Enqueue \/ CalDetection \/ Synchronize
                \/ \E l \in classes : NextClass(l)
                \/ Item \/ Suppress \/ Keep \/ NextItem \/ EndOfClass
                \/ UNCHANGED vars
  PROVE  UNCHANGED Promise!resultVars
<1>1. CASE UNCHANGED vars
  BY <1>1 DEF vars, nmsVars, Promise!resultVars
<1>2. ASSUME pc \notin {"take", "show"}, pc' \notin {"take", "show"}, UNCHANGED img
      PROVE  UNCHANGED Promise!resultVars
  BY <1>2 DEF Promise!resultVars
<1> USE DEF Goto
<1>3. CASE Enqueue \/ CalDetection \/ Synchronize
  BY <1>2, <1>3 DEF Enqueue, CalDetection, AtomicAdd, NoRow, Write, Synchronize
<1>4. CASE \/ \E l \in classes : NextClass(l)
           \/ Item \/ Suppress \/ Keep \/ NextItem \/ EndOfClass
  BY <1>2, <1>4 DEF NextClass, Item, Suppress, Keep, NextItem, EndOfClass
<1> QED
  BY <1>1, <1>3, <1>4

\* A wx detector keeps the promise of DetectionResult.
THEOREM WxKeepsPromise == Spec => ImplementsDetection
<1>1. Init => Promise!Init
  BY DEF Init, Promise!Init
<1>2. WxInv /\ [Next]_vars => [Promise!Next]_(Promise!resultVars)
  <2> SUFFICES ASSUME WxInv, [Next]_vars
               PROVE  Promise!Next \/ UNCHANGED Promise!resultVars
    OBVIOUS
  <2> QED
    BY PromiseTake, PromiseShow, PromiseDone, PromiseStutter
       DEF Next, DetectImg, Nms, Promise!Next
<1> QED
  BY <1>1, <1>2, WxInvariant, PTL DEF Spec, ImplementsDetection, Promise!Spec
==============================================================================
