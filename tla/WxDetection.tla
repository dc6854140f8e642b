----------------------------- MODULE WxDetection -----------------------------
(***************************************************************************)
(* What a wx detector does with one picture: DetectImg enqueues the        *)
(* network, whose last layer is the kernel CalDetection, copies its output *)
(* to the host, waits for the stream and runs nms() on it.                 *)
(*                                                                         *)
(* CalDetection has one thread per cell of the grid.  It looks at the      *)
(* anchors of its cell in order; for each one that passes kIgnoreThresh    *)
(* it takes a row with atomicAdd and fills it, or returns when there is no *)
(* row left, whatever anchors are left.  nms() takes the rows above        *)
(* kConfThresh class by class (std::map sorts the classes), sorts a class  *)
(* by confidence and erases from the vector what an object before it       *)
(* overlaps, while it walks along it.                                      *)
(*                                                                         *)
(* The network is external: Anchors[p][c] are the objects cell c finds in  *)
(* picture p.  Every call of it may fail, which DetectImg does not notice. *)
(* (forwardGpu runs the kernel once per scale, one after the other; here   *)
(* the cells of all scales run in any order.)                              *)
(***************************************************************************)
EXTENDS Integers, Sequences, FiniteSets

CONSTANTS
  Pictures,      \* the pictures that may come out of the queue
  Cells,         \* the threads of CalDetection
  Boxes,         \* the objects the network may find
  None,          \* no picture, no object
  Anchors,       \* the objects of each picture, by cell, above kIgnoreThresh
  Confidence,    \* of each object
  Label,         \* its class_id
  Overlaps,      \* <<a, b>>: iou(a, b) > nms_thresh
  ConfThresh,    \* kConfThresh
  MaxRows        \* kMaxNumOutputBbox, 1000 in the code

ASSUME WxAssumption ==
  /\ None \notin Pictures \cup Boxes \cup Seq(Boxes \cup {None})
  /\ IsFiniteSet(Cells)
  /\ Anchors \in [Pictures -> [Cells -> Seq(Boxes)]]
  /\ Confidence \in [Boxes -> Nat]
  /\ Label \in [Boxes -> Nat]
  /\ \A a, b \in Boxes : <<a, b>> \in Overlaps => <<b, a>> \in Overlaps
  /\ ConfThresh \in Nat
  /\ MaxRows \in Nat \ {0}

VARIABLES
  pc,            \* where the detector thread is
  img,           \* the picture
  todo,          \* the anchors each thread of CalDetection still looks at
  row,           \* the row it fills, or 0
  count,         \* gpu_buffers[1][0]
  rows,          \* and the rows after it
  output,        \* cpu_output_buffer: count and rows
  classes,       \* classes that are not dealt with
  dets,          \* the objects of the present class
  m, n,          \* the indexes of nms(), from 0
  res,           \* the result
  fresh          \* the network ran on this picture (auxiliary)

kernelVars == <<todo, row, count, rows>>
nmsVars == <<classes, dets, m, n, res>>
vars == <<pc, img, kernelVars, output, nmsVars, fresh>>

Rows == 1 .. MaxRows
Idle == [c \in Cells |-> <<>>]

\* The buffers are allocated and not cleared; what they happen to hold does
\* not pass the threshold here.
Init ==
  /\ pc = "take"
  /\ img = None
  /\ todo = Idle
  /\ row = [c \in Cells |-> 0]
  /\ count \in {0, MaxRows}
  /\ rows = [r \in Rows |-> None]
  /\ output = [count |-> 0, rows |-> rows]
  /\ classes = {}
  /\ dets = <<>>
  /\ m = 0 /\ n = 0
  /\ res = <<>>
  /\ fresh = FALSE

Goto(from, to) == pc = from /\ pc' = to

-----------------------------------------------------------------------------
(* The network and CalDetection *)

\* A picture from the queue is preprocessed to gpu_buffers[0].
Take(p) ==
  /\ Goto("take", "enqueue")
  /\ img' = p
  /\ UNCHANGED <<kernelVars, output, nmsVars, fresh>>

\* Mutant: the count is not cleared.
EnqueueNoMemset ==
  /\ Goto("enqueue", "kernel")
  /\ \/ fresh' = TRUE /\ todo' = Anchors[img]
     \/ fresh' = FALSE /\ UNCHANGED todo
  /\ UNCHANGED <<img, row, count, rows, output, nmsVars>>

\* enqueue(): forwardGpu clears the count and starts the threads, or the
\* network fails and the buffer stays as it is.
Enqueue ==
  /\ Goto("enqueue", "kernel")
  /\ \/ fresh' = TRUE /\ count' = 0 /\ todo' = Anchors[img]
     \/ fresh' = FALSE /\ UNCHANGED <<count, todo>>
  /\ UNCHANGED <<img, row, rows, output, nmsVars>>

\* Mutant: the test of the row is missing.
AtomicAddUnbounded(c) ==
  /\ pc = "kernel" /\ todo[c] # <<>> /\ row[c] = 0
  /\ row' = [row EXCEPT ![c] = count + 1]
  /\ count' = count + 1
  /\ UNCHANGED <<pc, img, todo, rows, output, nmsVars, fresh>>

\* atomicAdd gives the thread the next row,
AtomicAdd(c) ==
  /\ pc = "kernel" /\ todo[c] # <<>> /\ row[c] = 0
  /\ count < MaxRows
  /\ row' = [row EXCEPT ![c] = count + 1]
  /\ count' = count + 1
  /\ UNCHANGED <<pc, img, todo, rows, output, nmsVars, fresh>>

\* or there is none left and the thread returns.
NoRow(c) ==
  /\ pc = "kernel" /\ todo[c] # <<>> /\ row[c] = 0
  /\ count >= MaxRows
  /\ todo' = [todo EXCEPT ![c] = <<>>]
  /\ count' = count + 1
  /\ UNCHANGED <<pc, img, row, rows, output, nmsVars, fresh>>

\* The row is filled and the next anchor is looked at.
Write(c) ==
  /\ pc = "kernel" /\ row[c] # 0
  /\ rows' = [rows EXCEPT ![row[c]] = Head(todo[c])]
  /\ todo' = [todo EXCEPT ![c] = Tail(@)]
  /\ row' = [row EXCEPT ![c] = 0]
  /\ UNCHANGED <<pc, img, count, output, nmsVars, fresh>>

-----------------------------------------------------------------------------
(* nms() *)

\* The objects nms() takes from the buffer, and those of a class.
Taken(out) == {b \in {out.rows[r] : r \in {r \in Rows : r <= out.count}} :
                      b # None /\ Confidence[b] > ConfThresh}
InClass(out, l) == {b \in Taken(out) : Label[b] = l}

\* Mutant: cudaStreamSynchronize is missing.
SynchronizeNot ==
  /\ Goto("kernel", "classes")
  /\ output' = [count |-> count, rows |-> rows]
  /\ classes' = {Label[b] : b \in Taken(output')}
  /\ UNCHANGED <<img, kernelVars, dets, m, n, res, fresh>>

\* The threads have ended and the buffer has been copied to the host.
Synchronize ==
  /\ Goto("kernel", "classes")
  /\ todo = Idle
  /\ output' = [count |-> count, rows |-> rows]
  /\ classes' = {Label[b] : b \in Taken(output')}
  /\ UNCHANGED <<img, kernelVars, dets, m, n, res, fresh>>

\* Mutant: no std::sort.
ArrangementsAny(S) ==
  {s \in [1 .. Cardinality(S) -> S] : \A b \in S : \E i \in DOMAIN s : s[i] = b}

\* What std::sort may make of the objects of a class: those of equal
\* confidence in any order.
Arrangements(S) ==
  {s \in [1 .. Cardinality(S) -> S] :
     /\ \A b \in S : \E i \in DOMAIN s : s[i] = b
     /\ \A i, j \in DOMAIN s : i < j => Confidence[s[i]] >= Confidence[s[j]]}

NextClass(l) ==
  /\ Goto("classes", "outer")
  /\ l \in classes /\ \A k \in classes : l <= k
  /\ classes' = classes \ {l}
  /\ dets' \in Arrangements(InClass(output, l))
  /\ m' = 0
  /\ UNCHANGED <<img, kernelVars, output, n, res, fresh>>

\* Mutant: the inner loop begins with the object itself.
ItemSelf ==
  /\ Goto("outer", "inner")
  /\ m < Len(dets)
  /\ res' = Append(res, dets[m + 1])
  /\ n' = m
  /\ UNCHANGED <<img, kernelVars, output, classes, dets, m, fresh>>

\* The next object goes to the result.
Item ==
  /\ Goto("outer", "inner")
  /\ m < Len(dets)
  /\ res' = Append(res, dets[m + 1])
  /\ n' = m + 1
  /\ UNCHANGED <<img, kernelVars, output, classes, dets, m, fresh>>

Overlap == <<dets[m + 1], dets[n + 1]>> \in Overlaps

Erase(s, k) == SubSeq(s, 1, k - 1) \o SubSeq(s, k + 1, Len(s))

\* Mutant: --n is missing.
SuppressSkips ==
  /\ pc = "inner" /\ n < Len(dets) /\ Overlap
  /\ dets' = Erase(dets, n + 1)
  /\ n' = n + 1
  /\ UNCHANGED <<pc, img, kernelVars, output, classes, m, res, fresh>>

\* An object it overlaps is erased; --n and ++n cancel out.
Suppress ==
  /\ pc = "inner" /\ n < Len(dets) /\ Overlap
  /\ dets' = Erase(dets, n + 1)
  /\ UNCHANGED <<pc, img, kernelVars, output, classes, m, n, res, fresh>>

\* Mutant: ++n is missing.
KeepStays ==
  /\ pc = "inner" /\ n < Len(dets) /\ ~Overlap
  /\ UNCHANGED vars

Keep ==
  /\ pc = "inner" /\ n < Len(dets) /\ ~Overlap
  /\ n' = n + 1
  /\ UNCHANGED <<pc, img, kernelVars, output, classes, dets, m, res, fresh>>

NextItem ==
  /\ Goto("inner", "outer")
  /\ n >= Len(dets)
  /\ m' = m + 1
  /\ UNCHANGED <<img, kernelVars, output, classes, dets, n, res, fresh>>

EndOfClass ==
  /\ Goto("outer", "classes")
  /\ m >= Len(dets)
  /\ UNCHANGED <<img, kernelVars, output, nmsVars, fresh>>

EndOfClasses ==
  /\ Goto("classes", "show")
  /\ classes = {}
  /\ UNCHANGED <<img, kernelVars, output, nmsVars, fresh>>

\* draw_bbox; res_batch is local to DetectImg.
Draw ==
  /\ Goto("show", "take")
  /\ res' = <<>>
  /\ UNCHANGED <<img, kernelVars, output, classes, dets, m, n, fresh>>

-----------------------------------------------------------------------------

CalDetection == \E c \in Cells : AtomicAdd(c) \/ NoRow(c) \/ Write(c)

Nms == \/ \E l \in classes : NextClass(l)
       \/ Item \/ Suppress \/ Keep \/ NextItem \/ EndOfClass \/ EndOfClasses

DetectImg == Enqueue \/ CalDetection \/ Synchronize \/ Nms \/ Draw

Next == (\E p \in Pictures : Take(p)) \/ DetectImg

Spec == Init /\ [][Next]_vars

\* The threads of the kernel and the detector thread go on.
FairSpec == Spec /\ WF_vars(DetectImg)

-----------------------------------------------------------------------------

\* Every variable has the values of its declaration in the code.
TypeOK ==
  /\ pc \in {"take", "enqueue", "kernel", "classes", "outer", "inner", "show"}
  /\ img \in Pictures \cup {None}
  /\ todo \in [Cells -> Seq(Boxes)]
  /\ row \in [Cells -> 0 .. MaxRows]
  /\ count \in Nat
  /\ rows \in [Rows -> Boxes \cup {None}]
  /\ output \in [count : Nat, rows : [Rows -> Boxes \cup {None}]]
  /\ classes \subseteq Nat
  /\ dets \in Seq(Boxes)
  /\ {m, n} \subseteq Nat
  /\ res \in Seq(Boxes)
  /\ fresh \in BOOLEAN

Found == {res[i] : i \in DOMAIN res}
Objects(p) == UNION {{Anchors[p][c][i] : i \in DOMAIN Anchors[p][c]} : c \in Cells}

\* The reference `item` of nms() into the vector it erases from denotes the
\* object that was put in the result until the inner loop ends, and n, which is
\* decremented behind an erased object, stays beyond it and never wraps.
ItemStays == pc = "inner" => /\ m < n /\ n <= Len(dets)
                             /\ res[Len(res)] = dets[m + 1]

\* An object above the threshold is suppressed only by one that is shown, of its
\* class, at least as sure, and that it overlaps: the erased objects suppress
\* nothing themselves.
DropsJustified ==
  pc = "show" => \A b \in Taken(output) \ Found :
    \E f \in Found : /\ Label[f] = Label[b]
                     /\ Confidence[f] >= Confidence[b]
                     /\ <<f, b>> \in Overlaps

AboveThreshold(p) == {b \in Objects(p) : Confidence[b] > ConfThresh}

\* Nothing that was found is lost but to a full buffer, whatever the order of
\* the threads.
NothingLost ==
  pc = "show" /\ fresh /\ output.count <= MaxRows =>
    AboveThreshold(img) = Taken(output)

\* The anchors of a picture, by cell and number in the cell; the pictures whose
\* anchors all find a row.
Anchorage(p) == UNION {{c} \X DOMAIN Anchors[p][c] : c \in Cells}
Fits(p) == Cardinality(Anchorage(p)) <= MaxRows

Promise == INSTANCE DetectionResult WITH
  Candidates <- [p \in Pictures |-> AboveThreshold(p)],
  Fitting <- {p \in Pictures : Fits(p)},
  Nothing <- None, Fault <- <<None>>,
  view <- [label |-> Label, hidden |-> {}],
  picture <- IF pc = "take" THEN None ELSE img,
  shown <- CASE pc # "show" -> None
             [] pc = "show" /\ ~fresh -> <<None>>
             [] OTHER -> res

\* Kernel, stale buffers, sort and the erasing loops come down to the promise of
\* DetectionResult: a result the picture justifies, every object once, none left of
\* an earlier picture, none overlapping another of its class, and a surest one of
\* every class that was found.
ImplementsDetection == Promise!Spec

\* Every picture that was taken is shown, and the next one can be taken.
PictureShown == pc = "enqueue" ~> pc = "take"
==============================================================================
