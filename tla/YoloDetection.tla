---------------------------- MODULE YoloDetection ----------------------------
(***************************************************************************)
(* What a yolo detector does with one picture: copy() to the GPU,          *)
(* preprocess(), infer(), postprocess() and reset(), on device buffers     *)
(* that survive from one picture to the next.                              *)
(*                                                                         *)
(* postprocess() runs kernels.  decode_yolo_device_kernel has one thread   *)
(* per object of the network; a thread whose object passes the threshold   *)
(* takes a row of m_output_objects_device with atomicAdd and fills it, so  *)
(* the order of the rows is the order of the threads.  Then one thread per *)
(* row clears the keep flags of overlapping objects: nms_fast_kernel (V1)  *)
(* its own flag, nms_sort_kernel (V2) those of the rows after it in the    *)
(* order of confidence.  Threads of one kernel run in any order; a kernel  *)
(* begins when the one before it has ended.                                *)
(*                                                                         *)
(* yolov5 to yolov8 collect the kept rows in m_objectss.  The segmentation *)
(* and the pose detector draw them straight from the rows on the host; the *)
(* first leaves out objects without a pixel in the picture, the second     *)
(* knows one label.                                                        *)
(*                                                                         *)
(* The network is external: it finds Candidates[p] in picture p.  Boxes    *)
(* are model values with a confidence, a label and the pairs whose IoU     *)
(* exceeds iou_thresh.                                                     *)
(***************************************************************************)
EXTENDS Integers, Sequences, FiniteSets

CONSTANTS
  Pictures,      \* the pictures that may come out of the queue
  Boxes,         \* the objects above conf_thresh the network may find
  None,          \* uninitialised memory
  Candidates,    \* the objects of each picture
  Confidence,    \* of each box, above 0
  Label,         \* of each box
  Overlaps,      \* <<a, b>>: box_iou(a, b) > iou_thresh
  Empty,         \* the boxes that cover no pixel of the picture once rounded
  topK,          \* rows of m_output_objects_device, 1000 in the code
  CallsCopy      \* Run calls copy(), as all detectors but fyApplyYolov7 do

ASSUME YoloAssumption ==
  /\ None \notin Pictures \cup Boxes \cup Seq(Boxes \cup {None})
  /\ IsFiniteSet(Boxes)
  /\ Candidates \in [Pictures -> SUBSET Boxes]
  /\ Confidence \in [Boxes -> Nat \ {0}]
  /\ \A a, b \in Boxes : <<a, b>> \in Overlaps => <<b, a>> \in Overlaps
  /\ Empty \subseteq Boxes
  /\ topK \in Nat \ {0}
  /\ CallsCopy \in BOOLEAN

VARIABLES
  pc,            \* where the detector thread is
  kind,          \* the class of the detector
  img,           \* imgs_batch[0]
  src,           \* the picture in m_input_src_device
  hwc,           \* the picture in m_input_hwc_device
  out,           \* the objects in m_output_src_device
  context,       \* what executeV2 returned
  thread,        \* the threads of the decode kernel
  index,         \* their rows, from 0
  count,         \* m_output_objects_device[0]
  rows,          \* the rows after it
  idx,           \* m_output_idx_device, sorted
  ran,           \* the threads of the nms kernel that have run
  m_objectss,    \* the result, in the order of the rows; for seg and pose the
                 \* kept rows of m_output_objects_host
  cleared        \* reset() has been called (auxiliary)

inputVars == <<kind, img, src, hwc, out, context>>
decodeVars == <<thread, index, count>>
nmsVars == <<idx, ran>>
vars == <<pc, inputVars, decodeVars, rows, nmsVars, m_objectss, cleared>>

Rows == 1 .. topK

\* class YOLO serves yolov5 and yolov7, YOLOV8, YOLOv8Seg and YOLOv8Pose override
\* its postprocess(); YOLOV8 runs nmsDeviceV2, the others nmsDeviceV1.
Kinds == {"yolo", "yolov8", "seg", "pose"}
NmsOf(k) == IF k = "yolov8" THEN "V2" ELSE "V1"
Collects(k) == k \in {"yolo", "yolov8"}

\* The pose kernel writes label 0 into every row.
LabelOf(b) == IF kind = "pose" THEN "person" ELSE Label[b]

\* Mutant: memset with -1.
ZeroAllOnes == [box |-> None, keep |-> -1]

\* A row that cudaMemset cleared.
Zero == [box |-> None, keep |-> 0]
Goto(from, to) == pc = from /\ pc' = to

\* A cleared row has confidence 0.
Conf(r) == IF rows[r].box = None THEN 0 ELSE Confidence[rows[r].box]

\* int(p_count[0]) is capped with topK wherever it is read.
Rowcount == IF count < topK THEN count ELSE topK

\* The constructor allocates the device buffers and leaves what is in them.
Init ==
  /\ pc = "take"
  /\ kind \in Kinds
  /\ img = None /\ src = None /\ hwc = None
  /\ out = {}
  /\ context = TRUE
  /\ thread = [b \in Boxes |-> "done"]
  /\ index = [b \in Boxes |-> 0]
  /\ count \in 0 .. topK
  /\ rows \in {[r \in Rows |-> Zero], [r \in Rows |-> [Zero EXCEPT !.keep = 1]]}
  /\ idx = [r \in Rows |-> r]
  /\ ran = {}
  /\ m_objectss = <<>>
  /\ cleared = FALSE

-----------------------------------------------------------------------------
(* From the picture to the network's output *)

\* A picture from the queue becomes imgs_batch.
Take(p) ==
  /\ Goto("take", "copy")
  /\ img' = p
  /\ UNCHANGED <<kind, src, hwc, out, context, decodeVars, rows, nmsVars,
                 m_objectss, cleared>>

\* copy(): cudaMemcpy to m_input_src_device.
Copy ==
  /\ Goto("copy", "preprocess")
  /\ src' = IF CallsCopy THEN img ELSE src
  /\ UNCHANGED <<kind, img, hwc, out, context, decodeVars, rows, nmsVars,
                 m_objectss, cleared>>

\* preprocess(): resize, bgr to rgb, normalise and hwc to chw, in this order.
Preprocess ==
  /\ Goto("preprocess", "infer")
  /\ hwc' = src
  /\ UNCHANGED <<kind, img, src, out, context, decodeVars, rows, nmsVars,
                 m_objectss, cleared>>

\* infer(): executeV2 fills m_output_src_device, or fails, which Run ignores.
\* The kernel starts with one thread per object.
Infer ==
  /\ Goto("infer", "decode")
  /\ context' \in BOOLEAN
  /\ IF context'
     THEN out' \in IF hwc = None THEN SUBSET Boxes ELSE {Candidates[hwc]}
     ELSE out' = out
  /\ thread' = [b \in Boxes |-> IF b \in out' THEN "add" ELSE "done"]
  /\ UNCHANGED <<kind, img, src, hwc, index, count, rows, nmsVars, m_objectss,
                 cleared>>

-----------------------------------------------------------------------------
(* postprocess() *)

\* Mutant: > for >= in the test of the row.
AtomicAddOneMore(b) ==
  /\ pc = "decode" /\ thread[b] = "add"
  /\ index' = [index EXCEPT ![b] = count]
  /\ count' = count + 1
  /\ thread' = [thread EXCEPT ![b] = IF count > topK THEN "done" ELSE "write"]
  /\ UNCHANGED <<pc, inputVars, rows, nmsVars, m_objectss, cleared>>

\* atomicAdd on the count gives the thread its row; beyond topK it is dropped.
AtomicAdd(b) ==
  /\ pc = "decode" /\ thread[b] = "add"
  /\ index' = [index EXCEPT ![b] = count]
  /\ count' = count + 1
  /\ thread' = [thread EXCEPT ![b] = IF count >= topK THEN "done" ELSE "write"]
  /\ UNCHANGED <<pc, inputVars, rows, nmsVars, m_objectss, cleared>>

\* The thread fills its row, keep flag 1.
Write(b) ==
  /\ pc = "decode" /\ thread[b] = "write"
  /\ rows' = [rows EXCEPT ![index[b] + 1] = [box |-> b, keep |-> 1]]
  /\ thread' = [thread EXCEPT ![b] = "done"]
  /\ UNCHANGED <<pc, inputVars, index, count, nmsVars, m_objectss, cleared>>

Sorted(perm) == \A i, j \in Rows : i < j => Conf(perm[i]) >= Conf(perm[j])
Permutation(perm) == \A i, j \in Rows : i # j => perm[i] # perm[j]

\* All threads have ended.  V2 sorts the rows, all topK of them, by confidence;
\* rows of equal confidence in any order.
SortByKey ==
  /\ Goto("decode", "nms")
  /\ \A b \in Boxes : thread[b] = "done"
  /\ IF NmsOf(kind) = "V1" THEN UNCHANGED idx
     ELSE \E perm \in [Rows -> Rows] : /\ Permutation(perm) /\ Sorted(perm)
                                       /\ idx' = perm
  /\ ran' = {}
  /\ UNCHANGED <<inputVars, decodeVars, rows, m_objectss, cleared>>

SameLabel(r, s) == rows[r].box # None /\ rows[s].box # None
                     /\ LabelOf(rows[r].box) = LabelOf(rows[s].box)
Overlap(r, s) == SameLabel(r, s) /\ <<rows[r].box, rows[s].box>> \in Overlaps

\* The thread with number dx of the nms kernel, which dx >= count ends at once.
NmsThread(dx) ==
  /\ pc = "nms"
  /\ dx \in 1 .. Rowcount \ ran
  /\ ran' = ran \cup {dx}
  /\ UNCHANGED <<pc, inputVars, decodeVars, idx, m_objectss, cleared>>

\* Mutant: rows of equal confidence suppress each other.
NmsFastNoTie(dx) ==
  /\ NmsOf(kind) = "V1"
  /\ NmsThread(dx)
  /\ rows' = IF \E i \in 1 .. Rowcount \ {dx} : Conf(i) >= Conf(dx) /\ Overlap(dx, i)
             THEN [rows EXCEPT ![dx].keep = 0] ELSE rows

\* Mutant: only objects that are still kept suppress others.
NmsFastKept(dx) ==
  /\ NmsOf(kind) = "V1"
  /\ NmsThread(dx)
  /\ rows' = IF \E i \in 1 .. Rowcount \ {dx} :
                  /\ Conf(i) > Conf(dx) \/ (Conf(i) = Conf(dx) /\ i > dx)
                  /\ rows[i].keep = 1
                  /\ Overlap(dx, i)
             THEN [rows EXCEPT ![dx].keep = 0] ELSE rows

\* nms_fast_kernel: row dx goes if a row it overlaps has a higher confidence,
\* or the same and comes later.
NmsFast(dx) ==
  /\ NmsOf(kind) = "V1"
  /\ NmsThread(dx)
  /\ rows' = IF \E i \in 1 .. Rowcount \ {dx} :
                  /\ Conf(i) > Conf(dx) \/ (Conf(i) = Conf(dx) /\ i > dx)
                  /\ Overlap(dx, i)
             THEN [rows EXCEPT ![dx].keep = 0] ELSE rows

\* nms_sort_kernel: the rows that row dx of the sorted order overlaps go, if
\* they come after it.
NmsSort(dx) ==
  /\ NmsOf(kind) = "V2"
  /\ NmsThread(dx)
  /\ LET gone == {r \in Rows : \E i \in dx + 1 .. Rowcount :
                    r = idx[i] /\ Overlap(idx[dx], r)}
     IN rows' = [r \in Rows |-> IF r \in gone THEN [rows[r] EXCEPT !.keep = 0]
                                ELSE rows[r]]

\* The rows are copied to the host; postprocess() adds the kept ones to the
\* result, or showAndSave() draws them from there.
Kept == {r \in 1 .. Rowcount : rows[r].keep = 1}
Drawn == IF kind = "seg" THEN {r \in Kept : rows[r].box \notin Empty} ELSE Kept
Collect ==
  /\ Goto("nms", "show")
  /\ ran = 1 .. Rowcount
  /\ \E order \in [1 .. Cardinality(Drawn) -> Drawn] :
       /\ \A i, j \in DOMAIN order : i < j => order[i] < order[j]
       /\ m_objectss' = (IF Collects(kind) THEN m_objectss ELSE <<>>)
                          \o [i \in DOMAIN order |-> rows[order[i]].box]
  /\ UNCHANGED <<inputVars, decodeVars, rows, nmsVars, cleared>>

\* Mutant: m_objectss is not cleared.
ResetDeviceOnly ==
  /\ Goto("show", "take")
  /\ count' = 0
  /\ rows' = [r \in Rows |-> Zero]
  /\ cleared' = TRUE
  /\ UNCHANGED <<inputVars, thread, index, nmsVars, m_objectss>>

\* The result is drawn and shown; reset() clears the device rows and m_objectss.
Reset ==
  /\ Goto("show", "take")
  /\ count' = 0
  /\ rows' = [r \in Rows |-> Zero]
  /\ m_objectss' = IF Collects(kind) THEN <<>> ELSE m_objectss
  /\ cleared' = TRUE
  /\ UNCHANGED <<inputVars, thread, index, nmsVars>>

-----------------------------------------------------------------------------

Next == \/ (\E p \in Pictures : Take(p)) \/ Copy \/ Preprocess \/ Infer
        \/ \E b \in Boxes : AtomicAdd(b) \/ Write(b)
        \/ SortByKey
        \/ \E dx \in Rows : NmsFast(dx) \/ NmsSort(dx)
        \/ Collect \/ Reset

Spec == Init /\ [][Next]_vars

-----------------------------------------------------------------------------

\* Every variable has the values of its declaration in the code.
TypeOK ==
  /\ pc \in {"take", "copy", "preprocess", "infer", "decode", "nms", "show"}
  /\ kind \in Kinds
  /\ {img, src, hwc} \subseteq Pictures \cup {None}
  /\ out \subseteq Boxes
  /\ context \in BOOLEAN
  /\ thread \in [Boxes -> {"add", "write", "done"}]
  /\ index \in [Boxes -> Nat]
  /\ count \in Nat
  /\ rows \in [Rows -> [box : Boxes \cup {None}, keep : {0, 1}]]
  /\ idx \in [Rows -> Rows]
  /\ ran \subseteq Rows
  /\ m_objectss \in Seq(Boxes \cup {None})
  /\ cleared \in BOOLEAN

\* No thread of the decode kernel writes beyond the rows, and no two write the
\* same one, in whatever order they run.
RowsApart ==
  \A b \in Boxes : thread[b] = "write" =>
    /\ index[b] < topK
    /\ \A a \in Boxes \ {b} : thread[a] = "write" => index[a] # index[b]
    /\ rows[index[b] + 1] = Zero \/ ~cleared

\* The device memory is uninitialised for the first picture and stale after a
\* failed executeV2; the properties below speak of the other pictures.
Shown == pc = "show" /\ cleared /\ context
Found == {m_objectss[i] : i \in DOMAIN m_objectss}

\* What is shown for a picture was found in this picture, each object once, and
\* nothing is left of an earlier one.
ResultOfPicture ==
  Shown => /\ Found \subseteq Candidates[img]
           /\ Cardinality(Found) = Len(m_objectss)

Better(a, b) == /\ <<a, b>> \in Overlaps /\ LabelOf(a) = LabelOf(b)
                /\ Confidence[a] > Confidence[b]
Ties(S) == \E a, b \in S : a # b /\ Confidence[a] = Confidence[b]

Hidden == IF kind = "seg" THEN Empty ELSE {}

\* The result depends on the picture and not on the order of the threads: with
\* distinct confidences it is the objects no better one overlaps.
OrderOfThreadsHidden ==
  Shown /\ Cardinality(out) <= topK /\ ~Ties(out) =>
    Found = {b \in out : \A a \in out : ~Better(a, b)} \ Hidden

Promise == INSTANCE DetectionResult WITH
  Fitting <- {p \in Pictures : Cardinality(Candidates[p]) <= topK},
  Nothing <- None, Fault <- <<None>>,
  view <- [label |-> [b \in Boxes |-> LabelOf(b)], hidden |-> Hidden],
  picture <- IF pc = "take" THEN None ELSE img,
  shown <- CASE pc # "show" -> None
             [] pc = "show" /\ ~(cleared /\ context) -> <<None>>
             [] OTHER -> m_objectss

\* The kernels, the stale buffers and the orders of the threads come down to the
\* promise of DetectionResult: a result the picture justifies, every object once,
\* none left of an earlier picture, none overlapping another of its label, and a
\* surest one of every label that was found.
ImplementsDetection == Promise!Spec
==============================================================================
