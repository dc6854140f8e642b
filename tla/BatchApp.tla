------------------------------ MODULE BatchApp ------------------------------
(***************************************************************************)
(* main() of the tensorRT demo applications (app_yolov5 ... app_yolov8):   *)
(* frames of an image, a video or a camera are collected into batches, and *)
(* task() sends a batch through the network and shows and saves it.  The   *)
(* device buffers have batch_size slots and survive from batch to batch;   *)
(* the last batch of a stream may fill fewer of them, or none.             *)
(*                                                                         *)
(* A frame is the number it has in its stream; its pixels and what the     *)
(* network answers to it are constants.  What a slot has found are the     *)
(* objects of its at most topK rows, before suppression: the nms kernel    *)
(* and its keep flag are the matter of YoloDetection and left out here.    *)
(***************************************************************************)
EXTENDS PictureKernels, Sequences

CONSTANTS
  MaxFrames,      \* frames of a stream at most
  BatchSizes,     \* --batch_size
  Geometries,     \* [src, dst]: sizes of the frames and of the network's input
  Pixel(_, _, _, _),  \* frame, row, column, channel: a byte of cv::Mat::data
  Uninitialised,  \* a byte of memory nobody has written
  topK,           \* rows for objects in a slot
  candidates,     \* m_total_objects
  num_class,
  conf_thresh,
  Answer          \* [0 .. MaxFrames -> a buffer]: the network's output for a
                  \* frame, a row per attribute; 0 for any other input

Frames == 1 .. MaxFrames
Lengths == Nat \ {0}
Sizes == [h : Lengths, w : Lengths]
attributes == 4 + num_class
answerSize == candidates * attributes

ASSUME AppAssumption ==
  /\ MaxFrames \in Lengths /\ BatchSizes \subseteq Lengths
  /\ Geometries \subseteq [src : Sizes, dst : Sizes]
  /\ \A f \in Frames, g \in Geometries :
       \A y \in 0 .. g.src.h - 1, x \in 0 .. g.src.w - 1, c \in 0 .. 2 :
         Pixel(f, y, x, c) \in 0 .. 255
  /\ topK \in Lengths /\ candidates \in Lengths /\ num_class \in Lengths
  /\ Answer \in [0 .. MaxFrames -> [0 .. answerSize - 1 -> Nat]]
  /\ Uninitialised \in 0 .. 255

VARIABLES
  pc,             \* where main is
  source,         \* "IMAGE", "VIDEO" or "CAMERA"
  delivered,      \* frames the stream really has
  announced,      \* CAP_PROP_FRAME_COUNT
  geometry,       \* param.src_h, src_w, dst_h, dst_w
  batch_size,     \* param.batch_size
  is_show,        \* --show was given; --savePath always is
  total_batches,
  batchi,
  imgs_batch,     \* the frames read for the batch
  read,           \* frames read from the stream
  last,           \* the batch is the one after which the loop breaks
  device,         \* the five input buffers
  context,        \* what executeV2 returned
  output,         \* m_output_src_device
  objects,        \* m_output_objects_device: the objects of each slot
  counts,         \* and the count in front of them, which may exceed topK
  m_objectss,     \* the objects of each slot, on the host
  cleared,        \* reset() has been called (auxiliary)
  window,         \* what was shown, in order: frame and objects
  files           \* what was saved: number in the name -> frame and objects

optionVars == <<source, delivered, announced, geometry, batch_size, is_show,
                total_batches>>
loopVars == <<batchi, imgs_batch, read, last>>
gpuVars == <<device, context, output, objects, counts, m_objectss, cleared>>
resultVars == <<window, files>>
vars == <<pc, optionVars, loopVars, gpuVars, resultVars>>

Slots == 0 .. batch_size - 1
s == geometry.src
d == geometry.dst

Ceil(n, m) == (n + m - 1) \div m

\* Mutant: a batch too many when the frames fill the last one.
TotalBatchesOneMore(src, count, size) ==
  CASE src = "IMAGE" -> 1
    [] src = "VIDEO" -> count \div size + 1
    [] src = "CAMERA" -> MaxFrames + 1

\* utils::setInputStream: the batches there will be.  A camera has no end
\* (INT_MAX); the loop never compares its number.
TotalBatches(src, count, size) ==
  CASE src = "IMAGE" -> 1
    [] src = "VIDEO" -> Ceil(count, size)
    [] src = "CAMERA" -> MaxFrames + 1

\* An object that uninitialised device rows may happen to hold.
Stray == [box |-> <<0, 0, 0, 0>>, confidence |-> 0, label |-> 0]

Memory(size) == [i \in 0 .. size - 1 |-> Uninitialised]

\* The command line, setInputStream and the constructor.  A video may end before
\* or after the number of frames its container announces; a camera delivers
\* until it is unplugged; imread finds its image or does not.
Init ==
  /\ pc = "open"
  /\ source \in {"IMAGE", "VIDEO", "CAMERA"}
  /\ delivered \in 0 .. MaxFrames
  /\ announced \in IF source = "VIDEO" THEN 0 .. MaxFrames ELSE {1}
  /\ geometry \in Geometries
  /\ batch_size \in IF source = "IMAGE" THEN {1} ELSE BatchSizes
  /\ is_show \in BOOLEAN
  /\ total_batches = TotalBatches(source, announced, batch_size)
  /\ batchi = 0 /\ imgs_batch = <<>> /\ read = 0 /\ last = FALSE
  /\ device = [src |-> Memory(batch_size * Volume(s)),
               resize |-> Memory(batch_size * Volume(d)),
               rgb |-> Memory(batch_size * Volume(d)),
               norm |-> Memory(batch_size * Volume(d)),
               hwc |-> Memory(batch_size * Volume(d))]
  /\ context = TRUE
  /\ output = Memory(batch_size * answerSize)
  /\ objects \in {[b \in Slots |-> {}], [b \in Slots |-> {Stray}]}
  /\ counts = [b \in Slots |-> Cardinality(objects[b])]
  /\ m_objectss = [b \in Slots |-> {}]
  /\ cleared = FALSE
  /\ window = <<>>
  /\ files = <<>>

Goto(from, to) == pc = from /\ pc' = to

-----------------------------------------------------------------------------
(* main *)

\* The stream is opened and the engine loaded, or main returns -1.
Open ==
  /\ pc = "open"
  /\ pc' \in {"loop", "failed"}
  /\ UNCHANGED <<optionVars, loopVars, gpuVars, resultVars>>

AllBatchesDone == batchi >= total_batches /\ source # "CAMERA"

Break ==
  /\ Goto("loop", "exit")
  /\ AllBatchesDone
  /\ UNCHANGED <<optionVars, loopVars, gpuVars, resultVars>>

\* capture.read takes the next frame; imread reads the same file every time.
More == delivered > 0 /\ (source = "IMAGE" \/ read < delivered)

\* Mutant: <= for < in the test of the batch.
ReadOneMore ==
  /\ Goto("loop", "loop")
  /\ ~AllBatchesDone
  /\ Len(imgs_batch) <= batch_size
  /\ More
  /\ read' = read + 1
  /\ imgs_batch' = Append(imgs_batch, IF source = "IMAGE" THEN 1 ELSE read + 1)
  /\ UNCHANGED <<optionVars, batchi, last, gpuVars, resultVars>>

Read ==
  /\ Goto("loop", "loop")
  /\ ~AllBatchesDone
  /\ Len(imgs_batch) < batch_size
  /\ More
  /\ read' = read + 1
  /\ imgs_batch' = Append(imgs_batch, IF source = "IMAGE" THEN 1 ELSE read + 1)
  /\ UNCHANGED <<optionVars, batchi, last, gpuVars, resultVars>>

\* Mutant: the frames of a batch that is not full are dropped.
NoMoreDropsRest ==
  /\ Goto("loop", "exit")
  /\ ~AllBatchesDone
  /\ Len(imgs_batch) < batch_size
  /\ ~More
  /\ UNCHANGED <<optionVars, loopVars, gpuVars, resultVars>>

\* Mutant: an empty frame is skipped.
NoMoreSkipped ==
  /\ Goto("loop", "loop")
  /\ ~AllBatchesDone
  /\ Len(imgs_batch) < batch_size
  /\ ~More
  /\ UNCHANGED <<optionVars, loopVars, gpuVars, resultVars>>

\* No more frames: task() gets what there is, and the loop breaks.
NoMore ==
  /\ Goto("loop", "copy")
  /\ ~AllBatchesDone
  /\ Len(imgs_batch) < batch_size
  /\ ~More
  /\ last' = TRUE
  /\ UNCHANGED <<optionVars, batchi, imgs_batch, read, gpuVars, resultVars>>

\* The batch is full.
Full ==
  /\ Goto("loop", "copy")
  /\ ~AllBatchesDone
  /\ Len(imgs_batch) = batch_size
  /\ UNCHANGED <<optionVars, loopVars, gpuVars, resultVars>>

-----------------------------------------------------------------------------
(* task *)

\* The pixels of the batch go to the first slots; the others keep theirs.
Copied ==
  LET at(i) == i \div Volume(s)
      of(i) == i % Volume(s)
  IN  [i \in DOMAIN device.src |->
         IF at(i) < Len(imgs_batch)
         THEN Pixel(imgs_batch[at(i) + 1], of(i) \div (3 * s.w),
                    (of(i) \div 3) % s.w, of(i) % 3)
         ELSE device.src[i]]

Copy ==
  /\ Goto("copy", "preprocess")
  /\ device' = [device EXCEPT !.src = Copied]
  /\ UNCHANGED <<optionVars, loopVars, context, output, objects, counts, m_objectss,
                 cleared, resultVars>>

\* The four kernels, each on all slots.
Preprocess ==
  /\ Goto("preprocess", "infer")
  /\ LET resize == resizeDevice(batch_size, device.src, s, device.resize, d)
         rgb == bgr2rgbDevice(batch_size, resize, device.rgb, d)
         norm == normDevice(batch_size, rgb, device.norm, d)
     IN  device' = [src |-> device.src, resize |-> resize, rgb |-> rgb, norm |-> norm,
                    hwc |-> hwc2chwDevice(batch_size, norm, device.hwc, d)]
  /\ UNCHANGED <<optionVars, loopVars, context, output, objects, counts, m_objectss,
                 cleared, resultVars>>

\* The network's input in slot b.
Input(b) == [i \in 0 .. Volume(d) - 1 |-> device.hwc[b * Volume(d) + i]]

\* The input each frame should become, for sizes g: plane, row, column.
Inputs ==
  [g \in Geometries |-> [f \in Frames |->
     LET area == g.dst.h * g.dst.w
         pixel(y, x, c) == Pixel(f, y, x, c)
     IN  [i \in 0 .. Volume(g.dst) - 1 |->
            Norm(Letterboxed(pixel, g.src, g.dst, (i % area) \div g.dst.w,
                             i % g.dst.w, i \div area),
                 i \div area)]]]

\* The network is a function: frames that become one input get one answer.
ASSUME NetworkAssumption ==
  \A g \in Geometries : \A f, h \in Frames :
    Inputs[g][f] = Inputs[g][h] => Answer[f] = Answer[h]

InputOf(f) == Inputs[geometry][f]

\* The frame the network recognises in slot b, or 0.
Seen(b) == LET like == {f \in Frames : Input(b) = InputOf(f)}
           IN  IF like = {} THEN 0 ELSE CHOOSE f \in like : TRUE

\* executeV2 answers for every slot, or fails; task ignores which.
Infer ==
  /\ Goto("infer", "postprocess")
  /\ context' \in BOOLEAN
  /\ LET seen == [b \in Slots |-> Seen(b)]
     IN  output' = IF context'
                   THEN [i \in DOMAIN output |->
                           Answer[seen[i \div answerSize]][i % answerSize]]
                   ELSE output
  /\ UNCHANGED <<optionVars, loopVars, device, objects, counts, m_objectss, cleared,
                 resultVars>>

Candidates == 0 .. candidates - 1

\* The candidates that get a row when room rows are left: all, or those whose
\* threads come first.
WithRow(found, room) ==
  IF Cardinality(found) <= room THEN {found} ELSE kSubset(room, found)

\* The kernels add the candidates above the threshold to the rows of each slot; a
\* thread that comes after row topK has counted and gives up.  The host takes over
\* the min(count, topK) rows of the slots that hold a frame.
Postprocess ==
  /\ Goto("postprocess", "show")
  /\ LET transposed == transposeDevice(batch_size, output, candidates, attributes,
                                       Memory(batch_size * answerSize))
         object(b, c) == Decoded(transposed, candidates, attributes, c, b)
         found == [b \in Slots |->
                     {c \in Candidates : object(b, c).confidence >= conf_thresh}]
         room(b) == IF counts[b] < topK THEN topK - counts[b] ELSE 0
         taken == [b \in Slots |-> WithRow(found[b], room(b))]
     IN  /\ \E kept \in [Slots -> UNION {taken[b] : b \in Slots}] :
              /\ \A b \in Slots : kept[b] \in taken[b]
              /\ objects' = [b \in Slots |->
                               objects[b] \cup {object(b, c) : c \in kept[b]}]
         /\ counts' = [b \in Slots |-> counts[b] + Cardinality(found[b])]
  /\ m_objectss' = [b \in Slots |-> IF b < Len(imgs_batch)
                                    THEN m_objectss[b] \cup objects'[b]
                                    ELSE m_objectss[b]]
  /\ UNCHANGED <<optionVars, loopVars, device, context, output, cleared, resultVars>>

Results == [i \in DOMAIN imgs_batch |->
              [frame |-> imgs_batch[i], objects |-> m_objectss[i - 1]]]

\* utils::show looks at imgsBatch[0] first, even when the batch is empty.
ShowEmpty ==
  /\ Goto("show", "crashed")
  /\ is_show
  /\ imgs_batch = <<>>
  /\ UNCHANGED <<optionVars, loopVars, gpuVars, resultVars>>

\* Mutant: the number in the name of a file is the one in the batch.
FileNumberInBatch(i) == i - 1

\* imgi: the number utils::save gives the i-th frame of the batch.
FileNumber(i) == batchi * batch_size + i - 1

\* utils::show and utils::save: a window and a file per frame.
Show ==
  /\ Goto("show", "reset")
  /\ window' = IF is_show THEN window \o Results ELSE window
  /\ files' = [k \in DOMAIN files \cup {FileNumber(i) : i \in DOMAIN imgs_batch} |->
                 IF \E i \in DOMAIN imgs_batch : k = FileNumber(i)
                 THEN Results[CHOOSE i \in DOMAIN imgs_batch : k = FileNumber(i)]
                 ELSE files[k]]
  /\ UNCHANGED <<optionVars, loopVars, gpuVars>>

\* Mutant: only the host's objects are cleared.
ResetHost ==
  /\ Goto("reset", IF last THEN "exit" ELSE "loop")
  /\ m_objectss' = [b \in Slots |-> {}]
  /\ cleared' = TRUE
  /\ imgs_batch' = <<>>
  /\ batchi' = batchi + 1
  /\ UNCHANGED <<optionVars, read, last, device, context, output, objects, counts,
                 resultVars>>

\* reset() clears all slots; main clears the batch and counts it.
Reset ==
  /\ Goto("reset", IF last THEN "exit" ELSE "loop")
  /\ objects' = [b \in Slots |-> {}]
  /\ counts' = [b \in Slots |-> 0]
  /\ m_objectss' = [b \in Slots |-> {}]
  /\ cleared' = TRUE
  /\ imgs_batch' = <<>>
  /\ batchi' = batchi + 1
  /\ UNCHANGED <<optionVars, read, last, device, context, output, resultVars>>

-----------------------------------------------------------------------------

Next == \/ Open \/ Break \/ Read \/ NoMore \/ Full
        \/ Copy \/ Preprocess \/ Infer \/ Postprocess
        \/ ShowEmpty \/ Show \/ Reset

\* main is one thread that runs; waitKey returns when the user presses a key.
Spec == Init /\ [][Next]_vars /\ WF_vars(Next)

-----------------------------------------------------------------------------

Steps == {"open", "loop", "copy", "preprocess", "infer", "postprocess", "show",
          "reset", "exit", "failed", "crashed"}

\* Every variable has the values of its declaration in the code.
TypeOK ==
  /\ pc \in Steps
  /\ batchi \in Nat /\ read \in Nat
  /\ imgs_batch \in Seq(Frames) /\ Len(imgs_batch) <= batch_size
  /\ {last, context, cleared, is_show} \subseteq BOOLEAN
  /\ device.src \in [0 .. batch_size * Volume(s) - 1 -> 0 .. 255]
  /\ \A buffer \in {device.resize, device.rgb, device.norm, device.hwc} :
       DOMAIN buffer = 0 .. batch_size * Volume(d) - 1
  /\ DOMAIN output = 0 .. batch_size * answerSize - 1
  /\ DOMAIN objects = Slots /\ DOMAIN m_objectss = Slots
  /\ counts \in [Slots -> Nat]

\* What the network gets for a frame of the batch is that frame, scaled to fit,
\* centred, padded, in the order of channels and the layout it was trained on,
\* whatever the slots held before and however the threads were cut into blocks.
NetworkInput ==
  pc = "infer" => \A i \in DOMAIN imgs_batch : Input(i - 1) = InputOf(imgs_batch[i])

\* Attribute a of candidate c in the answer to frame f; its best class, the first of
\* equally good ones; the object it stands for; and the candidates good enough.
Value(f, a, c) == Answer[f][a * candidates + c]
BestOf(f, c) ==
  CHOOSE k \in 0 .. num_class - 1 :
    \A j \in 0 .. num_class - 1 :
      \/ Value(f, 4 + j, c) < Value(f, 4 + k, c)
      \/ Value(f, 4 + j, c) = Value(f, 4 + k, c) /\ j >= k
ObjectAt(f, c) ==
  [box |-> [i \in 1 .. 4 |-> Value(f, i - 1, c)],
   confidence |-> Value(f, 4 + BestOf(f, c), c), label |-> BestOf(f, c)]
Sure(f) == {c \in Candidates : Value(f, 4 + BestOf(f, c), c) >= conf_thresh}

\* What may be shown for frame f: as many of its objects as there are rows for.
IsResultOf(f, shown) ==
  \E kept \in SUBSET Sure(f) : /\ Cardinality(kept) = Min({Cardinality(Sure(f)), topK})
                               /\ shown = {ObjectAt(f, c) : c \in kept}

\* Every frame of a batch is shown with its own objects: none of a frame that used
\* the slot before, none of another slot, and none missing as long as topK rows are
\* enough for it; beyond that topK of them, whichever.  The first batch meets memory
\* nobody cleared, and a failed executeV2 leaves the answer before.
ResultOfFrame ==
  pc = "show" /\ cleared /\ context =>
    \A i \in DOMAIN imgs_batch :
      IsResultOf(imgs_batch[i], m_objectss[i - 1])

\* The frames are shown and saved in the order of the stream, each once and under
\* its own number, also across batches that are not full.
FramesInOrder ==
  LET shown == {k + 1 : k \in DOMAIN files}
  IN  /\ \A k \in DOMAIN files : files[k].frame = k + 1
      /\ \E n \in 0 .. MaxFrames : shown = 1 .. n
      /\ is_show => /\ Len(window) = Cardinality(shown)
                    /\ \A i \in DOMAIN window : window[i].frame = i

\* How many frames main is obliged to handle: all of a camera, and of a video
\* those that fit into the announced batches.
Due == CASE source = "IMAGE" -> IF delivered > 0 THEN 1 ELSE 0
         [] source = "VIDEO" -> Min({delivered, total_batches * batch_size})
         [] source = "CAMERA" -> delivered

\* When main leaves its loop no frame it should have handled is missing, the
\* rest of a batch that was never filled included.
NothingLeftOut ==
  pc = "exit" => Cardinality(DOMAIN files) = Due

\* task() meets an empty batch only when the stream had fewer frames than were
\* announced: a video whose announced frames all come never does.
EmptyOnlyWhenShort ==
  pc = "copy" /\ imgs_batch = <<>> =>
    source = "CAMERA" \/ delivered < (IF source = "IMAGE" THEN 1 ELSE announced)

\* main comes to an end.
AppEnds == <>(pc \in {"exit", "failed", "crashed"})
=============================================================================
