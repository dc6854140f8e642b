-------------------------- MODULE DetectionResult --------------------------
(***************************************************************************)
(* What a detector promises for a picture, whichever network, kernels and  *)
(* suppression it uses: it takes a picture, shows a result that this       *)
(* picture justifies, and only then turns to the next.  YoloDetection and  *)
(* WxDetection are shown to implement it.                                  *)
(*                                                                         *)
(* A result is Fault when the promise is off: the network failed, or       *)
(* nobody had cleared the device memory yet.                               *)
(***************************************************************************)
EXTENDS Naturals

CONSTANTS
  Pictures,
  Boxes,         \* the objects a network may find
  Candidates,    \* those it finds in each picture, above the threshold
  Confidence,    \* of each object
  Overlaps,      \* pairs of objects too close to be two
  Fitting,       \* the pictures whose objects all fit into the buffers
  None,          \* no picture
  Nothing,       \* no result
  Fault

VARIABLES
  view,          \* the label the detector gives each object, and the objects
                 \* it keeps but cannot draw; fixed for a detector
  picture,       \* the picture being worked on
  shown          \* the result on the screen

resultVars == <<view, picture, shown>>

Init == picture = None /\ shown = Nothing

Take == /\ picture = None
        /\ picture' \in Pictures
        /\ UNCHANGED <<view, shown>>

SameLabel(a, b) == view.label[a] = view.label[b]

\* Objects of a label are kept apart, and if there was room for all, one of the
\* surest of every label is among the kept.
Justified(kept, p) ==
  /\ kept \subseteq Candidates[p]
  /\ \A a, b \in kept : a # b /\ SameLabel(a, b) => <<a, b>> \notin Overlaps
  /\ p \in Fitting => \A a \in Candidates[p] : \E b \in kept :
                        SameLabel(a, b) /\ Confidence[b] >= Confidence[a]

Objects(result) == {result[i] : i \in DOMAIN result}
Once(result) == \A i, j \in DOMAIN result : i # j => result[i] # result[j]

\* Every object that is kept and can be drawn is shown, and once.
Show == /\ picture # None /\ shown = Nothing
        /\ shown' # Nothing
        /\ \/ shown' = Fault
           \/ /\ Once(shown')
              /\ \E hidden \in SUBSET (view.hidden \cap Candidates[picture]) :
                   /\ Objects(shown') \cap view.hidden = {}
                   /\ Justified(Objects(shown') \cup hidden, picture)
        /\ UNCHANGED <<view, picture>>

Done == /\ shown # Nothing
        /\ shown' = Nothing
        /\ picture' = None
        /\ UNCHANGED view

Next == Take \/ Show \/ Done

Spec == Init /\ [][Next]_resultVars
=============================================================================
