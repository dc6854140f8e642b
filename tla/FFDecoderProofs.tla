--------------------------- MODULE FFDecoderProofs ---------------------------
(***************************************************************************)
(* Proofs about FFDecoder for any number of attempts and any stream lists. *)
(***************************************************************************)
EXTENDS FFDecoder, TLAPS, WellFoundedInduction

\* init() is nine steps.
LEMMA NineSteps == Len(Steps) = 9 /\ DOMAIN Steps = 1 .. 9
BY DEF Steps

\* Which members each step of init() sets.
LEMMA AcquiresOf ==
  /\ Acquires(Steps[1]) = {"ifmt_ctx"}
  /\ Acquires(Steps[4]) = {"codec_ctx"}
  /\ Acquires(Steps[8]) = {"buffer"}
  /\ Acquires(Steps[9]) = {"rawframe", "bgrframe"}
  /\ \A i \in {2, 3, 5, 6, 7} : Acquires(Steps[i]) = {}
BY DEF Acquires, Steps

\* The members set before the n-th step; avdic is set before init() begins.
AcquiredBefore(n) == {k \in Members : \E j \in 1 .. n - 1 : k \in Acquires(Steps[j])}

\* A step adds the members it acquires, none of which was set before, and nine
\* steps set them all.
LEMMA AcquiredStepwise ==
  /\ AcquiredBefore(1) = {}
  /\ \A n \in 1 .. 9 :
       /\ AcquiredBefore(n + 1) = AcquiredBefore(n) \cup Acquires(Steps[n])
       /\ AcquiredBefore(n) \cap Acquires(Steps[n]) = {}
       /\ "avdic" \notin Acquires(Steps[n])
       /\ Acquires(Steps[n]) \subseteq Members
  /\ AcquiredBefore(10) = Members \ {"avdic"}
<1>1. AcquiredBefore(1) = {}
  BY DEF AcquiredBefore
<1>2. ASSUME NEW n \in 1 .. 9
      PROVE  /\ Acquires(Steps[n]) \subseteq Members \ {"avdic"}
             /\ \A i \in 1 .. n - 1 : Acquires(Steps[i]) \cap Acquires(Steps[n]) = {}
  <2>1. /\ n = 1 \/ n = 4 \/ n = 8 \/ n = 9 \/ n \in {2, 3, 5, 6, 7}
        /\ \A i \in 1 .. n - 1 : i = 1 \/ i = 4 \/ i = 8 \/ i \in {2, 3, 5, 6, 7}
    OBVIOUS
  <2> QED
    BY <2>1, AcquiresOf DEF Members
<1>3. ASSUME NEW n \in 1 .. 9
      PROVE  AcquiredBefore(n + 1) = AcquiredBefore(n) \cup Acquires(Steps[n])
  <2>1. \A j : j \in 1 .. (n + 1) - 1 <=> j \in 1 .. n - 1 \/ j = n
    OBVIOUS
  <2> QED
    BY <1>2, <2>1 DEF AcquiredBefore
<1>4. AcquiredBefore(10) = Members \ {"avdic"}
  <2>1. \A j : j \in 1 .. 10 - 1 =>
                 j = 1 \/ j = 4 \/ j = 8 \/ j = 9 \/ j \in {2, 3, 5, 6, 7}
    OBVIOUS
  <2> QED
    BY <2>1, AcquiresOf DEF AcquiredBefore, Members
<1> QED
  BY <1>1, <1>2, <1>3, <1>4 DEF AcquiredBefore

(***************************************************************************)
(* The inductive invariant.  MembersOwned does not say which members a     *)
(* failing step of init() finds set, and ReadyToRead not why the last step *)
(* completes them: both follow from StepsTaken, the members that init()    *)
(* has acquired so far.  The index of the video stream is settled by its   *)
(* second step, and the attempts are counted twice, by ri in the loop and  *)
(* by fails, from the loss of a connection on.                             *)
(***************************************************************************)
StepsTaken ==
  pc = "init" => /\ field \ {"avdic"} = AcquiredBefore(step)
                 /\ step = 1 => "avdic" \in field

IndexSettled ==
  Reading \/ (pc = "init" /\ step > 2) =>
    /\ video_index + 1 \in DOMAIN streams
    /\ Videos(streams) # {} => streams[video_index + 1] = "video"

Attempts ==
  /\ pc \in {"init", "release"} => /\ ri = -1 => fails = 0
                                   /\ ri # -1 => ri = fails /\ ri < rccount
  /\ Reading => fails = 0
  /\ pc = "ended" => fails = rccount

DecoderInv == /\ TypeOK
              /\ MembersOwned
              /\ StepsTaken
              /\ ReadyToRead
              /\ IndexSettled
              /\ Attempts

-----------------------------------------------------------------------------

\* A set of numbers that is not empty has a least one.
LEMMA LeastOfNaturals ==
  ASSUME NEW T \in SUBSET Nat, T # {}
  PROVE  \E x \in T : \A y \in T : x <= y
<1>1. IsWellFoundedOn(OpToRel(<, Nat), Nat)
  BY NatLessThanWellFounded
<1>2. PICK x \in T : \A y \in T : ~ (<<y, x>> \in OpToRel(<, Nat))
  BY <1>1, WFMin
<1>3. ASSUME NEW y \in T
      PROVE  x <= y
  <2>1. ~ (y < x)
    BY <1>2 DEF OpToRel
  <2>2. x \in Nat /\ y \in Nat
    OBVIOUS
  <2> QED
    BY <2>1, <2>2
<1> QED
  BY <1>3

\* The loop over the streams finds a video if there is one.
LEMMA FirstVideoFound ==
  ASSUME NEW s \in Seq({"audio", "video"}), Videos(s) # {}
  PROVE  FirstVideo(s) \in Videos(s) /\ FirstVideo(s) \in Nat
<1>1. Videos(s) \in SUBSET Nat
  BY DEF Videos
<1>2. \E i \in Videos(s) : \A j \in Videos(s) : i <= j
  BY <1>1, LeastOfNaturals
<1> QED
  BY <1>1, <1>2 DEF FirstVideo

\* The heap in which every member of f owns one object and no other is alive.
HeapOf(f) == [k \in Members |-> IF k \in f THEN 1 ELSE 0]

\* MembersOwned determines the heap.
LEMMA OwnedHeap ==
  ASSUME heap \in [Members -> Nat]
  PROVE  MembersOwned <=> heap = HeapOf(field)
BY DEF MembersOwned, HeapOf

\* HeapOf gives each member a number of objects.
LEMMA HeapType == ASSUME NEW f PROVE HeapOf(f) \in [Members -> Nat]
BY DEF HeapOf

\* Members that were NULL own what is allocated for them,
LEMMA AllocatedOwned ==
  ASSUME NEW f \in SUBSET Members, NEW got \in SUBSET Members, f \cap got = {}
  PROVE  Allocated(HeapOf(f), got) = HeapOf(f \cup got)
BY DEF Allocated, HeapOf

\* and members that are freed own nothing any more.
LEMMA FreedOwned ==
  ASSUME NEW f \in SUBSET Members, NEW gone \in SUBSET f
  PROVE  Freed(HeapOf(f), gone) = HeapOf(f \ gone)
BY DEF Freed, HeapOf

-----------------------------------------------------------------------------

\* Init establishes the invariant.
LEMMA InitDecoder == Init => DecoderInv
<1> SUFFICES ASSUME Init PROVE DecoderInv
  OBVIOUS
<1>1. TypeOK
  BY FFAssumption, NineSteps DEF Init, TypeOK, Members
<1>2. MembersOwned
  BY DEF Init, MembersOwned
<1>3. StepsTaken
  BY AcquiredStepwise DEF Init, StepsTaken
<1>4. ReadyToRead /\ IndexSettled /\ Attempts
  BY DEF Init, ReadyToRead, IndexSettled, Attempts, Reading
<1> QED
  BY <1>1, <1>2, <1>3, <1>4 DEF DecoderInv

\* Every step keeps the members and the heap in agreement and both of their type.
LEMMA OwnershipStep ==
  ASSUME DecoderInv, [Next]_vars
  PROVE  field' \subseteq Members /\ heap' = HeapOf(field')
<1> USE DEF DecoderInv, TypeOK
<1>1. heap = HeapOf(field)
  BY OwnedHeap
<1>2. CASE OpenInput
  <2>1. field \ {"avdic"} = {} /\ "avdic" \in field
    BY <1>2, AcquiredStepwise DEF OpenInput, StepsTaken
  <2>2. field = {"avdic"}
    BY <2>1
  <2>3. PICK used \in SUBSET {"avdic"} :
          /\ field' = (field \cup {"ifmt_ctx"}) \ used
          /\ heap' = Freed(Allocated(heap, {"ifmt_ctx"}), used)
    BY <1>2 DEF OpenInput
  <2>4. Allocated(heap, {"ifmt_ctx"}) = HeapOf(field \cup {"ifmt_ctx"})
    BY <1>1, <2>2, AllocatedOwned DEF Members
  <2>5. field \cup {"ifmt_ctx"} \in SUBSET Members
    BY <2>2 DEF Members
  <2> QED
    BY <2>2, <2>3, <2>4, <2>5, FreedOwned
<1>3. CASE Acquire
  <2>1. step \in 1 .. 9
    BY NineSteps
  <2>2. /\ field \ {"avdic"} = AcquiredBefore(step)
        /\ field' = field \cup Acquires(Steps[step])
        /\ heap' = Allocated(heap, Acquires(Steps[step]))
    BY <1>3 DEF Acquire, StepsTaken
  <2>3. /\ Acquires(Steps[step]) \in SUBSET Members
        /\ field \cap Acquires(Steps[step]) = {}
    BY <2>1, <2>2, AcquiredStepwise
  <2> QED
    BY <1>1, <2>2, <2>3, AllocatedOwned
<1>4. CASE InitFails
  <2>1. PICK got \in IF step = Len(Steps) THEN {{}, {"rawframe"}, {"bgrframe"}}
                     ELSE {{}} :
          Release(field \cup got, Allocated(heap, got))
    BY <1>4 DEF InitFails
  <2>2. got \in SUBSET Members /\ field \cap got = {}
    <3>1. CASE got = {}
      BY <3>1
    <3>2. CASE got # {}
      <4>1. step = 9 /\ got \in {{"rawframe"}, {"bgrframe"}}
        BY <2>1, <3>2, NineSteps
      <4>2. got \subseteq Acquires(Steps[step])
        BY <4>1, AcquiresOf
      <4>3. field \ {"avdic"} = AcquiredBefore(step)
        BY <1>4 DEF InitFails, StepsTaken
      <4> QED
        BY <4>1, <4>2, <4>3, AcquiredStepwise
    <3> QED
      BY <3>1, <3>2
  <2>3. Allocated(heap, got) = HeapOf(field \cup got)
    BY <1>1, <2>2, AllocatedOwned
  <2>4. field \cup got \in SUBSET Members
    BY <2>2
  <2> QED
    BY <2>1, <2>3, <2>4, FreedOwned DEF Release
<1>5. CASE Reconnect
  <2>1. Freed(heap, field) = HeapOf({})
    BY <1>1, FreedOwned
  <2>2. Allocated(HeapOf({}), {"avdic"} \ {}) = HeapOf({"avdic"})
    BY AllocatedOwned DEF Members
  <2> QED
    BY <1>5, <2>1, <2>2 DEF Reconnect, BeginInit, Members
<1>6. CASE Delete
  <2>1. Freed(heap, field) = HeapOf({})
    BY <1>1, FreedOwned
  <2> QED
    BY <1>6, <2>1 DEF Delete, Release
<1>7. CASE FindStreamInfo
  BY <1>1, <1>7 DEF FindStreamInfo
<1>8. CASE \/ ReadFails \/ ReadPacket \/ SendFails \/ SendPacket \/ ReceiveFrame
           \/ EventMessage \/ NoFrame \/ Unref
  BY <1>1, <1>8 DEF ReadFails, ReadPacket, SendFails, SendPacket, ReceiveFrame,
                    EventMessage, NoFrame, Unref
<1>9. CASE UNCHANGED vars
  BY <1>1, <1>9 DEF vars
<1> QED
  BY <1>2, <1>3, <1>4, <1>5, <1>6, <1>7, <1>8, <1>9 DEF Next, Open, Run

\* Every step keeps the types.
LEMMA DecoderTypeStep ==
  ASSUME DecoderInv, [Next]_vars
  PROVE  TypeOK'
<1> USE FFAssumption, NineSteps DEF DecoderInv, TypeOK
<1>1. field' \subseteq Members /\ heap' \in [Members -> Nat]
  BY OwnershipStep, HeapType
<1>2. CASE OpenInput
  BY <1>1, <1>2 DEF OpenInput
<1>3. CASE FindStreamInfo
  <2>1. streams' \in Seq({"audio", "video"})
    BY <1>3 DEF FindStreamInfo
  <2>2. video_index' \in Int
    BY <1>3, <2>1, FirstVideoFound DEF FindStreamInfo
  <2> QED
    BY <1>1, <1>3, <2>2 DEF FindStreamInfo
<1>4. CASE Acquire
  BY <1>1, <1>4 DEF Acquire
<1>5. CASE InitFails
  <2>1. fails' \in 0 .. rccount
    BY <1>5 DEF InitFails, AfterFailure, Attempts
  <2>2. ri' \in -1 .. rccount
    BY <1>5 DEF InitFails, AfterFailure, Attempts
  <2> QED
    BY <1>1, <1>5, <2>1, <2>2 DEF InitFails, AfterFailure
<1>6. CASE Reconnect
  BY <1>1, <1>6 DEF Reconnect, BeginInit
<1>7. CASE \/ ReadFails \/ ReadPacket \/ SendFails \/ SendPacket \/ ReceiveFrame
           \/ EventMessage \/ NoFrame \/ Unref \/ Delete
  BY <1>1, <1>7 DEF ReadFails, ReadPacket, SendFails, SendPacket, ReceiveFrame,
                    EventMessage, NoFrame, Unref, Delete
<1>8. CASE UNCHANGED vars
  BY <1>1, <1>8 DEF vars
<1> QED
  BY <1>2, <1>3, <1>4, <1>5, <1>6, <1>7, <1>8 DEF Next, Open, Run

\* init() adds what its steps acquire, and packets are read with all of it.
LEMMA AcquiringStep ==
  ASSUME DecoderInv, [Next]_vars
  PROVE  StepsTaken' /\ ReadyToRead'
<1> USE NineSteps DEF DecoderInv, StepsTaken, ReadyToRead, Reading
<1>1. CASE OpenInput
  <2>1. field \ {"avdic"} = {}
    BY <1>1, AcquiredStepwise DEF OpenInput
  <2>2. field' \ {"avdic"} = {"ifmt_ctx"}
    BY <1>1, <2>1 DEF OpenInput
  <2>3. AcquiredBefore(2) = {"ifmt_ctx"}
    <3>1. AcquiredBefore(1 + 1) = AcquiredBefore(1) \cup Acquires(Steps[1])
      BY AcquiredStepwise
    <3> QED
      BY <3>1, AcquiredStepwise, AcquiresOf
  <2> QED
    BY <1>1, <2>2, <2>3 DEF OpenInput
<1>2. CASE FindStreamInfo
  <2>1. AcquiredBefore(2 + 1) = AcquiredBefore(2) \cup Acquires(Steps[2])
    BY AcquiredStepwise
  <2>2. AcquiredBefore(3) = AcquiredBefore(2)
    BY <2>1, AcquiresOf
  <2> QED
    BY <1>2, <2>2 DEF FindStreamInfo
<1>3. CASE Acquire
  <2>1. step \in 1 .. 9
    BY DEF TypeOK
  <2>2. field' \ {"avdic"} = AcquiredBefore(step + 1)
    BY <1>3, <2>1, AcquiredStepwise DEF Acquire
  <2>3. CASE step = 9
    BY <1>3, <2>2, <2>3, AcquiredStepwise DEF Acquire
  <2>4. CASE step # 9
    BY <1>3, <2>1, <2>2, <2>4 DEF Acquire
  <2> QED
    BY <2>3, <2>4
<1>4. CASE InitFails
  BY <1>4 DEF InitFails, AfterFailure
<1>5. CASE Reconnect
  BY <1>5, AcquiredStepwise DEF Reconnect, BeginInit
<1>6. CASE \/ ReadFails \/ ReadPacket \/ SendFails \/ SendPacket \/ ReceiveFrame
           \/ EventMessage \/ NoFrame \/ Unref \/ Delete
  BY <1>6 DEF ReadFails, ReadPacket, SendFails, SendPacket, ReceiveFrame,
              EventMessage, NoFrame, Unref, Delete
<1>7. CASE UNCHANGED vars
  BY <1>7 DEF vars
<1> QED
  BY <1>1, <1>2, <1>3, <1>4, <1>5, <1>6, <1>7 DEF Next, Open, Run

\* The index is checked against the streams it is used with.
LEMMA IndexStep ==
  ASSUME DecoderInv, [Next]_vars
  PROVE  IndexSettled'
<1> USE DEF DecoderInv, IndexSettled, Reading
<1>1. CASE FindStreamInfo
  <2>1. streams' \in Seq({"audio", "video"})
    BY <1>1, FFAssumption DEF FindStreamInfo
  <2>2. pc' = "init" => video_index' + 1 \in DOMAIN streams'
    BY <1>1 DEF FindStreamInfo
  <2>3. ASSUME Videos(streams') # {}
        PROVE  streams'[video_index' + 1] = "video"
    <3>1. FirstVideo(streams') \in Videos(streams') /\ FirstVideo(streams') \in Nat
      BY <2>1, <2>3, FirstVideoFound
    <3>2. video_index' + 1 = FirstVideo(streams')
      BY <1>1, <2>3, <3>1 DEF FindStreamInfo
    <3> QED
      BY <3>1, <3>2 DEF Videos
  <2> QED
    BY <1>1, <2>2, <2>3 DEF FindStreamInfo
<1>2. CASE OpenInput
  BY <1>2 DEF OpenInput
<1>3. CASE Acquire
  BY <1>3 DEF Acquire
<1>4. CASE InitFails
  BY <1>4 DEF InitFails, AfterFailure
<1>5. CASE Reconnect
  BY <1>5 DEF Reconnect, BeginInit
<1>6. CASE \/ ReadFails \/ ReadPacket \/ SendFails \/ SendPacket \/ ReceiveFrame
           \/ EventMessage \/ NoFrame \/ Unref \/ Delete
  BY <1>6 DEF ReadFails, ReadPacket, SendFails, SendPacket, ReceiveFrame,
              EventMessage, NoFrame, Unref, Delete
<1>7. CASE UNCHANGED vars
  BY <1>7 DEF vars
<1> QED
  BY <1>1, <1>2, <1>3, <1>4, <1>5, <1>6, <1>7 DEF Next, Open, Run

\* ri counts the attempts since the connection was lost.
LEMMA AttemptsStep ==
  ASSUME DecoderInv, [Next]_vars
  PROVE  Attempts'
<1> USE FFAssumption DEF DecoderInv, Attempts, Reading
<1>1. CASE OpenInput \/ FindStreamInfo
  BY <1>1 DEF OpenInput, FindStreamInfo
<1>2. CASE Acquire
  BY <1>2 DEF Acquire
<1>3. CASE InitFails
  BY <1>3 DEF InitFails, AfterFailure, TypeOK
<1>4. CASE Reconnect
  BY <1>4 DEF Reconnect, BeginInit
<1>5. CASE \/ ReadFails \/ ReadPacket \/ SendFails \/ SendPacket \/ ReceiveFrame
           \/ EventMessage \/ NoFrame \/ Unref \/ Delete
  BY <1>5 DEF ReadFails, ReadPacket, SendFails, SendPacket, ReceiveFrame,
              EventMessage, NoFrame, Unref, Delete
<1>6. CASE UNCHANGED vars
  BY <1>6 DEF vars
<1> QED
  BY <1>1, <1>2, <1>3, <1>4, <1>5, <1>6 DEF Next, Open, Run

-----------------------------------------------------------------------------

\* DecoderInv holds in every reachable state.
THEOREM DecoderInvariant == Spec => []DecoderInv
<1>1. DecoderInv /\ [Next]_vars => DecoderInv'
  <2> SUFFICES ASSUME DecoderInv, [Next]_vars
               PROVE  DecoderInv'
    OBVIOUS
  <2>1. field' \subseteq Members /\ heap' = HeapOf(field')
    BY OwnershipStep
  <2>2. MembersOwned'
    BY <2>1 DEF MembersOwned, HeapOf
  <2> QED
    BY <2>2, DecoderTypeStep, AcquiringStep, IndexStep, AttemptsStep DEF DecoderInv
<1> QED
  BY <1>1, InitDecoder, PTL DEF Spec

\* Every variable keeps to its declared values; neither ri nor the count of the
\* failures outgrows rccount.
THEOREM DecoderTypeCorrect == Spec => []TypeOK
BY DecoderInvariant, PTL DEF DecoderInv

\* Whichever steps of init() fail and however often the connection breaks, every
\* live object is owned by a member and every member that is set owns one.
THEOREM NothingLeaks == Spec => []MembersOwned
BY DecoderInvariant, PTL DEF DecoderInv

\* Packets are read and pictures decoded only when init() has gone through.
THEOREM ReadsWhenReady == Spec => []ReadyToRead
BY DecoderInvariant, PTL DEF DecoderInv

\* The index a packet is compared with is one of the present connection's.
THEOREM IndexIsCurrent == Spec => []VideoIndexCurrent
<1>1. DecoderInv => VideoIndexCurrent
  BY DEF DecoderInv, IndexSettled, VideoIndexCurrent
<1> QED
  BY <1>1, DecoderInvariant, PTL

\* The thread ends after exactly rccount failures in a row.
THEOREM GivesUpLate == Spec => []GivesUpAfterAllAttempts
<1>1. DecoderInv => GivesUpAfterAllAttempts
  BY DEF DecoderInv, Attempts, GivesUpAfterAllAttempts
<1> QED
  BY <1>1, DecoderInvariant, PTL
=============================================================================
