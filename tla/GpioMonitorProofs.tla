--------------------------- MODULE GpioMonitorProofs ---------------------------
(***************************************************************************)
(* The debounce loop for every threshold.  The distance of the count from  *)
(* the end of its range that the debounced value rests at lies between the *)
(* samples in a row and the samples in all that contradict that value.     *)
(***************************************************************************)
EXTENDS GpioMonitor, TLAPS

\* How far the count has gone from the end it rests at.
Distance ==
    IF wGpioDebouncedValue THEN Threshold - wGpioDebounceCounter
                           ELSE wGpioDebounceCounter

DistanceInv == streak <= Distance /\ Distance <= evidence

IInv == TypeOK /\ DistanceInv

\* The initial states satisfy the invariant.
LEMMA InitInv == Init => IInv
<1> SUFFICES ASSUME Init PROVE IInv
    OBVIOUS
<1> USE DEF Init
<1>1. TypeOK
  <2>1. /\ wGpioDebounceCounter \in 0 .. Threshold
        /\ evidence \in 0 .. Threshold + 1
        /\ streak \in Nat
    BY ThresholdAssumption
  <2>2. /\ wGpioDebouncedValue \in BOOLEAN
        /\ reported = IF at = "push" THEN ~wGpioDebouncedValue
                                     ELSE wGpioDebouncedValue
    BY Zenon
  <2>3. at \in Steps
    BY DEF Steps
  <2> QED
    BY <2>1, <2>2, <2>3, Zenon DEF TypeOK
<1>2. DistanceInv
    BY DEF DistanceInv, Distance
<1> QED
    BY <1>1, <1>2 DEF IInv

\* A sample moves the count by one, and the histories with it.
LEMMA SampleStep ==
    ASSUME IInv, NEW failed \in BOOLEAN, NEW value \in BOOLEAN,
           Sample(failed, value)
    PROVE  IInv'
<1> USE ThresholdAssumption DEF IInv, Sample
<1>1. /\ wGpioDebounceCounter \in 0 .. Threshold
      /\ evidence \in 0 .. Threshold + 1
      /\ streak \in Nat
      /\ wGpioDebouncedValue \in BOOLEAN
    BY DEF TypeOK
<1>2. CASE LeavesRange(value) /\ value # wGpioDebouncedValue /\ Edge(value)
  <2>1. TypeOK'
    BY <1>2 DEF TypeOK, Steps, Edge, Forgotten
  <2>2. DistanceInv'
    BY <1>1, <1>2 DEF DistanceInv, Distance, Edge, Forgotten
  <2> QED
    BY <2>1, <2>2
<1>3. CASE LeavesRange(value) /\ value = wGpioDebouncedValue /\ Saturate(value)
  <2>1. streak' = 0 /\ evidence' = evidence
    BY <1>3 DEF Saturate, Witnessed
  <2>2. TypeOK'
    BY <1>1, <1>3, <2>1 DEF TypeOK, Steps, Saturate
  <2>3. DistanceInv'
    BY <1>1, <1>3, <2>1 DEF DistanceInv, Distance, Saturate
  <2> QED
    BY <2>2, <2>3
<1>4. CASE ~LeavesRange(value) /\ Count(value)
  <2> USE <1>4
  <2>0. /\ UNCHANGED <<door, wGpioDebouncedValue, at, reported>>
        /\ streamFailed' \in BOOLEAN
    BY DEF Count
  <2>1. CASE value
    <3>1. /\ wGpioDebounceCounter' = wGpioDebounceCounter + 1
          /\ wGpioDebounceCounter' \in 0 .. Threshold
      BY <1>1, <1>4, <2>1 DEF LeavesRange, Count
    <3>2. CASE wGpioDebouncedValue
      <4>1. /\ streak' = 0 /\ evidence' = evidence
        BY <2>1, <3>2 DEF Count, Witnessed, TypeOK
      <4>2. DistanceInv'
        BY <1>1, <2>0, <2>1, <3>1, <3>2, <4>1 DEF DistanceInv, Distance
      <4>3. TypeOK'
        BY <1>1, <2>0, <3>1, <4>1 DEF TypeOK
      <4> QED
        BY <4>2, <4>3
    <3>3. CASE ~wGpioDebouncedValue
      <4>1. /\ streak' = streak + 1
            /\ evidence' = IF evidence > Threshold THEN evidence ELSE evidence + 1
        BY <2>1, <3>3 DEF Count, Witnessed, TypeOK
      <4>2. DistanceInv'
        BY <1>1, <2>0, <2>1, <3>1, <3>3, <4>1 DEF DistanceInv, Distance
      <4>3. TypeOK'
        BY <1>1, <2>0, <3>1, <4>1 DEF TypeOK
      <4> QED
        BY <4>2, <4>3
    <3> QED
      BY <3>2, <3>3
  <2>2. CASE ~value
    <3>1. /\ wGpioDebounceCounter' = wGpioDebounceCounter - 1
          /\ wGpioDebounceCounter' \in 0 .. Threshold
      BY <1>1, <1>4, <2>2 DEF LeavesRange, Count
    <3>2. CASE wGpioDebouncedValue
      <4>1. /\ streak' = streak + 1
            /\ evidence' = IF evidence > Threshold THEN evidence ELSE evidence + 1
        BY <2>2, <3>2 DEF Count, Witnessed, TypeOK
      <4>2. DistanceInv'
        BY <1>1, <2>0, <2>2, <3>1, <3>2, <4>1 DEF DistanceInv, Distance
      <4>3. TypeOK'
        BY <1>1, <2>0, <3>1, <4>1 DEF TypeOK
      <4> QED
        BY <4>2, <4>3
    <3>3. CASE ~wGpioDebouncedValue
      <4>1. /\ streak' = 0 /\ evidence' = evidence
        BY <2>2, <3>3 DEF Count, Witnessed, TypeOK
      <4>2. DistanceInv'
        BY <1>1, <2>0, <2>2, <3>1, <3>3, <4>1 DEF DistanceInv, Distance
      <4>3. TypeOK'
        BY <1>1, <2>0, <3>1, <4>1 DEF TypeOK
      <4> QED
        BY <4>2, <4>3
    <3> QED
      BY <3>2, <3>3
  <2> QED
    BY <2>1, <2>2
<1> QED
    BY <1>2, <1>3, <1>4

\* The invariant is inductive.
LEMMA StepInv == IInv /\ [Next]_vars => IInv'
<1> SUFFICES ASSUME IInv, [Next]_vars PROVE IInv'
    OBVIOUS
<1>1. CASE DoorMoves
    BY <1>1 DEF DoorMoves, code, IInv, TypeOK, DistanceInv, Distance
<1>2. CASE Push
    BY <1>2 DEF Push, IInv, TypeOK, DistanceInv, Distance, Steps
<1>3. ASSUME NEW failed \in BOOLEAN, NEW value \in BOOLEAN, Sample(failed, value)
      PROVE  IInv'
    BY <1>3, SampleStep
<1>4. CASE UNCHANGED vars
    BY <1>4 DEF vars, code, IInv, TypeOK, DistanceInv, Distance
<1> QED
    BY <1>1, <1>2, <1>3, <1>4 DEF Next, Loop

\* Every reachable state satisfies the invariant.
THEOREM Invariance == Spec => []IInv
BY InitInv, StepInv, PTL DEF Spec

\* The count stays in its range, and what was pushed last is the debounced value.
THEOREM TypeCorrect == Spec => []TypeOK
<1>1. IInv => TypeOK
    BY DEF IInv
<1> QED
    BY <1>1, Invariance, PTL

\* Threshold + 1 samples in a row of the other level always make an edge.
THEOREM NoDeafness == Spec => []SteadyLevelIsSeen
<1>1. IInv => SteadyLevelIsSeen
    BY ThresholdAssumption
       DEF IInv, TypeOK, DistanceInv, Distance, SteadyLevelIsSeen
<1> QED
    BY <1>1, Invariance, PTL

\* Fewer than Threshold + 1 samples of the other level never make one.
THEOREM NoFlicker == Spec => EdgeNeedsEvidence
<1>1. IInv /\ [Next]_vars
        => [(wGpioDebouncedValue' # wGpioDebouncedValue)
              => evidence >= Threshold]_vars
  <2> SUFFICES ASSUME IInv, Next, wGpioDebouncedValue' # wGpioDebouncedValue
               PROVE  evidence >= Threshold
    OBVIOUS
  <2>1. PICK failed \in BOOLEAN, value \in BOOLEAN : Sample(failed, value)
    BY DEF Next, Loop, DoorMoves, Push, code
  <2>2. LeavesRange(value) /\ value # wGpioDebouncedValue
    BY <2>1 DEF Sample, Saturate, Count
  <2>3. CASE value
    <3>1. ~wGpioDebouncedValue
      BY <2>2, <2>3 DEF IInv, TypeOK
    <3> QED
      BY <2>2, <2>3, <3>1, ThresholdAssumption
         DEF LeavesRange, IInv, TypeOK, DistanceInv, Distance
  <2>4. CASE ~value
    <3>1. wGpioDebouncedValue
      BY <2>2, <2>4 DEF IInv, TypeOK
    <3> QED
      BY <2>2, <2>4, <3>1, ThresholdAssumption
         DEF LeavesRange, IInv, TypeOK, DistanceInv, Distance
  <2> QED
    BY <2>3, <2>4
<1> QED
    BY <1>1, Invariance, PTL DEF Spec, EdgeNeedsEvidence

\* Once the stream has failed the push under way, if any, is that of a closing.
FailedInv == streamFailed /\ at = "push" => ~wGpioDebouncedValue

LEMMA FailedStep == FailedInv /\ [Next]_vars => FailedInv'
<1> SUFFICES ASSUME FailedInv, [Next]_vars PROVE FailedInv'
    OBVIOUS
<1>1. CASE DoorMoves \/ UNCHANGED vars
    BY <1>1 DEF DoorMoves, vars, code, FailedInv
<1>2. CASE Push
    BY <1>2 DEF Push, FailedInv
<1>3. ASSUME NEW failed \in BOOLEAN, NEW value \in BOOLEAN, Sample(failed, value)
      PROVE  FailedInv'
  <2>1. streamFailed' = failed /\ (failed => ~value) /\ at = "sample"
    BY <1>3, Zenon DEF Sample, Reads
  <2>2. at' = "push" => wGpioDebouncedValue' = value
    BY <1>3, <2>1 DEF Sample, Edge, Saturate, Count
  <2> QED
    BY <2>1, <2>2, Zenon DEF FailedInv
<1> QED
    BY <1>1, <1>2, <1>3 DEF Next, Loop

\* Reads that fail never report an opening, wherever they find the count.
THEOREM FailuresNeverOpen == Spec => FailureNeverOpens
<1>1. Init => FailedInv
    BY DEF Init, FailedInv
<1>2. Spec => []FailedInv
    BY <1>1, FailedStep, PTL DEF Spec
<1>3. FailedInv /\ [Next]_vars => [streamFailed /\ ~reported => ~reported']_vars
  <2> SUFFICES ASSUME FailedInv, Next, streamFailed, ~reported
               PROVE  ~reported'
    OBVIOUS
  <2>1. CASE Push
    BY <2>1, Zenon DEF Push, FailedInv
  <2>2. CASE ~Push
    <3>1. reported' = reported
      BY <2>2 DEF Next, Loop, DoorMoves, code, Sample
    <3> QED
      BY <3>1, Zenon
  <2> QED
    BY <2>1, <2>2
<1> QED
    BY <1>2, <1>3, PTL DEF Spec, FailureNeverOpens

------------------------------------------------------------------------------
\* How many steps of the loop there are until level is reported, if each sample
\* reads it: the count has to come to the end of its range and one further, and
\* the push that follows, or one that is under way, to return.
StepsTo(level) ==
    (IF wGpioDebouncedValue = level THEN 0
     ELSE 2 + (IF level THEN Threshold - wGpioDebounceCounter ELSE wGpioDebounceCounter))
    + (IF at = "push" THEN 1 ELSE 0)

\* A level is never further than this from its report, and has been reported when
\* no step is left.
InReach ==
    \A level \in BOOLEAN :
        /\ StepsTo(level) \in 0 .. Threshold + 3
        /\ StepsTo(level) = 0 => reported = level

\* A step of the loop that does not contradict level.
Heeds(level) == Push \/ \E failed \in BOOLEAN : Sample(failed, level)

\* Each of them brings level one step nearer to its report or leaves it reported,
\* and the loop heeds the door until its stream fails, and the closed door after.
EveryReadingCounts ==
    [][/\ \A level \in BOOLEAN :
             Heeds(level) =>
                 StepsTo(level)' = IF StepsTo(level) = 0 THEN 0 ELSE StepsTo(level) - 1
       /\ streamFailed => streamFailed'
       /\ Loop => Heeds(door /\ ~streamFailed')
      ]_vars

LEMMA ReachFacts == IInv => InReach
<1> SUFFICES ASSUME IInv PROVE InReach
    OBVIOUS
<1>1. /\ wGpioDebounceCounter \in 0 .. Threshold /\ wGpioDebouncedValue \in BOOLEAN
      /\ reported = IF at = "push" THEN ~wGpioDebouncedValue ELSE wGpioDebouncedValue
    BY DEF IInv, TypeOK
<1>2. StepsTo(TRUE) \in 0 .. Threshold + 3 /\ StepsTo(FALSE) \in 0 .. Threshold + 3
    BY <1>1, ThresholdAssumption DEF StepsTo
<1>3. ASSUME NEW level \in BOOLEAN, StepsTo(level) = 0
      PROVE  wGpioDebouncedValue = level /\ at # "push"
    BY <1>1, <1>3, ThresholdAssumption DEF StepsTo
<1>4. ASSUME NEW level \in BOOLEAN, StepsTo(level) = 0
      PROVE  reported = level
    BY <1>1, <1>3, <1>4, Zenon
<1> QED
    BY <1>2, <1>4 DEF InReach

LEMMA NearerStep ==
    ASSUME IInv, NEW level \in BOOLEAN, Heeds(level)
    PROVE  StepsTo(level)' = IF StepsTo(level) = 0 THEN 0 ELSE StepsTo(level) - 1
<1>1. wGpioDebounceCounter \in 0 .. Threshold /\ wGpioDebouncedValue \in BOOLEAN
    BY DEF IInv, TypeOK
<1>2. CASE Push
    BY <1>1, <1>2, ThresholdAssumption DEF Push, StepsTo
<1>3. ASSUME NEW failed \in BOOLEAN, Sample(failed, level)
      PROVE  StepsTo(level)' = IF StepsTo(level) = 0 THEN 0 ELSE StepsTo(level) - 1
  <2>1. at = "sample"
    BY <1>3 DEF Sample
  <2>2. CASE LeavesRange(level) /\ level # wGpioDebouncedValue /\ Edge(level)
    <3>1. wGpioDebouncedValue' = level /\ at' = "push"
      BY <2>2 DEF Edge
    <3>2. IF level THEN wGpioDebounceCounter = Threshold ELSE wGpioDebounceCounter = 0
      BY <1>1, <2>2, ThresholdAssumption DEF LeavesRange
    <3> QED
      BY <1>1, <2>1, <2>2, <3>1, <3>2, ThresholdAssumption DEF StepsTo
  <2>3. CASE LeavesRange(level) /\ level = wGpioDebouncedValue /\ Saturate(level)
    BY <2>1, <2>3 DEF Saturate, StepsTo
  <2>4. CASE ~LeavesRange(level) /\ Count(level)
    <3>1. /\ wGpioDebouncedValue' = wGpioDebouncedValue /\ at' = at
          /\ wGpioDebounceCounter' = IF level THEN wGpioDebounceCounter + 1
                                              ELSE wGpioDebounceCounter - 1
      BY <2>4 DEF Count
    <3> QED
      BY <1>1, <2>1, <2>4, <3>1, ThresholdAssumption DEF LeavesRange, StepsTo
  <2> QED
    BY <1>3, <2>2, <2>3, <2>4 DEF Sample
<1> QED
    BY <1>2, <1>3 DEF Heeds

\* Every level is at most Threshold + 3 steps of the loop from its report.
THEOREM LevelsAreInReach == Spec => []InReach
    BY Invariance, ReachFacts, PTL

\* Each sample that reads a level counts towards its report, and a failed stream
\* reads a closed door for ever.  With a loop that keeps looping this is why
\* SteadyDoorIsReported holds, for every threshold.
THEOREM ReadingsCount == Spec => EveryReadingCounts
<1> DEFINE Step ==
       /\ \A level \in BOOLEAN :
             Heeds(level) =>
                 StepsTo(level)' = IF StepsTo(level) = 0 THEN 0 ELSE StepsTo(level) - 1
       /\ streamFailed => streamFailed'
       /\ Loop => Heeds(door /\ ~streamFailed')
<1>1. IInv /\ [Next]_vars => [Step]_vars
  <2> SUFFICES ASSUME IInv, Next PROVE Step
    OBVIOUS
  <2>1. \A level \in BOOLEAN :
            Heeds(level) =>
                StepsTo(level)' = IF StepsTo(level) = 0 THEN 0 ELSE StepsTo(level) - 1
    BY NearerStep
  <2>2. streamFailed => streamFailed'
    <3>1. ASSUME NEW failed \in BOOLEAN, NEW value \in BOOLEAN, Sample(failed, value)
          PROVE  streamFailed => streamFailed'
      BY <3>1, Zenon DEF Sample, Reads
    <3>2. DoorMoves \/ Push => streamFailed' = streamFailed
      BY DEF DoorMoves, code, Push
    <3> QED
      BY <3>1, <3>2, Zenon DEF Next, Loop
  <2>3. Loop => Heeds(door /\ ~streamFailed')
    <3> SUFFICES ASSUME NEW failed \in BOOLEAN, NEW value \in BOOLEAN,
                        Sample(failed, value)
                 PROVE  Heeds(door /\ ~streamFailed')
      BY DEF Loop, Heeds
    <3>1. value = (door /\ ~streamFailed')
      BY DEF Sample, Reads
    <3> QED
      BY <3>1, Zenon DEF Heeds
  <2> QED
    BY <2>1, <2>2, <2>3
<1> QED
    BY <1>1, Invariance, PTL DEF Spec, EveryReadingCounts
==============================================================================
