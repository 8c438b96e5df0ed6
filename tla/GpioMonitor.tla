----------------------------- MODULE GpioMonitor -----------------------------
(***************************************************************************)
(* The loop of startServerAndMonitorPins() in src/PiCam/main.cpp: every    *)
(* 10 ms it reads the door's GPIO file, counts the samples up and down     *)
(* between 0 and a threshold, and pushes doorSwitch() to the control's     *)
(* ActiveObject when the count leaves that range.                          *)
(***************************************************************************)
EXTENDS Naturals

CONSTANT Threshold                \* 10 in main.cpp

ASSUME ThresholdAssumption == Threshold \in Nat

VARIABLES
    door,                         \* what the GPIO file holds: TRUE is open
    streamFailed,                 \* wGpio's failbit
    wGpioDebounceCounter,
    wGpioDebouncedValue,
    at,                           \* where the main thread is in the loop
    reported,                     \* the last value pushed, FALSE before any
    evidence,                     \* history, see below
    streak                        \* history, see below

code == <<streamFailed, wGpioDebounceCounter, wGpioDebouncedValue, at, reported>>
vars == <<door, code, evidence, streak>>

\* "sample" ends in reading a value, "push" waits for the queue's mutex.
Steps == {"sample", "push"}

\* The file may not open, and the stream then fails from the start.
Init ==
    /\ door \in BOOLEAN
    /\ streamFailed \in BOOLEAN
    /\ wGpioDebounceCounter = 0
    /\ wGpioDebouncedValue = FALSE
    /\ at = "sample"
    /\ reported = FALSE
    /\ evidence = 0
    /\ streak = 0

\* The door moves, or its switch bounces.
DoorMoves ==
    /\ door' = ~door
    /\ UNCHANGED <<code, evidence, streak>>

\* Mutant: wGpioValue is not initialised, and a read that fails leaves it so.
ReadsUninitialised(failed, value) ==
    /\ streamFailed => failed
    /\ failed \/ value = door

\* What an iteration reads.  A stream that has failed once reads false for
\* ever: seekg() and >> leave failbit set and nothing calls clear().
Reads(failed, value) ==
    /\ streamFailed => failed
    /\ value = (door /\ ~failed)

------------------------------------------------------------------------------
\* The history the properties need, for a sample that reads value: how many
\* samples since the last edge differed from the debounced value, counted up to
\* Threshold + 1, and how many of those came last, in a row.
Witnessed(value) ==
    IF value = wGpioDebouncedValue
    THEN streak' = 0 /\ evidence' = evidence
    ELSE /\ streak' = streak + 1
         /\ evidence' = IF evidence > Threshold THEN evidence ELSE evidence + 1

\* The history starts anew at an edge.
Forgotten == streak' = 0 /\ evidence' = 0

\* Mutant: the counter is set to the other end of its range.
EdgeToOtherEnd(value) ==
    /\ wGpioDebouncedValue' = value
    /\ wGpioDebounceCounter' = IF value THEN 0 ELSE Threshold
    /\ at' = "push"
    /\ Forgotten

\* Mutant: the flag is set and nothing is pushed.
EdgeWithoutPush(value) ==
    /\ wGpioDebouncedValue' = value
    /\ wGpioDebounceCounter' = IF value THEN Threshold ELSE 0
    /\ at' = "sample"
    /\ Forgotten

\* The count leaves its range towards value, and the debounced value differs:
\* the lambda that calls doorSwitch(value) is about to be pushed.
Edge(value) ==
    /\ wGpioDebouncedValue' = value
    /\ wGpioDebounceCounter' = IF value THEN Threshold ELSE 0
    /\ at' = "push"
    /\ Forgotten

\* Mutant: the count is not put back to the end of its range.
SaturateNot(value) ==
    /\ wGpioDebounceCounter' = IF value THEN wGpioDebounceCounter + 1 ELSE 0
    /\ Witnessed(value)
    /\ UNCHANGED <<wGpioDebouncedValue, at>>

\* It leaves its range with the debounced value already there.
Saturate(value) ==
    /\ wGpioDebounceCounter' = IF value THEN Threshold ELSE 0
    /\ Witnessed(value)
    /\ UNCHANGED <<wGpioDebouncedValue, at>>

\* It stays in its range.
Count(value) ==
    /\ wGpioDebounceCounter' =
          IF value THEN wGpioDebounceCounter + 1 ELSE wGpioDebounceCounter - 1
    /\ Witnessed(value)
    /\ UNCHANGED <<wGpioDebouncedValue, at>>

\* Mutant: the count is compared with >= and <=.
LeavesRangeEarly(value) ==
    IF value THEN wGpioDebounceCounter + 1 >= Threshold
             ELSE wGpioDebounceCounter <= 1

\* The count, once the sample is added, is above Threshold or below zero.
LeavesRange(value) ==
    IF value THEN wGpioDebounceCounter + 1 > Threshold
             ELSE wGpioDebounceCounter = 0

\* An iteration that reads value and ends with the stream failed or not.
Sample(failed, value) ==
    /\ at = "sample"
    /\ Reads(failed, value)
    /\ streamFailed' = failed
    /\ \/ LeavesRange(value) /\ value # wGpioDebouncedValue /\ Edge(value)
       \/ LeavesRange(value) /\ value = wGpioDebouncedValue /\ Saturate(value)
       \/ ~LeavesRange(value) /\ Count(value)
    /\ UNCHANGED <<door, reported>>

\* dataPush() returns.  Until then the loop takes no sample.
Push ==
    /\ at = "push"
    /\ reported' = wGpioDebouncedValue
    /\ at' = "sample"
    /\ UNCHANGED <<door, streamFailed, wGpioDebounceCounter, wGpioDebouncedValue,
                   evidence, streak>>

Loop == Push \/ \E failed, value \in BOOLEAN : Sample(failed, value)

Next == DoorMoves \/ Loop

\* The loop's next step with the stream as it is.  Fairness is about these steps
\* alone: a sample that changes nothing is a stutter, and fairness of the whole
\* loop would then demand that the read fails.
Continues == Push \/ \E value \in BOOLEAN : Sample(streamFailed, value)

\* The main thread keeps looping, and the queue accepts its push in the end.
Spec == Init /\ [][Next]_vars /\ WF_vars(Continues)

------------------------------------------------------------------------------
\* Properties.

\* Types and ranges, and the debounced value pushed unless a push is under way.
TypeOK ==
    /\ door \in BOOLEAN
    /\ streamFailed \in BOOLEAN
    /\ wGpioDebounceCounter \in 0 .. Threshold
    /\ wGpioDebouncedValue \in BOOLEAN
    /\ at \in Steps
    /\ reported = IF at = "push" THEN ~wGpioDebouncedValue ELSE wGpioDebouncedValue
    /\ evidence \in 0 .. Threshold + 1
    /\ streak \in Nat

\* No flicker: the debounced value changes only on more than Threshold samples
\* of the new level taken since it last changed, the one being counted included.
\* It is about where the count is left at each end of its range, for both edges.
EdgeNeedsEvidence ==
    [][(wGpioDebouncedValue' # wGpioDebouncedValue) => evidence >= Threshold]_vars

\* No deafness: however the count got where it is, Threshold + 1 samples in a
\* row of the other level are never ignored.
SteadyLevelIsSeen == streak <= Threshold

\* A door that stays open, or stays closed, is reported as such in the end, as
\* long as its file can be read.
SteadyDoorIsReported ==
    /\ <>[](door /\ ~streamFailed) => <>[]reported
    /\ <>[](~door) => <>[](~reported)

\* A file that can no longer be read never opens the door: however near the count
\* was to its end, no light goes on and nobody is alerted on the strength of reads
\* that fail.
FailureNeverOpens == [][streamFailed /\ ~reported => ~reported']_vars
==============================================================================
