------------------------ MODULE CameraAndLightControl ------------------------
(***************************************************************************)
(* The light of src/PiCam/CameraAndLightControl.h: two independent demands *)
(* (the door is open, the light is overridden) share one output pin, and   *)
(* lightOn() and lightOff() write the pin only when mLight changes.        *)
(*                                                                         *)
(* Each operation runs whole, on the thread of the ActiveObject that owns  *)
(* the control.  The notification of the observers that ends it, and the   *)
(* alert Notifier::perform() sends when the door opens, change nothing     *)
(* here; module RemoteControl adds the notification.                       *)
(***************************************************************************)

VARIABLES
    mDoorSwitch,
    mLight,
    mLightOverride,
    coverageAlwaysOn,             \* the parameter of that name in the database
    gpioLight                     \* the level of the light's pin

vars == <<mDoorSwitch, mLight, mLightOverride, coverageAlwaysOn, gpioLight>>

\* The constructor writes nothing to the pin: Scripts/gpio.sh has switched it
\* off.  The database keeps the flag an earlier run left there.
Init ==
    /\ mDoorSwitch = FALSE
    /\ mLight = FALSE
    /\ mLightOverride = FALSE
    /\ coverageAlwaysOn \in BOOLEAN
    /\ gpioLight = FALSE

\* Mutant: lightOn() without flush().
LightOnUnflushed ==
    /\ mLight' = TRUE
    /\ gpioLight' = gpioLight

LightOn ==
    /\ mLight' = TRUE
    /\ gpioLight' = IF mLight THEN gpioLight ELSE TRUE

LightOff ==
    /\ mLight' = FALSE
    /\ gpioLight' = IF mLight THEN FALSE ELSE gpioLight

\* Mutant: closing the door switches the light off whatever the override says.
DoorSwitchIgnoringOverride(iValue) ==
    /\ mDoorSwitch' = iValue
    /\ IF iValue THEN LightOn ELSE LightOff
    /\ UNCHANGED <<mLightOverride, coverageAlwaysOn>>

DoorSwitch(iValue) ==
    /\ mDoorSwitch' = iValue
    /\ \/ iValue /\ LightOn
       \/ ~iValue /\ ~mLightOverride /\ LightOff
       \/ ~iValue /\ mLightOverride /\ UNCHANGED <<mLight, gpioLight>>
    /\ UNCHANGED <<mLightOverride, coverageAlwaysOn>>

LightOverride(iOverride) ==
    /\ mLightOverride' = iOverride
    /\ \/ iOverride /\ LightOn
       \/ ~iOverride /\ ~mDoorSwitch /\ LightOff
       \/ ~iOverride /\ mDoorSwitch /\ UNCHANGED <<mLight, gpioLight>>
    /\ UNCHANGED <<mDoorSwitch, coverageAlwaysOn>>

CoverageAlwaysOn(iValue) ==
    /\ coverageAlwaysOn' = iValue
    /\ UNCHANGED <<mDoorSwitch, mLight, mLightOverride, gpioLight>>

TypeOK ==
    /\ mDoorSwitch \in BOOLEAN
    /\ mLight \in BOOLEAN
    /\ mLightOverride \in BOOLEAN
    /\ coverageAlwaysOn \in BOOLEAN
    /\ gpioLight \in BOOLEAN

\* The pin is on exactly when one of the two demands stands, and mLight, which
\* decides whether the pin is written at all, never disagrees with it: whatever
\* the order of the operations, neither demand cancels the other.
LightRule ==
    /\ mLight = (mDoorSwitch \/ mLightOverride)
    /\ gpioLight = mLight
==============================================================================
