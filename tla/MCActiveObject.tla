---------------------------- MODULE MCActiveObject ----------------------------
(***************************************************************************)
(* PiCam's instance of ActiveObject: the main thread and the io_service    *)
(* thread push, one worker runs, one ordinary callable and one whose call  *)
(* ends up pushing to its own queue.                                       *)
(***************************************************************************)
EXTENDS ActiveObject

CONSTANTS main, io, controlThread, none, plain, selfPushing

MCCallers == {main, io}
MCFunctions == {plain, selfPushing}
MCSelfPushing == {selfPushing}
MCOnlyPlain == {plain}
MCNone == {}
==============================================================================
