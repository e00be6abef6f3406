---------------------------- MODULE MCIpcSession ----------------------------
(* Task counts per definition, for TLC.  Messages of two tasks need eight.  *)
EXTENDS IpcSession

ThreeTasks == <<3>>
BatchDefinitions == <<8, 1>>
ShrinkingDefinitions == <<2, 1>>
=============================================================================
