---------------------------- MODULE MCDataManager ---------------------------
(* Two callers, the preset ringtone and one or two files of the callers. *)
EXTENDS DataManager

CONSTANTS c1, c2, preset, tone1, tone2
=============================================================================
