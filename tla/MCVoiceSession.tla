---------------------------- MODULE MCVoiceSession ----------------------------
(* Small instances of VoiceSession: one or two sessions and one port.       *)
EXTENDS VoiceSession, TLC

CONSTANTS s1, s2, p1

OnePort == <<p1>>

\* The sessions are alike.
SessionSymmetry == Permutations(Sessions)
=============================================================================
