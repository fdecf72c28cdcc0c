-------------------------- MODULE AnsweringMachine --------------------------
(***************************************************************************)
(* Answering machine detection: the detector (voice-agent/internal/amd),   *)
(* the session that feeds it and reports its verdict once                  *)
(* (session.ObserveInbound, the callback of api.handleCreateSession), and  *)
(* what the backend does with the report (handleInternalAMDResult).        *)
(*                                                                         *)
(* Time is counted in frames of 20 ms; the thresholds of amd.go are the    *)
(* constants.  A session may have two connections, whose read loops feed   *)
(* the same detector (Feeders).  heard keeps the frames the detector took  *)
(* into account, for the properties.  MaxAmdFaults bounds lost reports and *)
(* failed requests, MaxBotEdits the changes of the bot's amd_action.       *)
(***************************************************************************)
EXTENDS Naturals, Sequences, SequencesExt, FiniteSets

CONSTANTS
  Feeders, SilenceGap, DecisionWindow, MinDecision, MachineBurst, HumanBurst,
  RatioNum, RatioDen,      \* MachineVoicedRatio = RatioNum / RatioDen
  AmdActions, MaxAmdFaults, MaxBotEdits

ASSUME AmdAssumption ==
  /\ SilenceGap \in Nat \ {0} /\ HumanBurst \in Nat \ {0}
  /\ HumanBurst < MachineBurst /\ MinDecision < MachineBurst
  /\ MachineBurst < DecisionWindow
  /\ {MinDecision, MachineBurst, DecisionWindow} \subseteq Nat
  /\ RatioNum \in Nat \ {0} /\ RatioDen \in Nat \ {0}
  /\ "hangup" \in AmdActions /\ "drop_message" \in AmdActions
  /\ MaxAmdFaults \in Nat /\ MaxBotEdits \in Nat

Undecided == "undecided"

VARIABLES
  det,          \* the detector: [voiced, burst, best, silence, total, result]
  heard,        \* the frames it counted, TRUE for voiced ones
  feeder,       \* Feeders -> "idle", "checked", "fed"
  notified,     \* amdNotified
  reports,      \* reports sent to the backend, in order
  linked,       \* the call's row has the session's id
  botAction,    \* the bot's amd_action
  amdRow,       \* calls.amd_result and voicemail_dropped
  ending,       \* an EndSession request is on its way
  sessionOver,  \* the session was ended
  amdFaults, botEdits

amdVars == <<det, heard, feeder, notified, reports, linked, botAction, amdRow,
             ending, sessionOver, amdFaults, botEdits>>

Detectors == [voiced: 0..DecisionWindow, burst: 0..DecisionWindow, best: 0..DecisionWindow,
              silence: 0..DecisionWindow, total: 0..DecisionWindow,
              result: {Undecided, "human", "machine", "unknown"}]

AmdInit ==
  /\ det = [voiced |-> 0, burst |-> 0, best |-> 0, silence |-> 0, total |-> 0,
            result |-> Undecided]
  /\ heard = << >>
  /\ feeder = [f \in Feeders |-> "idle"]
  /\ notified = FALSE
  /\ reports = << >>
  /\ linked = FALSE
  /\ botAction = "hangup"
  /\ amdRow = [result |-> "", dropped |-> FALSE]
  /\ ending = FALSE /\ sessionOver = FALSE
  /\ amdFaults = 0 /\ botEdits = 0

-----------------------------------------------------------------------------
(* FeedPCM *)

(* Every silence closes the burst. *)
CountedAnyGap(d, voiced) ==
  IF voiced
    THEN [d EXCEPT !.total = @ + 1, !.voiced = @ + 1, !.burst = @ + 1, !.silence = 0]
    ELSE [d EXCEPT !.total = @ + 1, !.silence = @ + 1,
                   !.best = IF d.burst > @ THEN d.burst ELSE @, !.burst = 0]

(* A silence of SilenceGap closes the burst in progress. *)
Counted(d, voiced) ==
  LET quiet == d.silence + 1
      closes == d.burst > 0 /\ quiet >= SilenceGap
  IN  IF voiced
        THEN [d EXCEPT !.total = @ + 1, !.voiced = @ + 1, !.burst = @ + 1, !.silence = 0]
        ELSE [d EXCEPT !.total = @ + 1, !.silence = quiet,
                       !.best = IF closes /\ d.burst > @ THEN d.burst ELSE @,
                       !.burst = IF closes THEN 0 ELSE @]

Best(d) == IF d.burst > d.best THEN d.burst ELSE d.best

ForcedVerdict(d) ==
  IF d.voiced * RatioDen >= RatioNum * d.total \/ Best(d) >= MachineBurst THEN "machine"
  ELSE IF Best(d) > 0 THEN "human"     \* short bursts, or no clear pattern
  ELSE "unknown"

Verdict(d) ==
  IF d.total < MinDecision THEN Undecided
  ELSE IF d.burst >= MachineBurst THEN "machine"
  ELSE IF d.best > 0 /\ d.best <= HumanBurst /\ d.silence >= SilenceGap THEN "human"
  ELSE IF d.total >= DecisionWindow THEN ForcedVerdict(d)
  ELSE Undecided

FeedPCM(voiced) ==
  IF det.result # Undecided THEN UNCHANGED <<det, heard>>
  ELSE LET d == Counted(det, voiced)
       IN  /\ det' = [d EXCEPT !.result = Verdict(d)]
           /\ heard' = Append(heard, voiced)

-----------------------------------------------------------------------------
(* ObserveInbound, in the read loop of a connection. *)

AmdBackend == <<linked, botAction, amdRow, ending, sessionOver, botEdits>>
FeederAt(f, step) == feeder' = [feeder EXCEPT ![f] = step]

ObserveChecks(f) ==
  /\ feeder[f] = "idle" /\ ~notified /\ ~sessionOver
  /\ FeederAt(f, "checked")
  /\ UNCHANGED <<det, heard, notified, reports, amdFaults, AmdBackend>>

ObserveFeeds(f, voiced) ==
  /\ feeder[f] = "checked"
  /\ FeedPCM(voiced)
  /\ FeederAt(f, IF det'.result = Undecided THEN "idle" ELSE "fed")
  /\ UNCHANGED <<notified, reports, amdFaults, AmdBackend>>

(* The report is made by a goroutine of its own; it may not arrive. *)
NotifiesAnyway == TRUE
Notifies == ~notified

ObserveNotifies(f) ==
  /\ feeder[f] = "fed"
  /\ FeederAt(f, "idle")
  /\ IF Notifies
       THEN /\ notified' = TRUE
            /\ reports' = Append(reports, [verdict |-> det.result, state |-> "sent"])
       ELSE UNCHANGED <<notified, reports>>
  /\ UNCHANGED <<det, heard, amdFaults, AmdBackend>>

-----------------------------------------------------------------------------
(* The backend. *)

AmdFault == amdFaults < MaxAmdFaults /\ amdFaults' = amdFaults + 1
AmdQuiet == UNCHANGED <<det, heard, feeder, notified>>

(* SetCallVoiceSession, once the session is created. *)
LinkSession ==
  /\ ~linked /\ linked' = TRUE
  /\ AmdQuiet /\ UNCHANGED <<reports, botAction, amdRow, ending, sessionOver, amdFaults, botEdits>>

EditBot(a) ==
  /\ botEdits < MaxBotEdits /\ botEdits' = botEdits + 1
  /\ a # botAction /\ botAction' = a
  /\ AmdQuiet /\ UNCHANGED <<reports, linked, amdRow, ending, sessionOver, amdFaults>>

EndsOnAnyResult(result) == botAction = "hangup"
EndsOnStoredResult(result) == amdRow.result = "machine" /\ botAction = "hangup"
EndsSession(result) == result = "machine" /\ botAction = "hangup"

(* handleInternalAMDResult: a session not linked yet is accepted and forgotten,
   and so is a report whose row cannot be written; a bot that cannot be read has
   no action.  drop_message stands for that action with a message to leave. *)
HandleAMDResult(i) ==
  /\ reports[i].state = "sent"
  /\ LET res == reports[i].verdict
     IN  \/ /\ ~linked
            /\ reports' = [reports EXCEPT ![i].state = "ignored"]
            /\ UNCHANGED <<amdRow, ending, amdFaults>>
         \/ /\ linked
            /\ reports' = [reports EXCEPT ![i].state = "handled"]
            /\ amdRow' = [result |-> res,
                          dropped |-> res = "machine" /\ botAction = "drop_message"]
            /\ ending' = (ending \/ EndsSession(res))
            /\ UNCHANGED amdFaults
         \/ /\ linked /\ AmdFault
            /\ reports' = [reports EXCEPT ![i].state = "handled"]
            /\ amdRow' = [result |-> res, dropped |-> FALSE]
            /\ UNCHANGED ending
         \/ /\ AmdFault
            /\ reports' = [reports EXCEPT ![i].state = "lost"]
            /\ UNCHANGED <<amdRow, ending>>
  /\ AmdQuiet /\ UNCHANGED <<linked, botAction, sessionOver, botEdits>>

(* EndSession removes the session; five seconds, not repeated. *)
EndSession ==
  /\ ending /\ ending' = FALSE
  /\ \/ sessionOver' = TRUE /\ UNCHANGED amdFaults
     \/ AmdFault /\ UNCHANGED sessionOver
  /\ AmdQuiet /\ UNCHANGED <<reports, linked, botAction, amdRow, botEdits>>

AmdNext ==
  \/ \E f \in Feeders : ObserveChecks(f) \/ ObserveNotifies(f)
  \/ \E f \in Feeders, voiced \in BOOLEAN : ObserveFeeds(f, voiced)
  \/ \E i \in 1..Len(reports) : HandleAMDResult(i)
  \/ LinkSession \/ EndSession
  \/ \E a \in AmdActions : EditBot(a)

AmdSpec == AmdInit /\ [][AmdNext]_amdVars

-----------------------------------------------------------------------------

(* The detector's counters stay within the window and the states in range. *)
AmdTypeOK ==
  /\ det \in Detectors
  /\ Len(heard) = det.total
  /\ feeder \in [Feeders -> {"idle", "checked", "fed"}]
  /\ notified \in BOOLEAN /\ linked \in BOOLEAN
  /\ ending \in BOOLEAN /\ sessionOver \in BOOLEAN
  /\ botAction \in AmdActions
  /\ amdRow.result \in {"", "human", "machine", "unknown"}
  /\ amdFaults \in 0..MaxAmdFaults /\ botEdits \in 0..MaxBotEdits

(* Frames i to j are one stretch of speech: no silence of SilenceGap in it. *)
Stretch(i, j) ==
  \A k \in i..j : k + SilenceGap - 1 <= j => \E n \in k..(k + SilenceGap - 1) : heard[n]

VoicedIn(i, j) == Cardinality({k \in i..j : heard[k]})

LongSpeech ==
  \E i, j \in 1..Len(heard) : i <= j /\ Stretch(i, j) /\ VoicedIn(i, j) >= MachineBurst

(* What was heard justifies the verdict: machine only after a long stretch *)
(* of speech or a window mostly voiced, always when the stretch was long,  *)
(* unknown exactly for a silent window, human only after some speech, and  *)
(* no verdict before MinDecision or after the window (FeedPCM).            *)
VerdictFitsAudio ==
  LET n == Len(heard)
      mostly == n >= DecisionWindow /\ VoicedIn(1, n) * RatioDen >= RatioNum * n
      silent == \A k \in 1..n : ~heard[k]
  IN  /\ det.result = "machine" => LongSpeech \/ mostly
      /\ n >= MinDecision /\ LongSpeech => det.result = "machine"
      /\ det.result = "unknown" <=> n = DecisionWindow /\ silent
      /\ det.result = "human" => ~silent
      /\ det.result # Undecided => n >= MinDecision
      /\ n = DecisionWindow => det.result # Undecided

(* Two read loops that both see the verdict report it once, and the row    *)
(* never tells another one (ObserveInbound, UpdateCallAMD).                *)
ReportedOnce ==
  /\ Len(reports) <= 1
  /\ amdRow.result # "" => amdRow.result = det.result

(* Detection ends a call only for a machine.                               *)
OnlyMachinesAreHungUp == ending \/ sessionOver => det.result = "machine"

(* A machine's call, reported to a bot that hangs up on machines, is ended *)
(* unless a request is lost, the session was not linked in time or the bot *)
(* is changed (handleInternalAMDResult, EndSession).                       *)
MachineIsHungUp ==
  (notified /\ det.result = "machine" /\ botAction = "hangup")
    ~> (sessionOver \/ amdFaults > 0 \/ botEdits > 0
        \/ \E i \in 1..Len(reports) : reports[i].state = "ignored")

(* The verdict is that of the audio, is reported once, and only a          *)
(* machine's call is ended for it (FeedPCM, ObserveInbound,                *)
(* handleInternalAMDResult).                                               *)
AmdInv == AmdTypeOK /\ VerdictFitsAudio /\ ReportedOnce /\ OnlyMachinesAreHungUp
=============================================================================
