-------------------------- MODULE MCServicesProofs --------------------------
(***************************************************************************)
(* Theorems about MCServices: what its run checks of the settings, the     *)
(* SIEM stream, the alerts, the reader of the audit log, the mirrors of the*)
(* bans and the challenge gate.  They are the theorems of BackgroundProofs *)
(* about each of them, carried over: MCServices runs a part as its own     *)
(* module does, or leaves it alone.                                        *)
(***************************************************************************)
EXTENDS MCServices, TLAPS

\* The modules with the theorems, with the constants of MCServices.  The configuration lock
\* has no part in it: nobody takes it here.
Back == INSTANCE BackgroundProofs WITH
    Procs <- {}, NoFile <- 0, MaxCrashes <- 0, MaxDepth <- 1, HoldersCanWedge <- FALSE,
    lockFile <- part, pc <- part, depth <- part, degraded <- part,
    Processes <- {"server", "cli"}, Groups <- {"g", "h"}, Fields <- {"a", "b"},
    MaxWrites <- 2, MaxFaults <- 1, MaxSecond <- 3,
    Pollers <- {"server", "cli"}, batch_max <- 2, MaxRows <- 3, MaxMishaps <- 1,
    Senders <- {"server", "cli"}, Kinds <- {"spike", "new_ban"}, Gap <- 2, Longest <- 1,
    MaxEnds <- 1,
    Targets <- {"t"}, Api <- "api", Cli <- "cli", Idle <- "idle", MaxChanges <- 3,
    MaxTroubles <- 2,
    Readers <- {"server", "cli"}, Rows <- 1..3, Pieces <- <<1, 3, 4>>, MAX_READ <- 3,
    Unread <- NoOffset, NotReading <- NoOffset, MaxTruncations <- 1, MaxStarts <- 1,
    Addresses <- {"a", "b"}, resolve_seconds <- 1, max_attempts <- 2, MAX_PENDING <- 2,
    MAX_ATTEMPTS_ENTRIES <- 1, MaxIds <- 3

\* Each of the parts takes a step of its own or none, ...
LEMMA PartsStep ==
    Next => /\ P!SettingsNext \/ UNCHANGED settingsVars
            /\ E!SiemNext \/ UNCHANGED siemVars
            /\ L!AlertsNext \/ UNCHANGED alertVars
            /\ M!MirrorsNext \/ UNCHANGED mirrorVars
            /\ Q!ReaderNext \/ UNCHANGED readerVars
            /\ H!ChallengeNext \/ UNCHANGED challengeVars
  BY DEF Next, SettingsStep, JobsStep, JobsOnly, MirrorsStep, SiemStep, AlertsStep, ChallengeStep,
      RoutesStep, TextStep, BackupsStep, RecoveryStep, CommandStep, DiscoveryStep, ReachStep,
      DialogueStep, ReaderStep, Beside, aboutVars, gateVars

\* ... and stands still when the whole does.
LEMMA PartsStand ==
    UNCHANGED vars => /\ UNCHANGED settingsVars /\ UNCHANGED siemVars /\ UNCHANGED alertVars
                      /\ UNCHANGED mirrorVars /\ UNCHANGED readerVars
                      /\ UNCHANGED challengeVars
  BY DEF vars, aboutVars, gateVars

\* The settings.
LEMMA SettingsRuns == Spec => Back!SettingsSpec
<1>1. P!SettingsInit => Back!SettingsInit
  BY DEF P!SettingsInit, P!Defaults, P!Empty, P!NoUse, Back!SettingsInit, Back!Defaults,
      Back!Empty, Back!NoUse
<1>2. P!SettingsNext => Back!SettingsNext
  BY DEF P!SettingsNext, P!Get, P!Set, P!Rollback, P!Reload, P!Reset, P!Second, P!MayLook, P!Left,
      P!Got, P!Counter, P!Looked, P!Use, P!Remember, P!Write, P!Cardinality, P!Empty, P!NoUse,
      P!Defaults, P!REV_CHECK, P!Max, P!True, P!Replaced, P!BumpRev, Back!SettingsNext, Back!Get,
      Back!Set, Back!Rollback, Back!Reload, Back!Reset, Back!Second, Back!MayLook, Back!Left,
      Back!Got, Back!Counter, Back!Looked, Back!Use, Back!Remember, Back!Write, Back!Cardinality,
      Back!Empty, Back!NoUse, Back!Defaults, Back!REV_CHECK, Back!Max, Back!True, Back!Replaced,
      Back!BumpRev
<1>3. Init => Back!SettingsInit
  BY <1>1 DEF Init
<1>4. Next => Back!SettingsNext \/ UNCHANGED Back!settingsVars
  BY <1>2, PartsStep DEF settingsVars, siemVars, alertVars, mirrorVars, readerVars,
      Back!settingsVars, Back!copies
<1>5. UNCHANGED vars => UNCHANGED Back!settingsVars
  BY PartsStand DEF settingsVars, siemVars, alertVars, mirrorVars, readerVars,
      Back!settingsVars, Back!copies
<1> QED
  BY <1>3, <1>4, <1>5, PTL DEF Spec, Back!SettingsSpec

\* The SIEM stream.
LEMMA SiemRuns == Spec => Back!SiemSpec
<1>1. E!SiemInit => Back!SiemInit
  BY DEF E!SiemInit, Back!SiemInit
<1>2. E!SiemNext => Back!SiemNext
  BY DEF E!SiemNext, E!Log, E!Purge, E!Select, E!AppendToFile, E!SaveCursor, E!Mishap, E!LastRid,
      E!Polling, E!siemHistory, E!Batch, E!Numbers, E!Rest, E!Max, E!Rids, E!Beyond, E!Cardinality,
      Back!SiemNext, Back!Log, Back!Purge, Back!Select, Back!AppendToFile, Back!SaveCursor,
      Back!Mishap, Back!LastRid, Back!Polling, Back!siemHistory, Back!Batch, Back!Numbers,
      Back!Rest, Back!Max, Back!Rids, Back!Beyond, Back!Cardinality
<1>3. Init => Back!SiemInit
  BY <1>1 DEF Init
<1>4. Next => Back!SiemNext \/ UNCHANGED Back!siemVars
  BY <1>2, PartsStep DEF settingsVars, siemVars, alertVars, mirrorVars, readerVars,
      Back!siemVars, Back!siemHistory
<1>5. UNCHANGED vars => UNCHANGED Back!siemVars
  BY PartsStand DEF settingsVars, siemVars, alertVars, mirrorVars, readerVars,
      Back!siemVars, Back!siemHistory
<1> QED
  BY <1>3, <1>4, <1>5, PTL DEF Spec, Back!SiemSpec

\* The alerts.
LEMMA AlertsRuns == Spec => Back!AlertsSpec
<1>1. L!AlertsInit => Back!AlertsInit
  BY DEF L!AlertsInit, L!Free, Back!AlertsInit, Back!Free
<1>2. L!AlertsNext => Back!AlertsNext
  BY DEF L!AlertsNext, L!Claim, L!Send, L!Delivered, L!Failed, L!Refund, L!End, L!Pass, L!Free,
      L!Claiming, L!Own, L!Older, Back!AlertsNext, Back!Claim, Back!Send, Back!Delivered,
      Back!Failed, Back!Refund, Back!End, Back!Pass, Back!Free, Back!Claiming, Back!Own,
      Back!Older
<1>3. Init => Back!AlertsInit
  BY <1>1 DEF Init
<1>4. Next => Back!AlertsNext \/ UNCHANGED Back!alertVars
  BY <1>2, PartsStep DEF settingsVars, siemVars, alertVars, mirrorVars, readerVars,
      Back!alertVars
<1>5. UNCHANGED vars => UNCHANGED Back!alertVars
  BY PartsStand DEF settingsVars, siemVars, alertVars, mirrorVars, readerVars,
      Back!alertVars
<1> QED
  BY <1>3, <1>4, <1>5, PTL DEF Spec, Back!AlertsSpec

\* The mirrors of the bans.
LEMMA MirrorsRuns == Spec => Back!MirrorsSpec
<1>1. M!MirrorsInit => Back!MirrorsInit
  BY DEF M!MirrorsInit, M!Runners, M!NoWork, M!Nothing, Back!MirrorsInit, Back!Runners,
      Back!NoWork, Back!Nothing
<1>2. M!MirrorsNext => Back!MirrorsNext
  BY DEF M!MirrorsNext, M!Change, M!Runners, M!EdgeUnchanged, M!EdgeAsk, M!EdgeWrite, M!EdgeCannot,
      M!EdgeReload, M!EdgeRecord, M!KernelUnchanged, M!KernelDelete, M!KernelApply, M!Die,
      M!OtherReload, M!Backup, M!RestoreBackup, M!Nothing, M!edge, M!kernel, M!history, M!At,
      M!LockIsFree, M!Trouble, M!NoWork, M!Hash, M!Nft, M!Keep, Back!MirrorsNext, Back!Change,
      Back!Runners, Back!EdgeUnchanged, Back!EdgeAsk, Back!EdgeWrite, Back!EdgeCannot,
      Back!EdgeReload, Back!EdgeRecord, Back!KernelUnchanged, Back!KernelDelete, Back!KernelApply,
      Back!Die, Back!OtherReload, Back!Backup, Back!RestoreBackup, Back!Nothing, Back!edge,
      Back!kernel, Back!history, Back!At, Back!LockIsFree, Back!Trouble, Back!NoWork, Back!Hash,
      Back!Nft, Back!Keep
<1>3. Init => Back!MirrorsInit
  BY <1>1 DEF Init
<1>4. Next => Back!MirrorsNext \/ UNCHANGED Back!mirrorVars
  BY <1>2, PartsStep DEF settingsVars, siemVars, alertVars, mirrorVars, readerVars,
      Back!mirrorVars, Back!edge, Back!kernel, Back!history
<1>5. UNCHANGED vars => UNCHANGED Back!mirrorVars
  BY PartsStand DEF settingsVars, siemVars, alertVars, mirrorVars, readerVars,
      Back!mirrorVars, Back!edge, Back!kernel, Back!history
<1> QED
  BY <1>3, <1>4, <1>5, PTL DEF Spec, Back!MirrorsSpec

\* The reader of the audit log.
LEMMA ReaderRuns == Spec => Back!ReaderSpec
<1>1. Q!ReaderInit => Back!ReaderInit
  BY DEF Q!ReaderInit, Back!ReaderInit
<1>2. Q!ReaderNext => Back!ReaderNext
  BY DEF Q!ReaderNext, Q!Append1, Q!Truncate, Q!Ingest, Q!SaveOffset, Q!Drain, Q!Start,
      Q!loadOffset, Q!StartOver, Q!ConsumedTo, Q!RowsIn, Q!MinOf, Q!Max, Q!EndsLine,
      Back!ReaderNext, Back!Append1, Back!Truncate, Back!Ingest, Back!SaveOffset, Back!Drain,
      Back!Start, Back!loadOffset, Back!StartOver, Back!ConsumedTo, Back!RowsIn, Back!MinOf,
      Back!Max, Back!EndsLine
<1>3. Init => Back!ReaderInit
  BY <1>1 DEF Init
<1>4. Next => Back!ReaderNext \/ UNCHANGED Back!readerVars
  BY <1>2, PartsStep DEF settingsVars, siemVars, alertVars, mirrorVars, readerVars,
      Back!readerVars
<1>5. UNCHANGED vars => UNCHANGED Back!readerVars
  BY PartsStand DEF settingsVars, siemVars, alertVars, mirrorVars, readerVars,
      Back!readerVars
<1> QED
  BY <1>3, <1>4, <1>5, PTL DEF Spec, Back!ReaderSpec

\* The challenge gate.
LEMMA ChallengeRuns == Spec => Back!ChallengeSpec
<1>1. H!ChallengeInit => Back!ChallengeInit
  BY DEF H!ChallengeInit, Back!ChallengeInit
<1>2. H!ChallengeNext => Back!ChallengeNext
  BY DEF H!ChallengeNext, H!Modes, H!Issue, H!Lost, H!Range, H!Fail, H!ProviderRefuses, H!Expel,
      H!Solve, H!AskProvider, H!ProviderAccepts, H!Readmit, H!Tick, H!Restart, H!Issued,
      H!Unexpired, H!Swept, H!Reissue, H!Try, H!TooMany, H!Without, H!ClearAttempts, H!Counted,
      H!Less, H!Kept, H!Window, H!LastOf, H!Attempted, H!Forget, Back!ChallengeNext, Back!Modes,
      Back!Issue, Back!Lost, Back!Range, Back!Fail, Back!ProviderRefuses, Back!Expel, Back!Solve,
      Back!AskProvider, Back!ProviderAccepts, Back!Readmit, Back!Tick, Back!Restart, Back!Issued,
      Back!Unexpired, Back!Swept, Back!Reissue, Back!Try, Back!TooMany, Back!Without,
      Back!ClearAttempts, Back!Counted, Back!Less, Back!Kept, Back!Window, Back!LastOf,
      Back!Attempted, Back!Forget
<1>3. Init => Back!ChallengeInit
  BY <1>1 DEF Init
<1>4. Next => Back!ChallengeNext \/ UNCHANGED Back!challengeVars
  BY <1>2, PartsStep DEF challengeVars, Back!challengeVars
<1>5. UNCHANGED vars => UNCHANGED Back!challengeVars
  BY PartsStand DEF challengeVars, Back!challengeVars
<1> QED
  BY <1>3, <1>4, <1>5, PTL DEF Spec, Back!ChallengeSpec

\* The constants of the parts are as the theorems about them assume.
LEMMA PartsConstants ==
    /\ Back!SettingsAssumption /\ Back!SettingsBoundsAssumption /\ Back!SiemAssumption
    /\ Back!AlertsAssumption /\ Back!MirrorsAssumption /\ Back!ReaderAssumption
    /\ Back!ChallengeAssumption
<1>1. P!SettingsAssumption /\ P!SettingsBoundsAssumption
          => Back!SettingsAssumption /\ Back!SettingsBoundsAssumption
  BY DEF P!SettingsAssumption, P!SettingsBoundsAssumption, P!IsFiniteSet, Back!SettingsAssumption,
      Back!SettingsBoundsAssumption, Back!IsFiniteSet
<1>2. E!SiemAssumption => Back!SiemAssumption
  BY DEF E!SiemAssumption, Back!SiemAssumption
<1>3. L!AlertsAssumption => Back!AlertsAssumption
  BY DEF L!AlertsAssumption, Back!AlertsAssumption
<1>4. M!MirrorsAssumption => Back!MirrorsAssumption
  BY DEF M!MirrorsAssumption, Back!MirrorsAssumption
<1>5. Q!ReaderAssumption => Back!ReaderAssumption
  BY DEF Q!ReaderAssumption, Q!Offsets, Back!ReaderAssumption, Back!Offsets
<1>6. H!ChallengeAssumption => Back!ChallengeAssumption
  BY DEF H!ChallengeAssumption, Back!ChallengeAssumption
<1> QED
  BY <1>1, <1>2, <1>3, <1>4, <1>5, <1>6, ServicesAssumption DEF ServicesAssumption

-----------------------------------------------------------------------------
(***************************************************************************)
(* What another process has written to the settings is heard of within a   *)
(* second: the theorem about settings/index.js, where MCServices runs it.  *)
(***************************************************************************)
THEOREM Heard == Spec => []HeardWithinASecond
<1>1. Back!HeardWithinASecond => HeardWithinASecond
  BY DEF HeardWithinASecond, P!HeardWithinASecond, Back!HeardWithinASecond
<1>2. Back!SettingsSpec => []Back!HeardWithinASecond
  BY PartsConstants, Back!ChangesAreHeard
<1> QED
  BY <1>1, <1>2, SettingsRuns, PTL

(***************************************************************************)
(* Blocked requests are streamed once, alerts keep their cooldown, and the *)
(* reader of the audit log misses nothing and gets on: the theorems about  *)
(* siemStream.js, alerts.js and requestLog.js, where MCServices runs them. *)
(***************************************************************************)
THEOREM Sent == Spec => SentOnce
<1>1. Back!ExactlyOnce => E!ExactlyOnce
  BY DEF E!ExactlyOnce, Back!ExactlyOnce
<1>2. Back!OneAlertPerCooldown => L!OneAlertPerCooldown
  BY DEF L!OneAlertPerCooldown, L!alertVars, Back!OneAlertPerCooldown, Back!alertVars
<1>3. Back!NothingSkipped => Q!NothingSkipped
  BY DEF Q!NothingSkipped, Q!OffsetsInUse, Q!RowsIn, Back!NothingSkipped, Back!OffsetsInUse,
      Back!RowsIn
<1>4. Back!ReadersGetOn => Q!ReadersGetOn
  BY DEF Q!readerVars, Q!ReadersGetOn, Q!Ingest, Q!loadOffset, Q!LongLine, Q!EndsLine, Q!Drain,
      Q!RowsIn, Q!StartOver, Q!ConsumedTo, Q!MinOf, Q!Max, Back!readerVars, Back!ReadersGetOn,
      Back!Ingest, Back!loadOffset, Back!LongLine, Back!EndsLine, Back!Drain, Back!RowsIn,
      Back!StartOver, Back!ConsumedTo, Back!MinOf, Back!Max
<1>5. Back!SiemSpec => []Back!ExactlyOnce
  BY PartsConstants, Back!StreamedExactlyOnce
<1>6. Back!AlertsSpec => Back!OneAlertPerCooldown
  BY PartsConstants, Back!AlertsKeepTheirCooldown
<1>7. Back!ReaderSpec => [](Back!ReaderTypeOK /\ Back!NothingSkipped) /\ Back!ReadersGetOn
  BY PartsConstants, Back!ReadersMissNothing
<1>8. Spec => [](part = "siem" => E!ExactlyOnce)
  BY <1>1, <1>5, SiemRuns, PTL
<1>9. Spec => [](part = "reader" => Q!NothingSkipped)
  BY <1>3, <1>7, ReaderRuns, PTL
<1>10. Spec => L!OneAlertPerCooldown
  BY <1>2, <1>6, AlertsRuns
<1>11. Spec => Back!ReadersGetOn
  BY <1>7, ReaderRuns
<1> QED
  BY <1>4, <1>8, <1>9, <1>10, <1>11 DEF SentOnce

(***************************************************************************)
(* Caddy and nftables enforce what the refresh of the mirrors says they do,*)
(* and who is banned at the gate has earned it: the theorems about         *)
(* edgeBans.js, kernelBans.js and services/challenge, where MCServices runs*)
(* them.                                                                   *)
(***************************************************************************)
THEOREM Banned == Spec => BansHold
<1>1. Back!EdgeIsWhatItSays /\ Back!KernelIsWhatItSays => M!EdgeIsWhatItSays /\ M!KernelIsWhatItSays
  BY DEF M!EdgeIsWhatItSays, M!KernelIsWhatItSays, Back!EdgeIsWhatItSays, Back!KernelIsWhatItSays
<1>2. Back!BansAreEarned => H!BansAreEarned
  BY DEF H!BansAreEarned, H!challengeVars, Back!BansAreEarned, Back!challengeVars
<1>3. Back!MirrorsSpec => [](Back!EdgeIsWhatItSays /\ Back!KernelIsWhatItSays)
  BY PartsConstants, Back!MirrorsAreTrue
<1>4. Back!ChallengeSpec => Back!BansAreEarned
  BY PartsConstants, Back!BansNeedTries
<1>5. Spec => [](M!EdgeIsWhatItSays /\ M!KernelIsWhatItSays)
  BY <1>1, <1>3, MirrorsRuns, PTL
<1> QED
  BY <1>2, <1>4, <1>5, ChallengeRuns DEF BansHold

=============================================================================
