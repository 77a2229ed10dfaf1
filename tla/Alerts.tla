------------------------------- MODULE Alerts -------------------------------
(***************************************************************************)
(* What makes the server speak up: watch_disk (app/notify.py) and          *)
(* streaks.StreakTracker, which tell an incident once with the help of     *)
(* emit()'s memory of recent keys, and the daily report (app/reportjob.py) *)
(* with the file that remembers it.  Ages are in rounds of watch_disk.     *)
(***************************************************************************)
EXTENDS Naturals

CONSTANTS Repeat,       \* low_disk_repeat_h, and the window of a streak's message, in rounds
          FailStreak,   \* cfg["fail_streak"]
          MaxDays,      \* bound: days
          MaxUnsaved,   \* bound: writes of the settings file that fail
          MaxReloads    \* bound: restarts

ASSUME AlertsAssumption ==
    /\ Repeat \in Nat \ {0} /\ FailStreak \in Nat \ {0}
    /\ MaxDays \in Nat \ {0} /\ MaxUnsaved \in Nat /\ MaxReloads \in Nat

Incidents == {"lowdisk", "streak"}

VARIABLES seen,       \* _seen of the two keys: the age of the last message, Never if unknown
          flagged,    \* watch_disk's local variable
          limitOn,    \* cfg["low_disk_gb"] is not 0
          streak,     \* StreakTracker: failures in a row, and flagged
          clock,      \* the day, and whether the report's time of day has come
          report,     \* reportjob.loop: idle, or sending the report of a day
          lastSent,   \* cfg["report"]["last_sent"] in memory and in telegram.json
          unsaved, reloads,
          warned,     \* bookkeeping: the disk's incident was told
          silent,     \* bookkeeping: rounds it was low since the disk's warning
          alarmed,    \* bookkeeping: the source's incident was told
          accepted    \* bookkeeping: [day -> reports Telegram took]

alertVars == <<seen, flagged, limitOn, streak, clock, report, lastSent, unsaved, reloads,
               warned, silent, alarmed, accepted>>

diskVars == <<flagged, limitOn, warned, silent>>
streakVars == <<streak, alarmed>>
reportVars == <<clock, report, lastSent, unsaved, accepted>>

Never == Repeat + 1

AlertsInit ==
    /\ seen = [k \in Incidents |-> Never]
    /\ flagged = FALSE /\ limitOn = TRUE
    /\ streak = [fails |-> 0, flagged |-> FALSE]
    /\ clock = [day |-> 1, due |-> FALSE]
    /\ report = 0
    /\ lastSent = [memory |-> 0, file |-> 0]
    /\ unsaved = 0 /\ reloads = 0
    /\ warned = FALSE /\ silent = 0 /\ alarmed = FALSE
    /\ accepted = [d \in 1..MaxDays |-> 0]

-----------------------------------------------------------------------------
(* emit: a repeat within the window is held back and does not make the window longer. *)
HeldBack(k) == seen[k] < Repeat

Older(ages) == [k \in Incidents |-> IF ages[k] < Never THEN ages[k] + 1 ELSE Never]

Emitted(ages, k) == [ages EXCEPT ![k] = IF @ < Repeat THEN @ ELSE 0]

(* A round of watch_disk that finds the disk low: time has passed since the last round. *)
DiskLow ==
    /\ limitOn
    /\ flagged' = TRUE
    /\ seen' = Emitted(Older(seen), "lowdisk")
    /\ LET news == Older(seen)["lowdisk"] >= Repeat
       IN /\ warned' = (warned \/ news)
          /\ silent' = IF news THEN 0 ELSE silent + 1
    /\ UNCHANGED <<limitOn, reloads>> /\ UNCHANGED streakVars /\ UNCHANGED reportVars

(* Fault: the key of the warning is not forgotten. *)
DiskRecovered_KeepsKey ==
    /\ limitOn /\ flagged
    /\ flagged' = FALSE
    /\ seen' = Older(seen)
    /\ warned' = FALSE /\ silent' = 0
    /\ UNCHANGED <<limitOn, reloads>> /\ UNCHANGED streakVars /\ UNCHANGED reportVars

(* A round that finds it above the limit and its margin: reset_key, and the good news. *)
DiskRecovered ==
    /\ limitOn /\ flagged
    /\ flagged' = FALSE
    /\ seen' = [Older(seen) EXCEPT !["lowdisk"] = Never]
    /\ warned' = FALSE /\ silent' = 0
    /\ UNCHANGED <<limitOn, reloads>> /\ UNCHANGED streakVars /\ UNCHANGED reportVars

(* A round between the limit and its margin: neither low nor OK again. *)
DiskBetween ==
    /\ limitOn /\ flagged
    /\ seen' = Older(seen)
    /\ UNCHANGED <<flagged, limitOn, warned, silent, reloads>>
    /\ UNCHANGED streakVars /\ UNCHANGED reportVars

(* A round that has nothing to say; one with the limit at 0 forgets the flag, not the key. *)
DiskQuiet ==
    /\ ~limitOn \/ ~flagged
    /\ flagged' = FALSE
    /\ seen' = Older(seen)
    /\ silent' = 0
    /\ UNCHANGED <<limitOn, warned, reloads>> /\ UNCHANGED streakVars /\ UNCHANGED reportVars

(* PUT /admin/telegram: update() writes the whole configuration, last_sent included. *)
Configure ==
    /\ limitOn' = ~limitOn
    /\ lastSent' = [lastSent EXCEPT !.file = lastSent.memory]
    /\ UNCHANGED <<seen, flagged, clock, report, unsaved, reloads, warned, silent, accepted>>
    /\ UNCHANGED streakVars

-----------------------------------------------------------------------------
(* StreakTracker.record, and what resolver.on_result emits for its verdict. *)
RunFails ==
    /\ streak.fails < FailStreak
    /\ streak' = [fails |-> streak.fails + 1,
                  flagged |-> streak.flagged \/ streak.fails + 1 = FailStreak]
    /\ IF streak.fails + 1 = FailStreak
         THEN seen' = Emitted(seen, "streak") /\ alarmed' = ~HeldBack("streak")
         ELSE UNCHANGED <<seen, alarmed>>
    /\ UNCHANGED reloads /\ UNCHANGED diskVars /\ UNCHANGED reportVars

RunAnswers ==
    /\ streak' = [fails |-> 0, flagged |-> FALSE]
    /\ alarmed' = FALSE
    /\ UNCHANGED <<seen, reloads>> /\ UNCHANGED diskVars /\ UNCHANGED reportVars

-----------------------------------------------------------------------------
TimePasses ==
    /\ \/ clock' = [clock EXCEPT !.due = TRUE]
       \/ clock.due /\ clock.day < MaxDays /\ clock' = [day |-> clock.day + 1, due |-> FALSE]
    /\ UNCHANGED <<seen, report, lastSent, unsaved, reloads, accepted>>
    /\ UNCHANGED diskVars /\ UNCHANGED streakVars

(* report_due, and the loop starts to collect and send. *)
ReportBegins ==
    /\ report = 0
    /\ clock.due /\ lastSent.memory # clock.day
    /\ report' = clock.day
    /\ UNCHANGED <<seen, clock, lastSent, unsaved, reloads, accepted>>
    /\ UNCHANGED diskVars /\ UNCHANGED streakVars

(* Fault: the file first; memory only after a write that worked. *)
MarkReportSent_FileFirst(day) ==
    \/ lastSent' = [memory |-> day, file |-> day] /\ UNCHANGED unsaved
    \/ unsaved < MaxUnsaved /\ unsaved' = unsaved + 1 /\ UNCHANGED lastSent

(* mark_report_sent: memory first, a write that fails is only logged. *)
MarkReportSent(day) ==
    \/ lastSent' = [memory |-> day, file |-> day] /\ UNCHANGED unsaved
    \/ /\ unsaved < MaxUnsaved
       /\ unsaved' = unsaved + 1
       /\ lastSent' = [lastSent EXCEPT !.memory = day]

ReportAccepted ==
    /\ report # 0
    /\ report' = 0
    /\ accepted' = [accepted EXCEPT ![report] = @ + 1]
    /\ MarkReportSent(report)
    /\ UNCHANGED <<seen, clock, reloads>> /\ UNCHANGED diskVars /\ UNCHANGED streakVars

ReportRefused ==
    /\ report # 0
    /\ report' = 0
    /\ UNCHANGED <<seen, clock, lastSent, unsaved, reloads, accepted>>
    /\ UNCHANGED diskVars /\ UNCHANGED streakVars

(* The process ends, perhaps with a report on its way that arrives, and starts again. *)
Reload ==
    /\ reloads < MaxReloads
    /\ reloads' = reloads + 1
    /\ seen' = [k \in Incidents |-> Never]
    /\ flagged' = FALSE /\ warned' = FALSE /\ silent' = 0
    /\ streak' = [fails |-> 0, flagged |-> FALSE] /\ alarmed' = FALSE
    /\ \/ accepted' = accepted
       \/ report # 0 /\ accepted' = [accepted EXCEPT ![report] = @ + 1]
    /\ report' = 0
    /\ lastSent' = [lastSent EXCEPT !.memory = lastSent.file]
    /\ UNCHANGED <<limitOn, clock, unsaved>>

AlertsNext ==
    \/ DiskLow \/ DiskRecovered \/ DiskBetween \/ DiskQuiet \/ Configure
    \/ RunFails \/ RunAnswers
    \/ TimePasses \/ ReportBegins \/ ReportAccepted \/ ReportRefused
    \/ Reload

AlertsSpec == AlertsInit /\ [][AlertsNext]_alertVars

-----------------------------------------------------------------------------
AlertsTypeOK ==
    /\ seen \in [Incidents -> 0..Never]
    /\ {flagged, limitOn, warned, alarmed} \subseteq BOOLEAN
    /\ streak \in [fails : 0..FailStreak, flagged : BOOLEAN]
    /\ clock \in [day : 1..MaxDays, due : BOOLEAN]
    /\ report \in 0..MaxDays
    /\ lastSent \in [memory : 0..MaxDays, file : 0..MaxDays]
    /\ unsaved \in 0..MaxUnsaved /\ reloads \in 0..MaxReloads
    /\ silent \in Nat
    /\ accepted \in [1..MaxDays -> Nat]

(* A disk that is low has been warned of since it was last told to be OK (watch_disk:            *)
(* "the next time it drops is a new problem: warn at once"), however shortly ago the warning of  *)
(* the earlier incident was.                                                                     *)
NewIncidentWarned == flagged => warned

(* "repeated every 6 hours while it stays low" (README.md): the warnings of a disk that stays    *)
(* low are never further apart than the chosen time and a round, although every round emits and  *)
(* most are held back.                                                                           *)
WarningRepeats == flagged => silent <= Repeat

(* A day's report is taken by Telegram once, also when telegram.json cannot be written or the    *)
(* answer comes after midnight; only a restart can lose what was not saved.                      *)
OneReportPerDay == \A d \in 1..MaxDays : accepted[d] <= 1 + reloads

(* README.md: "one message when a source fails 5 runs in a row [...] and one when it works       *)
(* again".  A source that is flagged as failing has been reported.                               *)
FailingIsTold == streak.flagged => alarmed
=============================================================================
