------------------------------- MODULE Windows -------------------------------
(***************************************************************************)
(* The weekly live windows of an instance (services/scheduler.py):          *)
(* window_active, desired_state and next_window_open as the code computes   *)
(* them from weekdays and times of day, and what they mean on the line of   *)
(* minutes that a week is.                                                  *)
(***************************************************************************)
EXTENDS Naturals

CONSTANTS
  Days,       \* days of a week (7 in the code)
  Minutes,    \* minutes of a day (1440 in the code)
  Schedules   \* ids of the instance's schedules

ASSUME WindowsAssumption == Days \in Nat \ {0, 1} /\ Minutes \in Nat \ {0}

VARIABLES
  schedules,  \* the InstanceSchedule rows
  now         \* the current minute of the week

windowsVars == <<schedules, now>>

Week == Days * Minutes

Weekdays == 0..(Days - 1)
TimesOfDay == 0..(Minutes - 1)

WindowsInit ==
  /\ schedules \in [Schedules -> [days : SUBSET Weekdays, start : TimesOfDay,
                                  end : TimesOfDay, enabled : BOOLEAN]]
  /\ now \in 0..(Week - 1)

Weekday(t)   == t \div Minutes
TimeOfDay(t) == t % Minutes

(* window_active: a window whose end is not after its start passes midnight *)
(* and belongs to the day it starts on.                                     *)
BugWindowActive(s, t) ==
  LET today == Weekday(t) cur == TimeOfDay(t)
  IN IF s.start < s.end
     THEN today \in s.days /\ s.start <= cur /\ cur < s.end
     ELSE today \in s.days /\ (cur >= s.start \/ cur < s.end)
WindowActive(s, t) ==
  LET today     == Weekday(t)
      yesterday == (today + Days - 1) % Days
      cur       == TimeOfDay(t)
  IN IF s.start < s.end
     THEN today \in s.days /\ s.start <= cur /\ cur < s.end
     ELSE \/ today \in s.days /\ cur >= s.start
          \/ yesterday \in s.days /\ cur < s.end

Enabled == {i \in Schedules : schedules[i].enabled}

(* desired_state: some enabled window is live.                              *)
DesiredState(t) == \E i \in Enabled : WindowActive(schedules[i], t)

(* next_window_open: for each enabled schedule, today and the days of a     *)
(* whole week after it, the start times still ahead; the earliest of all.   *)
(* Times are on a line that goes on past the week's end.                    *)
BugOffsets == 0..(Days - 1)
Offsets    == 0..Days

Candidates(t) ==
  {c \in {(Weekday(t) + offset) * Minutes + schedules[i].start :
            offset \in Offsets, i \in Enabled} :
     /\ c > t
     /\ \E i \in Enabled : /\ Weekday(c) % Days \in schedules[i].days
                           /\ TimeOfDay(c) = schedules[i].start}

Unending == 2 * Week + 1
NextWindowOpen(t) ==
  IF Candidates(t) = {} THEN Unending
  ELSE CHOOSE c \in Candidates(t) : \A d \in Candidates(t) : c <= d

(* A minute passes.                                                         *)
MinutePasses ==
  /\ now' = (now + 1) % Week
  /\ UNCHANGED schedules

WindowsNext == MinutePasses
WindowsSpec == WindowsInit /\ [][WindowsNext]_windowsVars
-----------------------------------------------------------------------------
(* A window is the stretch from its start to the next time its end comes    *)
(* round, once for each of its days, on a week that closes on itself; a     *)
(* window whose end is its start is a whole day.                            *)
Length(s) == IF s.start < s.end THEN s.end - s.start
             ELSE s.end + Minutes - s.start
Stretch(s) ==
  {(d * Minutes + s.start + k) % Week : d \in s.days, k \in 0..(Length(s) - 1)}

(* scheduler.py:55-56: window_active is membership of that stretch, over    *)
(* midnight and over the week's end.                                        *)
ActiveIsStretch ==
  DesiredState(now) <=> \E i \in Enabled : now \in Stretch(schedules[i])

(* scheduler.py:93-94: the announced opening is a moment the instance is    *)
(* live, and it is not live at any moment before that: whoever is told      *)
(* "not live right now, next window at ..." is told the first one.          *)
AnnouncedIsNext ==
  ~DesiredState(now) =>
    LET next == NextWindowOpen(now) IN
    /\ next # Unending => DesiredState(next % Week)
    /\ \A t \in now..(now + Week) : t < next => ~DesiredState(t % Week)

(* What the calendar answers, now and next, is right at every minute        *)
(* (services/scheduler.py:44-120).                                          *)
WindowsInv == ActiveIsStretch /\ AnnouncedIsNext
=============================================================================
