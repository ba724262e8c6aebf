----------------------------- MODULE CronRules -----------------------------
(***************************************************************************)
(* The cron evaluator of the schedule routes (parseField, parseCron,       *)
(* dayMatches, nextCronRun, computeNextRunAt of                            *)
(* apps/api/src/routes/schedules.ts), over a calendar whose units are      *)
(* constants.  Time is counted in seconds from the start of the calendar.  *)
(***************************************************************************)
EXTENDS Integers, Sequences, FiniteSets, FiniteSetsExt

CONSTANTS
  FirstDay,     \* days before each month, leap years and all; the calendar's end last
  YearMonths,   \* months of a year
  MaxDate,      \* the largest day of a month a cron expression may name
  WeekDays,     \* days of a week; the calendar starts on day 0
  DayHours, HourMinutes, MinuteSeconds,
  Horizon,      \* FIVE_YEARS_MS
  Times         \* the instants at which a cron expression is evaluated

ASSUME CalendarAssumption ==
  /\ FirstDay \in Seq(Nat) /\ Len(FirstDay) > 1 /\ FirstDay[1] = 0
  /\ \A m, n \in DOMAIN FirstDay : m < n => FirstDay[m] < FirstDay[n]
  /\ {YearMonths, WeekDays, DayHours, HourMinutes, MinuteSeconds} \subseteq Nat \ {0}
  /\ MaxDate \in Nat /\ Horizon \in Nat /\ Times \subseteq Nat

-----------------------------------------------------------------------------
(* The calendar *)

Minute == MinuteSeconds
Hour == HourMinutes * Minute
Day == DayHours * Hour

Months == Len(FirstDay) - 1
End == FirstDay[Months + 1] * Day

day(t) == t \div Day
month(t) == CHOOSE m \in 1 .. Months : FirstDay[m] <= day(t) /\ day(t) < FirstDay[m + 1]
monthOfYear(t) == ((month(t) - 1) % YearMonths) + 1
date(t) == day(t) - FirstDay[month(t)] + 1
hour(t) == (t \div Hour) % DayHours
minute(t) == (t \div Minute) % HourMinutes
second(t) == t % Minute

-----------------------------------------------------------------------------
(* Parsing.  A term of a field is its range and its step, 0 for none; a     *)
(* field is the sequence of its terms, a cron expression a record of fields.*)

bounds(term, min, max) ==
  CASE term.range = "*"   -> <<min, max>>
    [] term.range = "a-b" -> <<term.a, term.b>>
    [] OTHER              -> <<term.a, IF term.step # 0 THEN max ELSE term.a>>

validTerm(term, min, max) ==
  LET b == bounds(term, min, max)
  IN term.step >= 0 /\ min <= b[1] /\ b[2] <= max /\ b[1] <= b[2]

\* parseField
values(field, min, max) ==
  UNION {LET b == bounds(field[i], min, max)
             step == IF field[i].step = 0 THEN 1 ELSE field[i].step
         IN {v \in b[1] .. b[2] : (v - b[1]) % step = 0} : i \in DOMAIN field}
validField(field, min, max) ==
  field # <<>> /\ \A i \in DOMAIN field : validTerm(field[i], min, max)

\* The token itself is compared: * listed twice restricts.
unrestricted(field) == field = <<[range |-> "*", a |-> 0, b |-> 0, step |-> 0]>>

\* cronIsValid
cronIsValid(c) ==
  /\ c.hasSeconds => validField(c.second, 0, MinuteSeconds - 1)
  /\ validField(c.minute, 0, HourMinutes - 1)
  /\ validField(c.hour, 0, DayHours - 1)
  /\ validField(c.dom, 1, MaxDate)
  /\ validField(c.month, 1, YearMonths)
  /\ validField(c.dow, 0, WeekDays)

\* parseCron: the last day of the week is the first.
parseCron(c) ==
  [hasSeconds |-> c.hasSeconds,
   second |-> IF c.hasSeconds THEN values(c.second, 0, MinuteSeconds - 1) ELSE {0},
   minute |-> values(c.minute, 0, HourMinutes - 1),
   hour |-> values(c.hour, 0, DayHours - 1),
   dom |-> values(c.dom, 1, MaxDate),
   month |-> values(c.month, 1, YearMonths),
   dow |-> {v % WeekDays : v \in values(c.dow, 0, WeekDays)},
   domRestricted |-> ~unrestricted(c.dom),
   dowRestricted |-> ~unrestricted(c.dow)]

-----------------------------------------------------------------------------
(* Evaluation *)

\* dayMatches: either day field when both are restricted, else the one that is.
dayMatches(t, f) ==
  LET domOk == date(t) \in f.dom
      dowOk == day(t) % WeekDays \in f.dow
  IN IF f.domRestricted /\ f.dowRestricted THEN domOk \/ dowOk
     ELSE (f.domRestricted => domOk) /\ (f.dowRestricted => dowOk)

Never == -1

\* Variant of advance: the jump to the next day keeps the time of day.
advance_KeepsHour(f, t) ==
  IF monthOfYear(t) \notin f.month THEN FirstDay[month(t) + 1] * Day
  ELSE IF ~dayMatches(t, f) THEN IF t + Day < End THEN t + Day ELSE End
  ELSE IF hour(t) \notin f.hour THEN (t \div Hour + 1) * Hour
  ELSE IF minute(t) \notin f.minute THEN (t \div Minute + 1) * Minute
  ELSE IF f.hasSeconds /\ second(t) \notin f.second THEN t + 1
  ELSE t

\* One round of the loop of nextCronRun: the first field that does not match jumps
\* to the start of its next unit.
advance(f, t) ==
  IF monthOfYear(t) \notin f.month THEN FirstDay[month(t) + 1] * Day
  ELSE IF ~dayMatches(t, f) THEN (day(t) + 1) * Day
  ELSE IF hour(t) \notin f.hour THEN (t \div Hour + 1) * Hour
  ELSE IF minute(t) \notin f.minute THEN (t \div Minute + 1) * Minute
  ELSE IF f.hasSeconds /\ second(t) \notin f.second THEN t + 1
  ELSE t

\* The loop, from each instant on.
search(f, limit) ==
  LET run[t \in 0 .. End] ==
        IF t > limit \/ t = End THEN Never
        ELSE IF advance(f, t) = t THEN t ELSE run[advance(f, t)]
  IN run

\* nextCronRun: from the next whole unit on.
nextCronRun(c, from) ==
  LET f == parseCron(c)
      unit == IF f.hasSeconds THEN 1 ELSE Minute
  IN search(f, from + Horizon)[(from \div unit + 1) * unit]

\* computeNextRunAt: refused when malformed or, enabled, when it never fires.
refusedCron(c, enabled, now) ==
  ~cronIsValid(c) \/ (enabled /\ nextCronRun(c, now) = Never)
computeNextRunAt(c, enabled, now) == IF enabled THEN nextCronRun(c, now) ELSE Never

-----------------------------------------------------------------------------
\* The reference: the first of the instants at which every field matches.
fires(f, t) ==
  /\ second(t) \in f.second /\ minute(t) \in f.minute /\ hour(t) \in f.hour
  /\ monthOfYear(t) \in f.month /\ dayMatches(t, f)
first(T) == IF T = {} THEN Never ELSE Min(T)
firstAfter(c, from) ==
  first({t \in from + 1 .. from + Horizon : t < End /\ fires(parseCron(c), t)})
=============================================================================
