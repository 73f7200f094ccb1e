------------------------------ MODULE CronCalendar -----------------------------
(***************************************************************************)
(* The occurrences of a cron expression (platform/control-plane/flows      *)
(* internal/cron/cron.go): fields are parsed into sets, and Next searches  *)
(* the calendar day by day, and the clock of each day, for the first local *)
(* minute that matches.  The hard part is the local clock, which skips and *)
(* repeats minutes, at midnight too.                                       *)
(*                                                                         *)
(* Instants and local minutes are numbers of minutes.  A zone changes its  *)
(* offset once.  What time.Date makes of a local minute that is repeated   *)
(* or skipped belongs to Go, which promises the offset of one of the two   *)
(* sides and not which: the zone's "picks" stands for its choice.          *)
(***************************************************************************)
EXTENDS Integers, FiniteSets

CONSTANTS
  Hours, Minutes, Week, \* hours of a day, minutes of an hour, days of a week
  Cycle, Calendar,      \* length of the calendar's cycle, and the month and day of each of its days
  Zone,                 \* records [at, before, after, picks]
  Expression,           \* records of five fields
  Outage,               \* how long the producers may have been away
  Horizon,              \* bound: the instants that cursors start from
  MaxScanDays, MaxCatchUpSteps

None == 0

VARIABLES
  zone,
  expression, \* the fields as they are written
  schedule,   \* and as they are parsed
  cursor      \* the instant from which the next occurrence is searched

calendarVars == <<zone, expression, schedule, cursor>>

Day == Hours * Minutes
Earliest(S) == CHOOSE t \in S : \A u \in S : t <= u
Latest(S) == CHOOSE t \in S : \A u \in S : t >= u

-----------------------------------------------------------------------------
(* Parsing.  A field is a set of terms: values, ranges and ranges with a   *)
(* step.  The empty set stands for the field that is literally "*".        *)

Bounds(kind) ==
  CASE kind = "minute" -> <<0, Minutes - 1>>
    [] kind = "hour" -> <<0, Hours - 1>>
    [] kind = "dom" -> <<1, Latest({Calendar[i][2] : i \in 1 .. Cycle})>>
    [] kind = "month" -> <<1, Latest({Calendar[i][1] : i \in 1 .. Cycle})>>
    [] kind = "dow" -> <<0, Week>>

\* The last day of the week is the first by another name.
ValueBit(v, kind) == IF kind = "dow" THEN v % Week ELSE v

TermParses(term, kind) ==
  /\ Bounds(kind)[1] <= term.from /\ term.from <= term.to /\ term.to <= Bounds(kind)[2]
  /\ term.step # 1 => ~term.single

\* Mutant: the step is counted from zero.
StepsFromZero(term) == {v \in term.from .. term.to : v % term.step = 0}

Steps(term) == {v \in term.from .. term.to : (v - term.from) % term.step = 0}

IsAny(field) == field = {}

ParseField(field, kind) ==
  {ValueBit(v, kind) : v \in IF IsAny(field) THEN Bounds(kind)[1] .. Bounds(kind)[2] ELSE UNION {Steps(term) : term \in field}}

Parses(e) == \A kind \in DOMAIN e : \A term \in e[kind] : TermParses(term, kind)

Parse(e) ==
  [minute |-> ParseField(e.minute, "minute"), hour |-> ParseField(e.hour, "hour"), dom |-> ParseField(e.dom, "dom"),
   month |-> ParseField(e.month, "month"), dow |-> ParseField(e.dow, "dow"), domAny |-> IsAny(e.dom), dowAny |-> IsAny(e.dow)]

-----------------------------------------------------------------------------
(* The clock of a zone.                                                    *)

Offset(z, t) == IF t < z.at THEN z.before ELSE z.after
Local(z, t) == t + Offset(z, t)

\* time.Date: an instant that reads as the local minute, if there is one, and a neighbour of the change otherwise.
DateAt(z, minute) ==
  LET fits == {o \in {z.before, z.after} : Offset(z, minute - o) = o}
  IN minute - (IF Cardinality(fits) = 1 THEN CHOOSE o \in fits : TRUE ELSE z[z.picks])

-----------------------------------------------------------------------------
(* The search.  Days are numbered.                                         *)

DayOf(minute) == minute \div Day

\* Mutant: the weekday is read at midnight, which a change of the clock may move into the day before.
WeekdayAtMidnight(date) == DayOf(Local(zone, DateAt(zone, date * Day))) % Week

\* weekday: read at noon.
Weekday(date) == DayOf(Local(zone, DateAt(zone, date * Day + Day \div 2))) % Week

\* Mutant: both days have to match.
DaysAgreeBoth(domHit, dowHit) == domHit /\ dowHit

\* POSIX: when both fields are restricted one of them is enough.
DaysAgree(domHit, dowHit) ==
  CASE schedule.domAny /\ schedule.dowAny -> TRUE
    [] schedule.domAny -> dowHit
    [] schedule.dowAny -> domHit
    [] OTHER -> domHit \/ dowHit

DateMatches(date) ==
  LET c == Calendar[(date % Cycle) + 1]
  IN c[1] \in schedule.month /\ DaysAgree(c[2] \in schedule.dom, Weekday(date) \in schedule.dow)

\* Mutant: a local minute that does not exist fires at the instant it is taken for.
ExistsAssumed(minute, t) == TRUE

\* The clock at that instant is compared with the minute that was asked for.
Exists(minute, t) == Local(zone, t) % Day = minute % Day

\* firstInDay: the first minute of the day, by the local clock, whose instant is later.
InDay(date, after) ==
  {minute \in date * Day .. date * Day + Day - 1 :
     /\ (minute % Day) \div Minutes \in schedule.hour /\ minute % Minutes \in schedule.minute
     /\ DateAt(zone, minute) > after
     /\ Exists(minute, DateAt(zone, minute))}

\* Mutant: the next day is the one that its local midnight falls into.
FollowsMidnight(date, n) == DayOf(Local(zone, DateAt(zone, (date + n) * Day)))

\* addDays, by the calendar and not by the clock.
Follows(date, n) == date + n

\* Next: the first day with an occurrence, from that of the following minute on.
NextFire(after) ==
  LET first == DayOf(Local(zone, after + 1))
      Fires(n) == DateMatches(Follows(first, n)) /\ InDay(Follows(first, n), after) # {}
  IN IF \E n \in 0 .. MaxScanDays - 1 : Fires(n)
     THEN LET n == CHOOSE n \in 0 .. MaxScanDays - 1 : Fires(n) /\ \A m \in 0 .. n - 1 : ~Fires(m)
          IN DateAt(zone, Earliest(InDay(Follows(first, n), after)))
     ELSE None

\* The occurrences one after the other, as far as Due follows them.
Following(after) ==
  LET fire[n \in 0 .. MaxCatchUpSteps] ==
        IF n = 0 THEN after ELSE IF fire[n - 1] = None THEN None ELSE NextFire(fire[n - 1])
  IN fire

\* Mutant: the first occurrence that was missed is caught up.
CaughtUpFirst(fires, missed) == fires[1]

CaughtUp(fires, missed) == fires[Cardinality(missed)]

\* Due: the last occurrence up to now; after too many of them only the last minute is looked at.
Due(from, now) ==
  LET fires == Following(from)
      missed == {n \in 1 .. MaxCatchUpSteps : fires[n] # None /\ fires[n] <= now}
      fails == \E n \in 1 .. MaxCatchUpSteps : fires[n] = None /\ fires[n - 1] \in 1 .. now
      full == Cardinality(missed) = MaxCatchUpSteps
      last == NextFire(now - 1)
  IN IF missed = {} \/ fails \/ (full /\ last = None) THEN None
     ELSE IF full /\ last = now THEN now
     ELSE CaughtUp(fires, missed)

-----------------------------------------------------------------------------
CalendarInit ==
  /\ zone \in Zone
  /\ expression \in {e \in Expression : Parses(e)}
  /\ schedule = Parse(expression)
  /\ cursor = Day

\* A cursor may begin at any instant.
Pass ==
  /\ cursor < Horizon /\ cursor' = cursor + 1
  /\ UNCHANGED <<zone, expression, schedule>>

\* The producer goes from occurrence to occurrence.
Fire ==
  /\ NextFire(cursor) # None /\ NextFire(cursor) <= Horizon
  /\ cursor' = NextFire(cursor)
  /\ UNCHANGED <<zone, expression, schedule>>

CalendarNext == Pass \/ Fire

CalendarSpec == CalendarInit /\ [][CalendarNext]_calendarVars

-----------------------------------------------------------------------------
(* Properties.                                                             *)

\* A value that a field names, "*" naming every one.
Named(v, field) == IsAny(field) \/ \E term \in field, k \in 0 .. Day : v = term.from + k * term.step /\ v <= term.to

\* The local clock shows a minute that the expression asks for.  Restricted days of the month and of the week add up.
Shows(t) ==
  LET minute == Local(zone, t)
      date == DayOf(minute)
      c == Calendar[(date % Cycle) + 1]
      onDay == Named(c[2], expression.dom)
      onWeekday == \E w \in {date % Week, (date % Week) + Week} : w <= Week /\ Named(w, expression.dow)
  IN /\ Named(minute % Minutes, expression.minute) /\ Named((minute % Day) \div Minutes, expression.hour)
     /\ Named(c[1], expression.month)
     /\ IF IsAny(expression.dom) \/ IsAny(expression.dow) THEN onDay /\ onWeekday ELSE onDay \/ onWeekday

\* Such a minute is an occurrence; when the clock shows it twice, one of the two is.
Occurrence(t) == Shows(t) /\ DateAt(zone, Local(zone, t)) = t

\* Next misses no occurrence, makes none up and repeats none, across a change of the clock, at midnight too, and across
\* the years without a 29th of February (cron.go:47-51 "4 年上界会误报"): it is the first instant after the one given.
NextIsFirst ==
  LET next == NextFire(cursor)
      last == IF next = None THEN cursor + (MaxScanDays - 2) * Day ELSE next - 1
  IN /\ next # None => cursor < next /\ Occurrence(next)
     /\ \A t \in cursor + 1 .. last : ~Occurrence(t)

\* Due is the last occurrence that was missed (cron.go:212 "区间内**最后一个**触发时刻"), as long as those missed can be
\* counted; beyond that it is the last minute, or the last one counted.
DueIsLatest ==
  \A d \in Outage :
    LET missed == {t \in cursor + 1 .. cursor + d : Occurrence(t)}
        due == Due(cursor, cursor + d)
    IN IF missed = {} THEN due = None
       ELSE IF Cardinality(missed) <= MaxCatchUpSteps THEN due = Latest(missed)
       ELSE due = cursor + d \/ Cardinality({t \in missed : t <= due}) = MaxCatchUpSteps

\* The calendar together.
CalendarHolds == NextIsFirst /\ DueIsLatest
===============================================================================
