----------------------------- MODULE Recurrence -----------------------------
(***************************************************************************)
(* When a scheduled item fires: the recurrences of assistant-scheduler,    *)
(* the wall clock of a time zone with its gaps and overlaps, the wire form *)
(* a turn sends, and the item as it is created, revised and fired.  Time   *)
(* is counted in minutes; a date is a number of days.                      *)
(***************************************************************************)
EXTENDS Integers, Sequences, SequencesExt, FiniteSets

CONSTANTS HoursPerDay, MinutesPerHour,
          MonthLengths,             \* days of the months, which repeat
          Zones,                    \* time zones: name -> [base, changes], see OffsetAt
          ScanDays,                 \* how far calendar_match looks
          Payloads,                 \* what turns send: see resolve_timing
          Revised,                  \* the payloads an item is revised to
          Instants,                 \* times of creation
          MaxFires, MaxRevisions    \* bounds

VARIABLES meta,                     \* the item, or NoItem
          anchor                    \* history: what process_after was computed from

recurrenceVars == <<meta, anchor>>

NoItem == [status |-> "none"]
Day == HoursPerDay * MinutesPerHour

-----------------------------------------------------------------------------
(* Calendar and clock, of the chrono libraries *)

Weekday(date) == date % 7

MonthStart(i) == FoldLeft(LAMBDA sum, n : sum + n, 0, SubSeq(MonthLengths, 1, i - 1))
YearLength == MonthStart(Len(MonthLengths) + 1)
MonthOf(date) ==
    CHOOSE i \in DOMAIN MonthLengths :
        MonthStart(i) <= date % YearLength /\ date % YearLength < MonthStart(i + 1)
DayOfMonth(date) == (date % YearLength) - MonthStart(MonthOf(date)) + 1
days_in_month(date) == MonthLengths[MonthOf(date)]

\* The offset in force: that of the last change.
OffsetAt(tz, u) ==
    LET past == {i \in DOMAIN Zones[tz].changes : Zones[tz].changes[i].at <= u}
    IN IF past = {} THEN Zones[tz].base ELSE Zones[tz].changes[Max(past)].offset

LocalDate(tz, u) == (u + OffsetAt(tz, u)) \div Day
LocalTime(tz, u) == (u + OffsetAt(tz, u)) % Day

\* The instants at which the clock of a zone reads a local time: none in a
\* gap, two in an overlap.
from_local_datetime(tz, naive) ==
    LET offsets == {Zones[tz].base} \union {Zones[tz].changes[i].offset : i \in DOMAIN Zones[tz].changes}
    IN {u \in {naive - o : o \in offsets} : u + OffsetAt(tz, u) = naive}

-----------------------------------------------------------------------------
(* Recurrences: [kind, seconds], or [kind, time, tz] with weekdays or day *)

validate_minute_of_day(time) == time < Day
validate_tz(tz) == tz \in DOMAIN Zones

validate(rec) ==
    IF rec.kind = "every" THEN rec.seconds > 0
    ELSE /\ rec.kind = "weekly" => rec.weekdays # {}
         /\ rec.kind = "monthly" => rec.day \in 1 .. 31
         /\ validate_minute_of_day(rec.time) /\ validate_tz(rec.tz)

clamp_day(day, date) == Min({day, days_in_month(date)})

date_qualifies(rec, date) ==
    CASE rec.kind = "weekly" -> Weekday(date) \in rec.weekdays
      [] rec.kind = "monthly" -> DayOfMonth(date) = clamp_day(rec.day, date)
      [] OTHER -> TRUE

(* Mutant: of an overlap the later instant. *)
MutantLater(tz, date, time) ==
    LET naive == date * Day + time
        found == from_local_datetime(tz, naive)
        shifted == from_local_datetime(tz, naive + MinutesPerHour)
    IN IF found # {} THEN {Max(found)}
       ELSE IF Cardinality(shifted) = 1 THEN shifted ELSE {}

\* An overlap takes the earlier instant, a gap is stepped over by an hour.
resolve_local(tz, date, time) ==
    LET naive == date * Day + time
        found == from_local_datetime(tz, naive)
        shifted == from_local_datetime(tz, naive + MinutesPerHour)
    IN IF found # {} THEN {Min(found)}
       ELSE IF Cardinality(shifted) = 1 THEN shifted ELSE {}

\* The scan goes forward day by day, from the local date.
calendar_match(rec, from, inclusive) ==
    LET start == LocalDate(rec.tz, from)
        hits(date) == {u \in resolve_local(rec.tz, date, rec.time) :
                         date_qualifies(rec, date) /\ (u > from \/ (inclusive /\ u = from))}
        dates == {date \in start .. start + ScanDays - 1 : hits(date) # {}}
    IN IF dates = {} THEN {} ELSE hits(Min(dates))

\* What follows an occurrence is computed from its time, not from when it ran.
next_after(rec, scheduled) ==
    IF rec.kind = "every" THEN scheduled + rec.seconds
    ELSE LET match == calendar_match(rec, scheduled, FALSE)
         IN IF match = {} THEN scheduled + Day ELSE CHOOSE u \in match : TRUE

first_on_or_after(rec, now) == IF rec.kind = "every" THEN {} ELSE calendar_match(rec, now, TRUE)

-----------------------------------------------------------------------------
(* The wire form: a time is <<hour, minute>>, or <<>> when it does not parse. *)

parse_hhmm(at) ==
    IF Len(at) # 2 \/ at[1] >= HoursPerDay \/ at[2] >= MinutesPerHour THEN {}
    ELSE {at[1] * MinutesPerHour + at[2]}

WeekdayNames == <<"mon", "tue", "wed", "thu", "fri", "sat", "sun">>

parse_weekdays(days) ==
    IF days \subseteq Range(WeekdayNames) THEN {{i - 1 : i \in {j \in 1 .. 7 : WeekdayNames[j] \in days}}} ELSE {}

calendar_to_recurrence(spec) ==
    CASE spec.kind = "daily" -> {[kind |-> "daily", time |-> t, tz |-> spec.tz] : t \in parse_hhmm(spec.at)}
      [] spec.kind = "weekly" ->
           {[kind |-> "weekly", time |-> t, tz |-> spec.tz, weekdays |-> w] :
              t \in parse_hhmm(spec.at), w \in parse_weekdays(spec.days)}
      [] spec.kind = "monthly" ->
           {[kind |-> "monthly", time |-> t, tz |-> spec.tz, day |-> spec.day] : t \in parse_hhmm(spec.at)}

\* A calendar decides the first fire, otherwise the delay does; the result is
\* a set of at most one <<first, recurrences>>.
resolve_timing(payload, now) ==
    IF payload.calendar # {}
    THEN UNION {{<<first, {rec}>> : first \in first_on_or_after(rec, now)} :
                  rec \in {r \in UNION {calendar_to_recurrence(s) : s \in payload.calendar} : validate(r)}}
    ELSE {<<now + payload.after_seconds, {[kind |-> "every", seconds |-> s] : s \in payload.every_seconds}>>}

-----------------------------------------------------------------------------
(* Items *)

Revision(n, at, recurrence) == [revision |-> n, process_after |-> at, recurrence |-> recurrence]

create(payload, now) ==
    /\ meta = NoItem
    /\ \E timing \in resolve_timing(payload, now) :
         /\ \A rec \in timing[2] : validate(rec)
         /\ meta' = [status |-> "active", process_after |-> timing[1], recurrence |-> timing[2],
                     occurrence_seq |-> 0, revisions |-> <<Revision(1, timing[1], timing[2])>>]
    /\ anchor' = [kind |-> "created", at |-> now]

\* pending_occurrence is at process_after, whatever the time is now.
pending_occurrence ==
    IF meta.status # "active" THEN {}
    ELSE {[sequence |-> meta.occurrence_seq + 1, scheduled_for |-> meta.process_after]}

record_fired(occurrence) ==
    /\ meta' = IF meta.recurrence = {}
               THEN [meta EXCEPT !.occurrence_seq = occurrence.sequence, !.status = "completed"]
               ELSE [meta EXCEPT !.occurrence_seq = occurrence.sequence,
                                 !.process_after = next_after(CHOOSE rec \in meta.recurrence : TRUE,
                                                              occurrence.scheduled_for)]
    /\ anchor' = [kind |-> "fired", at |-> occurrence.scheduled_for]

Fire ==
    \E occurrence \in pending_occurrence : occurrence.sequence <= MaxFires /\ record_fired(occurrence)

\* The new fields take effect and are appended to the history; an item that is
\* over is left alone.
update(at, recurrence) ==
    /\ meta # NoItem /\ meta.status # "completed"
    /\ Len(meta.revisions) < MaxRevisions
    /\ \A rec \in recurrence : validate(rec)
    /\ meta' = [meta EXCEPT !.process_after = at, !.recurrence = recurrence,
                            !.revisions = Append(@, Revision(Len(@) + 1, at, recurrence))]
    /\ anchor' = [kind |-> "revised", at |-> at]

RecurrenceInit == meta = NoItem /\ anchor = [kind |-> "none"]

RecurrenceNext ==
    \/ \E payload \in Payloads, now \in Instants : create(payload, now)
    \/ Fire
    \/ \E payload \in Revised, at \in Instants :
         \E timing \in resolve_timing(payload, at) : update(timing[1], timing[2])

-----------------------------------------------------------------------------
(* What the constants stand for *)

OffsetIn(tz, i) == IF i = 0 THEN Zones[tz].base ELSE Zones[tz].changes[i].offset
ChangeAt(tz, i) == Zones[tz].changes[i].at

\* What the clock would read, and reads, when it is changed; a change forward
\* leaves a gap between the two.
ReadsBefore(tz, i) == ChangeAt(tz, i) + OffsetIn(tz, i - 1)
ReadsAfter(tz, i) == ChangeAt(tz, i) + OffsetIn(tz, i)

\* Changes are further apart than they move the clock, and none sets it back
\* by more than a day.
IsClock(tz) ==
    /\ Zones[tz].base \in Int /\ Zones[tz].changes \in Seq([at : Int, offset : Int])
    /\ \A i \in DOMAIN Zones[tz].changes :
         /\ ReadsBefore(tz, i) - ReadsAfter(tz, i) <= Day
         /\ \A j \in DOMAIN Zones[tz].changes : i < j =>
              /\ ChangeAt(tz, i) < ChangeAt(tz, j)
              /\ \A x \in {ReadsBefore(tz, i), ReadsAfter(tz, i)},
                    y \in {ReadsBefore(tz, j), ReadsAfter(tz, j)} : x <= y

GapDates(tz) ==
    UNION {(ReadsBefore(tz, i) \div Day) .. (ReadsAfter(tz, i) \div Day) : i \in DOMAIN Zones[tz].changes}

\* Every stretch of days that is scanned has a firing day that the zone does
\* not lose to a gap: those at a lost day, and those that begin in any seven
\* years, after which weekdays and months repeat.
ScanSuffices(rec) ==
    LET lost == {d \in GapDates(rec.tz) : resolve_local(rec.tz, d, rec.time) = {}} IN
    \A date \in 0 .. 7 * YearLength - 1 \union UNION {d - ScanDays .. d : d \in lost} :
       \E d \in date + 2 .. date + ScanDays - 1 :
          date_qualifies(rec, d) /\ resolve_local(rec.tz, d, rec.time) # {}

CalendarRecurrences ==
    {rec \in UNION {UNION {calendar_to_recurrence(s) : s \in payload.calendar} :
                      payload \in Payloads \union Revised} : validate(rec)}

ASSUME RecurrenceAssumption ==
    /\ HoursPerDay \in Nat \ {0, 1} /\ MinutesPerHour \in Nat \ {0}
    /\ YearLength \in Nat \ {0} /\ ScanDays \in Nat /\ Instants \subseteq Int
    /\ \A tz \in DOMAIN Zones : IsClock(tz)
    /\ \A rec \in CalendarRecurrences :
         rec.kind # "every" => rec.time \in Nat /\ ScanSuffices(rec)

-----------------------------------------------------------------------------
(* Properties *)

\* The instant at which a calendar recurrence is due for a date: the clock
\* reads the time of a firing day, for the first time; or, when that day never
\* has the time, an hour more, which may be past its midnight.
DueFor(rec, date, u) ==
    LET reads(time) == from_local_datetime(rec.tz, date * Day + time)
    IN /\ date_qualifies(rec, date)
       /\ \/ u \in reads(rec.time) /\ \A v \in reads(rec.time) : u <= v
          \/ reads(rec.time) = {} /\ reads(rec.time + MinutesPerHour) = {u}

\* The dates that an instant can be due for.
DatesOf(tz, u) == {LocalDate(tz, u) - 1, LocalDate(tz, u)}

\* The calendar recurrences of an item whose next time is computed by the code
\* from when it was created or last fired.
Computed ==
    IF meta # NoItem /\ meta.status = "active" /\ anchor.kind \in {"created", "fired"}
    THEN {rec \in meta.recurrence : rec.kind # "every"} ELSE {}

\* Across changes of the clock, month ends and late fires, the next time of a
\* calendar item is due for a date that is no earlier than the day it was
\* created or last fired, nothing due for such a date was passed over since,
\* and no date is fired for twice (calendar_match, resolve_local and
\* record_fired, which goes on from the scheduled time).
CalendarCadence ==
    \A rec \in Computed :
      LET next == meta.process_after
          today == LocalDate(rec.tz, anchor.at)
          earliest == IF anchor.kind = "created" THEN anchor.at ELSE anchor.at + 1
      IN /\ next >= earliest
         /\ \E date \in DatesOf(rec.tz, next) : date >= today /\ DueFor(rec, date, next)
         /\ \A u \in earliest .. next - 1 : \A date \in DatesOf(rec.tz, u) :
               date >= today => ~DueFor(rec, date, u)
         /\ anchor.kind = "fired" =>
               \A fired \in DatesOf(rec.tz, anchor.at), date \in DatesOf(rec.tz, next) :
                  DueFor(rec, fired, anchor.at) /\ DueFor(rec, date, next) => fired < date

\* "A nonexistent time (spring-forward gap) shifts forward an hour so a reminder
\* still fires that day" (model.rs:262).  The code does not keep it when the gap
\* reaches the end of the day: the hour more is on the next one.
FiresThatDay ==
    \A rec \in Computed : DueFor(rec, LocalDate(rec.tz, meta.process_after), meta.process_after)
=============================================================================
