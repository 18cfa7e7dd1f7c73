-------------------------------- MODULE Dates --------------------------------
(***************************************************************************)
(* Dates and times as users write them (util/datetime), and the moment for *)
(* which the command remind takes them. A text is the phrases the grammar  *)
(* reads in it (with a word that it ignores between two it would read as   *)
(* one): each calls setters of the lexer as it is read, and resolve applies*)
(* what was set to the moment the text is said. A moment is a day, counted *)
(* from Monday 1 January of year 1, and an hour: minutes, seconds and zones*)
(* are left out, and so are tokens and texts that the grammar refuses.     *)
(***************************************************************************)
EXTENDS Integers, FiniteSets, Sequences

CONSTANTS
    Phrase,       \* bound: the phrases that are said, each of a rule of the grammar
    Today,        \* bound: the moments at which a text is said
    MaxPhrases(_) \* bound: by moment, the phrases in a text

Units == {"hour", "day", "month", "year"}
Moment == [day : Int, hour : 0 .. 23]

\* What the rules of the grammar read. A number is not signed but before a day of the week or
\* a unit; the names of days, months and numbers ("last" is -1) are tokens; a year of 0 is none.
IsPhrase(p) ==
    CASE p.kind = "clock" -> p.hour \in Nat
      [] p.kind \in {"half", "minutes"} -> p.hour \in Nat /\ p.half \in {0, 12}
      [] p.kind = "ansi" -> p.hour \in Nat /\ p.year \in Nat
      [] p.kind = "date" -> p.year \in Nat /\ p.month \in Nat /\ p.day \in Nat
      [] p.kind = "the" -> p.day \in Nat
      [] p.kind = "week" -> p.year \in Nat /\ p.week \in Nat /\ p.wday \in Nat
      [] p.kind = "weekday" -> p.num \in Int /\ p.weekday \in 0 .. 6
      [] p.kind = "month" -> p.num \in Int /\ p.month \in 1 .. 12
      [] p.kind = "nth" -> /\ p.nth \in Nat /\ p.weekday \in 0 .. 6
                           /\ p.month \in 0 .. 12 /\ p.num \in Int /\ p.year \in Nat
                           /\ p.month = 0 \/ p.year # 0 => p.num = 0
      [] p.kind = "offset" -> p.unit \in Units /\ p.num \in Int /\ p.ago \in BOOLEAN
      [] OTHER -> FALSE

ASSUME DatesAssumption ==
    /\ \A t \in Today : t \in Moment /\ MaxPhrases(t) \in Nat
    /\ \A p \in Phrase : IsPhrase(p)

-----------------------------------------------------------------------------
(* Go's calendar, which takes any month and day and carries what is over.  *)

Leap(y) == y % 4 = 0 /\ (y % 100 # 0 \/ y % 400 = 0)
YearStart(y) == 365 * (y - 1) + (y - 1) \div 4 - (y - 1) \div 100 + (y - 1) \div 400
MonthStart == <<0, 31, 59, 90, 120, 151, 181, 212, 243, 273, 304, 334>>

FirstOf(y, m) == YearStart(y) + MonthStart[m] + (IF m > 2 /\ Leap(y) THEN 1 ELSE 0)

DayOf(y, m, d) == FirstOf(y + (m - 1) \div 12, ((m - 1) % 12) + 1) + d - 1

\* 400 years have 146097 days, a year and a month not much more or fewer than others.
DateOf(n) ==
    LET about == (400 * n) \div 146097 + 1
        y == CHOOSE k \in about - 1 .. about + 1 : YearStart(k) <= n /\ n < YearStart(k + 1)
        m0 == (n - YearStart(y)) \div 31 + 1
        m == IF m0 < 12 /\ FirstOf(y, m0 + 1) <= n THEN m0 + 1 ELSE m0
    IN [year |-> y, month |-> m, day |-> n - FirstOf(y, m) + 1]

AddDate(at, y, m, d) == DayOf(at.year + y, at.month + m, at.day + d)

\* Sunday is 0.
Weekday(n) == (n + 1) % 7
Thursday == 4

\* Go's %, whose result has the sign of k.
Rem(k, n) == IF k < 0 THEN -((-k) % n) ELSE k % n

-----------------------------------------------------------------------------
(* The setters. The second of two settings is an error, which parse never  *)
(* reports; it is ignored, but a second day of the week replaces the first.*)

\* A year of 0 is none.
DateLexer == [time |-> 0, date |-> 0, day |-> 0, offsets |-> [x \in Units |-> 0],
              days |-> [weekday |-> 0, num |-> 0, year |-> 0],
              months |-> [month |-> 0, num |-> 0, year |-> 0], states |-> {}]

Have(l, s) == s \in l.states
AbsYear(year, s) == IF year = 0 THEN {} ELSE {s}

SetTime(l, h) == IF Have(l, "time") THEN l
                 ELSE [l EXCEPT !.time = h % 24, !.states = @ \cup {"time"}]

SetDate(l, y, m, d) == IF Have(l, "date") THEN l
                       ELSE [l EXCEPT !.date = DayOf(y, m, d), !.states = @ \cup {"date"}]

SetDay(l, d) == IF Have(l, "day") THEN l ELSE [l EXCEPT !.day = d, !.states = @ \cup {"day"}]

SetDays(l, d, n, year) ==
    [l EXCEPT !.days = [weekday |-> d, num |-> n, year |-> year],
              !.states = @ \cup {"days"} \cup AbsYear(year, "day-year")]

SetMonths(l, m, n, year) ==
    IF Have(l, "months") THEN l
    ELSE [l EXCEPT !.months = [month |-> m, num |-> n, year |-> year],
                   !.states = @ \cup {"months"} \cup AbsYear(year, "month-year")]

\* setWeek: of an ISO week, whose days are 1 (Monday) to 7.
SetWeek(l, year, week, wday) ==
    LET sunday0 == Weekday(DayOf(year, 1, 4))
        jan4 == IF sunday0 = 0 THEN 7 ELSE sunday0
    IN SetDate(l, year, 1, week * 7 + wday - jan4 - 3)

SetYear(l, year) ==
    CASE Have(l, "date") -> LET at == DateOf(l.date)
                            IN [l EXCEPT !.date = DayOf(year, at.month, at.day)]
      [] ~Have(l, "date") /\ Have(l, "months") ->
            [l EXCEPT !.months.year = year, !.states = @ \cup {"month-year"}]
      [] OTHER -> [l EXCEPT !.days.year = year, !.states = @ \cup {"day-year"}]

AddOffset(l, off, rel) == [l EXCEPT !.offsets[off] = @ + rel, !.states = @ \cup {"offset"}]

\* setAgo turns round every offset so far.
SetAgo(l) == IF Have(l, "ago") THEN l
             ELSE [l EXCEPT !.offsets = [x \in Units |-> -l.offsets[x]], !.states = @ \cup {"ago"}]

AmPm(hour, off) == CASE hour + off = 12 -> 0 [] hour + off = 24 -> 12 [] OTHER -> hour + off

\* A year of two digits.
Century(y) == IF y = 0 \/ y > 99 THEN y ELSE IF y > 68 THEN y + 1900 ELSE y + 2000

\* The rules of datetime.y: a phrase sets fields.
Reads(l, p) ==
    CASE p.kind = "clock" -> SetTime(l, p.hour)                 \* 17:00, midnight
      [] p.kind = "half" -> SetTime(l, AmPm(p.hour, p.half))    \* 5pm
      [] p.kind = "minutes" -> SetTime(l, p.hour + p.half) \* 5:30pm
      [] p.kind = "ansi" -> SetYear(SetTime(l, p.hour), p.year) \* 17:00:00 2016
      [] p.kind = "date" -> SetDate(l, Century(p.year), p.month, p.day)
      [] p.kind = "the" -> SetDay(l, p.day)                     \* the 3rd
      [] p.kind = "week" -> SetWeek(l, p.year, p.week, p.wday)  \* 2016-W01-5
      [] p.kind = "weekday" -> SetDays(l, p.weekday, p.num, 0)  \* next tuesday
      [] p.kind = "month" -> SetMonths(l, p.month, p.num, 0)    \* last march
      [] p.kind = "nth" /\ p.month = 0 /\ p.year # 0 ->         \* 3rd tuesday of 2016
            SetDays(l, p.weekday, p.nth, p.year)
      [] p.kind = "nth" /\ ~(p.month = 0 /\ p.year # 0) ->      \* ... [of [next] march [2016]]
            SetMonths(SetDays(l, p.weekday, p.nth, 0), p.month, p.num, p.year)
      [] OTHER -> LET added == AddOffset(l, p.unit, p.num)     \* 2 days ago
                  IN IF p.ago THEN SetAgo(added) ELSE added

-----------------------------------------------------------------------------
(* resolve, which goes through what was set in one order.                  *)

ResolveTime(l, t) == [t EXCEPT !.hour = l.time]

\* A date without a year is one of the year 0, but for a day or month too many or too few.
ResolveDate(l, t) ==
    LET at == DateOf(l.date)
        y == IF at.year = 0 THEN DateOf(t.day).year ELSE at.year
    IN [t EXCEPT !.day = DayOf(y, at.month, at.day)]

ResolveDay(l, t) == LET at == DateOf(t.day) IN [t EXCEPT !.day = DayOf(at.year, at.month, l.day)]

ResolveOffset(l, t) ==
    LET h == t.hour + l.offsets["hour"]
        n == AddDate(DateOf(t.day), l.offsets["year"], l.offsets["month"], l.offsets["day"])
    IN [day |-> n + h \div 24, hour |-> h % 24]

\* A mutant: today's day of the week is already past.
WeeksFromEager(num, diff) == IF diff <= 0 /\ num <= 0 THEN num + 1
                             ELSE IF diff > 0 /\ num > 0 THEN num - 1 ELSE num
WeeksFrom(num, diff) == IF diff < 0 /\ num <= 0 THEN num + 1
                        ELSE IF diff > 0 /\ num > 0 THEN num - 1 ELSE num
DayOffset(l, n) == LET diff == l.days.weekday - Weekday(n)
                   IN n + WeeksFrom(l.days.num, diff) * 7 + diff

YearsFrom(num, diff) == IF diff < 0 /\ num < 0 THEN num + 1
                        ELSE IF diff > 0 /\ num > 0 THEN num - 1 ELSE num
MonthOffset(month, num, at) ==
    LET diff == month - at.month
    IN AddDate(at, 0, IF num = 0 THEN Rem(diff + 5, 12) - 5 ELSE YearsFrom(num, diff) * 12 + diff, 0)

Panic == [error |-> "oh fuck this is too complicated :-("]

\* resolveDMY: a weekday is counted from there, the nth of a month from the day before its first.
CountedFrom(l, at) ==
    LET have == l.states \cap {"days", "day-year", "months", "month-year"}
        month == IF l.months.month = 0 THEN at.month ELSE l.months.month
        moved == DateOf(MonthOffset(month, l.months.num, at))
        On(y, m, d) == [year |-> y, month |-> m, day |-> d]
    IN CASE have = {"month-year", "months"} -> On(l.months.year, l.months.month, at.day)
         [] have = {"day-year", "days"} -> On(l.days.year, 1, 0)
         [] have = {"month-year", "months", "days"} -> On(l.months.year, l.months.month, 0)
         [] have = {"days"} -> at
         [] have = {"months"} -> moved
         [] have = {"months", "days"} -> On(moved.year, moved.month, 0)
         [] have = {"month-year"} -> On(l.months.year, at.month, at.day)
         [] have = {"day-year"} -> On(l.days.year, at.month, at.day)
         [] OTHER -> Panic
ResolveDMY(l, t) ==
    LET from == CountedFrom(l, DateOf(t.day))
        n == DayOf(from.year, from.month, from.day)
    IN IF from = Panic THEN Panic
       ELSE [t EXCEPT !.day = IF Have(l, "days") THEN DayOffset(l, n) ELSE n]

Conflict == [error |-> "multiple conflicting absolute dates"]

\* The stages of resolve.
Timed(l, t) == IF Have(l, "time") THEN ResolveTime(l, t) ELSE t
Dated(l, t) == IF Have(l, "date") THEN ResolveDate(l, t) ELSE t
OnDay(l, t) == IF Have(l, "day") THEN ResolveDay(l, t) ELSE t
Moved(l, t) == IF Have(l, "offset") THEN ResolveOffset(l, t) ELSE t
DMY == {"days", "months", "day-year", "month-year"}
Counted(l, t) == IF l.states \cap DMY = {} THEN t ELSE ResolveDMY(l, t)

Resolve(l, now) ==
    LET years == l.states \cap {"day-year", "month-year"}
    IN IF years # {} /\ (Have(l, "date") \/ Cardinality(years) = 2) THEN Conflict
       ELSE Counted(l, Moved(l, OnDay(l, Dated(l, Timed(l, now)))))

NoDates == [error |-> "no dates parsed from input"]

\* parse, when the lexer has read a text.
Parsed(l, now) == IF l.states = {} THEN NoDates ELSE Resolve(l, now)

Before(t, t2) == t.day < t2.day \/ (t.day = t2.day /\ t.hour < t2.hour)

InThePast == [error |-> "in the past"]

\* The command remind: for when a reminder is stored. What was earlier today is tomorrow.
RemindAt(at, now) ==
    LET start == [day |-> now.day, hour |-> 0]
        moved == IF Before(at, now) /\ Before(start, at) THEN [at EXCEPT !.day = @ + 1] ELSE at
    IN IF Before(moved, now) THEN InThePast ELSE moved

-----------------------------------------------------------------------------
VARIABLES
    today,   \* when the text is said
    lexer,   \* what was set by the phrases read so far
    spoken   \* history: those phrases
datesVars == <<today, lexer, spoken>>

DatesInit == today \in Today /\ lexer = DateLexer /\ spoken = <<>>

DatesNext ==
    /\ Len(spoken) < MaxPhrases(today)
    /\ \E p \in Phrase : lexer' = Reads(lexer, p) /\ spoken' = Append(spoken, p)
    /\ UNCHANGED today

DatesSpec == DatesInit /\ [][DatesNext]_datesVars

-----------------------------------------------------------------------------
(* What a text means, without the lexer: its phrase p is said at t, which is *)
(* of the date d, and gives r, of the date e.                                *)

MonthIndex(d) == d.year * 12 + d.month - 1
\* Some months lack the other days: Go then goes on to the next.
InAllMonths(d) == d.day <= 28

Hourly == {"clock", "half", "minutes"}
\* 12am is midnight and 12pm midday (lexer.go:90); with minutes the code has them the other way round.
HourMeant(p) == IF p.kind = "clock" THEN p.hour % 24 ELSE (p.hour % 12) + p.half
Twelve(p) == p.kind # "clock" => p.hour \in 1 .. IF p.kind = "minutes" THEN 11 ELSE 12
IsHour(p, t, r) == Twelve(p) => r.day = t.day /\ r.hour = HourMeant(p)

\* Of a date that there is.
IsDate(p, d, e) ==
    LET year == IF p.year = 0 THEN d.year ELSE Century(p.year)
        last == CASE p.month = 2 -> (IF Leap(year) THEN 29 ELSE 28) [] p.month \in {4, 6, 9, 11} -> 30 [] OTHER -> 31
        real == p.month \in 1 .. 12 /\ p.day \in 1 .. last
    IN real => e = [year |-> year, month |-> p.month, day |-> p.day]

IsThe(p, d, e) == p.day \in 1 .. 28 => e = [d EXCEPT !.day = p.day]

\* The week of a year is that of its Thursday; some years have 53.
LastWeek(year) == IF Thursday \in {Weekday(YearStart(year)), Weekday(YearStart(year + 1) - 1)} THEN 53 ELSE 52
IsWeek(p, r) ==
    LET thursday == r.day - p.wday + 4
    IN p.year # 0 /\ p.week \in 1 .. LastWeek(p.year) /\ p.wday \in 1 .. 7 =>
       /\ Weekday(r.day) = p.wday % 7 /\ DateOf(thursday).year = p.year
       /\ (thursday - YearStart(p.year)) \div 7 = p.week - 1

\* The nth of some days or months after x, the coming one from x on, or the nth before it.
Nth(n, x, r, Is(_)) ==
    /\ Is(r)
    /\ n > 0 => Cardinality({k \in x + 1 .. r : Is(k)}) = n
    /\ n < 0 => Cardinality({k \in r .. x - 1 : Is(k)}) = -n

\* "this" day is the coming one, or today.
IsWeekday(p, t, r) ==
    /\ Nth(p.num, t.day, r.day, LAMBDA k : Weekday(k) = p.weekday)
    /\ p.num = 0 => r.day \in t.day .. t.day + 6

\* "this" month is the closest, with six months in the future preferred, unless that is in
\* the next year: in December "january" is last January.
MeansMonth(month, num, x, r) ==
    /\ Nth(num, x, r, LAMBDA k : (k % 12) + 1 = month)
    /\ num = 0 => r - x \in -5 .. 6 \/ (r \div 12 = x \div 12 /\ x - r > 5)
IsMonth(p, d, e) == InAllMonths(d) => MeansMonth(p.month, p.num, MonthIndex(d), MonthIndex(e)) /\ e.day = d.day

\* An nth day of the week of a month or year, which may lie beyond it.
IsNth(p, d, r) ==
    LET now == MonthIndex(d)
        span == 12 * (IF p.num < 0 THEN 1 - p.num ELSE 1 + p.num)
        months == CASE p.year # 0 -> {p.year * 12 + (IF p.month = 0 THEN 0 ELSE p.month - 1)}
                    [] p.year = 0 /\ p.month = 0 -> {now}
                    [] OTHER -> {m \in now - span .. now + span : MeansMonth(p.month, p.num, now, m)}
    IN p.month = 0 \/ p.year # 0 \/ InAllMonths(d) => \E m \in months :
            Nth(p.nth, FirstOf(m \div 12, (m % 12) + 1) - 1, r.day, LAMBDA k : Weekday(k) = p.weekday)

IsOffset(p, t, d, r, e) ==
    LET n == IF p.ago THEN -p.num ELSE p.num
        moved == MonthIndex(e) - MonthIndex(d)
    IN CASE p.unit = "hour" -> (r.day - t.day) * 24 + r.hour - t.hour = n
         [] p.unit = "day" -> r.day - t.day = n
         [] p.unit = "month" -> InAllMonths(d) => moved = n
         [] OTHER -> InAllMonths(d) => moved = 12 * n

Means(p, t, r) ==
    LET d == DateOf(t.day)
        e == DateOf(r.day)
    IN /\ CASE p.kind \in Hourly -> IsHour(p, t, r) [] p.kind = "ansi" -> e.year = p.year
            [] p.kind = "date" -> IsDate(p, d, e) [] p.kind = "the" -> IsThe(p, d, e)
            [] p.kind = "week" -> IsWeek(p, r) [] p.kind = "weekday" -> IsWeekday(p, t, r)
            [] p.kind = "month" -> IsMonth(p, d, e) [] p.kind = "nth" -> IsNth(p, d, r)
            [] OTHER -> IsOffset(p, t, d, r, e)
       /\ p.kind \in Hourly \cup {"ansi"} \/ (p.kind = "offset" /\ p.unit = "hour") \/ r.hour = t.hour

\* The phrases of a text are applied in this order, whatever order they stand in.
Rank(p) == CASE p.kind \in Hourly -> 1 [] p.kind \in {"date", "week"} -> 2 [] p.kind = "the" -> 3
             [] p.kind = "offset" -> 4 [] p.kind \in {"weekday", "month", "nth"} -> 5 [] OTHER -> 6
HasYear(p) == p.kind = "ansi" \/ (p.kind = "nth" /\ p.year # 0)

\* One of each rank: then each means, at the moment the ones before it give, what it does alone.
\* ("so that relative days are from the offset time", lexer.go:494.) Of a date and a year that
\* is not its own, none is taken.
OneOfEach == /\ \A i, j \in DOMAIN spoken : Rank(spoken[i]) = Rank(spoken[j]) => i = j
             /\ \A i \in DOMAIN spoken : spoken[i].kind # "ansi"
Alone(p, t) == Resolve(Reads(DateLexer, p), t)
Ranked(k) == {i \in DOMAIN spoken : Rank(spoken[i]) = k}
Then(t, k) == IF Ranked(k) = {} THEN t ELSE Alone(spoken[CHOOSE i \in Ranked(k) : TRUE], t)
Composed(at) ==
    OneOfEach =>
        IF \E i, j \in DOMAIN spoken : HasYear(spoken[i]) /\ Rank(spoken[j]) = 2
        THEN at = Conflict
        ELSE at = Then(Then(Then(Then(Then(today, 1), 2), 3), 4), 5)

\* A year of its own for a day of the week panics when a month comes too, and nothing else does.
SetsMonth(p) == p.kind = "month" \/ (p.kind = "nth" /\ (p.month # 0 \/ p.year = 0))
PanicsOnlyWithYears(at) ==
    at = Panic => \E i, j \in DOMAIN spoken : i # j /\ HasYear(spoken[i]) /\ SetsMonth(spoken[j])

\* Asked for a time of day, remind takes the next such moment, but for midnight: that is said
\* to be in the past. Nothing else is set for the past.
RemindsAhead(at) ==
    LET for == RemindAt(at, today)
    IN at \notin {Panic, Conflict} =>
        /\ for = InThePast \/ ~Before(for, today)
        /\ Len(spoken) = 1 /\ spoken[1].kind \in Hourly /\ (at.hour # 0 \/ today.hour = 0) =>
            for = [day |-> IF at.hour < today.hour THEN today.day + 1 ELSE today.day, hour |-> at.hour]

TextMeans(at) ==
    /\ Len(spoken) = 1 => Means(spoken[1], today, at)
    /\ Composed(at) /\ PanicsOnlyWithYears(at) /\ RemindsAhead(at)

\* Every phrase means what its words say, and texts are made of what their phrases mean
\* (lexer.go:90, 375, 392 and 494).
DatesMeant == spoken # <<>> => TextMeans(Parsed(lexer, today))
=============================================================================
