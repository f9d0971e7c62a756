------------------------------- MODULE Timers -------------------------------
(***************************************************************************)
(* The arithmetic of sutils/Timers.cpp, and a thread that asks for it.     *)
(***************************************************************************)
EXTENDS Integers, FiniteSets

CONSTANTS MILLI,        \* nanoseconds in a millisecond
          INT_MAX,      \* the largest int
          Instants,     \* the times asked about, in nanoseconds
          Years         \* the years asked about

\* Times are counted from 1970.
TimersAssumption ==
    /\ {MILLI, INT_MAX} \subseteq Nat \ {0}
    /\ Instants \subseteq Nat
    /\ Years \subseteq {year \in Nat : year >= 1970}

VARIABLES asked, answer  \* the question, and what the code answers

vars == <<asked, answer>>

\* (Mutant of toMillisecondTimeoutDelay: rounded down.)
DelayRoundedDown(referenceTime, timeoutTime) ==
    LET timeoutDelay == timeoutTime - referenceTime
    IN  IF timeoutDelay <= 0 THEN 0
        ELSE IF timeoutDelay > (INT_MAX - 1) * MILLI THEN -1
        ELSE timeoutDelay \div MILLI

\* -1 is a delay without end.
toMillisecondTimeoutDelay(referenceTime, timeoutTime) ==
    LET timeoutDelay == timeoutTime - referenceTime
    IN  IF timeoutDelay <= 0 THEN 0
        ELSE IF timeoutDelay > (INT_MAX - 1) * MILLI THEN -1
        ELSE (timeoutDelay + MILLI - 1) \div MILLI

\* (Mutant of DaysSinceEpoch: February stays in its own year.)
DaysFromFebruary(year0, mon0, day) ==
    LET late == mon0 - 2 < 0
        mon  == IF late THEN mon0 + 10 ELSE mon0 - 2
        year == IF late THEN year0 - 1 ELSE year0
    IN  year \div 4 - year \div 100 + year \div 400 + (367 * mon) \div 12 + day
          + year * 365 - 719499

\* The days of systemMaketime: the year begins in March, so that the leap day
\* is its last.
DaysSinceEpoch(year0, mon0, day) ==
    LET late == mon0 - 2 <= 0
        mon  == IF late THEN mon0 + 10 ELSE mon0 - 2
        year == IF late THEN year0 - 1 ELSE year0
    IN  year \div 4 - year \div 100 + year \div 400 + (367 * mon) \div 12 + day
          + year * 365 - 719499

-----------------------------------------------------------------------------
(***************************************************************************)
(* What they are to compute.                                               *)
(***************************************************************************)

\* The shortest number of milliseconds that lasts until the timeout.
LeastDelay(referenceTime, timeoutTime) ==
    CHOOSE ms \in 0..(timeoutTime \div MILLI + 1) :
       /\ referenceTime + ms * MILLI >= timeoutTime
       /\ ms > 0 => referenceTime + (ms - 1) * MILLI < timeoutTime

\* A timeout is never early and less than a millisecond late, or without end if
\* that takes more than INT_MAX milliseconds.  Of INT_MAX itself nothing is said:
\* Timers.h has it among the delays that are answered, the code answers -1.
IsDelay(delay, referenceTime, timeoutTime) ==
    LET least == LeastDelay(referenceTime, timeoutTime)
    IN  /\ least < INT_MAX => delay = least
        /\ least > INT_MAX => delay = -1

IsLeap(year) == year % 4 = 0 /\ (year % 100 # 0 \/ year % 400 = 0)

DaysIn(year, mon) ==
    CASE mon = 2              -> IF IsLeap(year) THEN 29 ELSE 28
      [] mon \in {4, 6, 9, 11} -> 30
      [] OTHER                -> 31

\* The days since the first of January 1970: those of the years before, of the
\* months before, and of this month.
CalendarDays(year, mon, day) ==
    365 * (year - 1970) + Cardinality({y \in 1970..(year - 1) : IsLeap(y)})
      + Cardinality({date \in (1..(mon - 1)) \X (1..31) : date[2] <= DaysIn(year, date[1])})
      + day - 1

\* A delay is the least that lasts until the timeout, or -1 if an int cannot tell
\* it, and days are counted as the calendar does, over the ends of months, leap
\* years and centuries.
TimesExact ==
    /\ asked.f = "Delay" => IsDelay(answer, asked.reference, asked.timeout)
    /\ asked.f = "Days"  => answer = CalendarDays(asked.year, asked.mon, asked.day)

-----------------------------------------------------------------------------
(***************************************************************************)
(* The questions.                                                          *)
(***************************************************************************)
Nothing == [f |-> "none"]

Init == asked = Nothing /\ answer = 0

AskDelay(referenceTime, timeoutTime) ==
    /\ asked = Nothing
    /\ asked' = [f |-> "Delay", reference |-> referenceTime, timeout |-> timeoutTime]
    /\ answer' = toMillisecondTimeoutDelay(referenceTime, timeoutTime)

AskDays(year, mon, day) ==
    /\ asked = Nothing
    /\ asked' = [f |-> "Days", year |-> year, mon |-> mon, day |-> day]
    /\ answer' = DaysSinceEpoch(year, mon, day)

Forget == asked # Nothing /\ asked' = Nothing /\ answer' = 0

Next ==
    \/ \E referenceTime, timeoutTime \in Instants : AskDelay(referenceTime, timeoutTime)
    \/ \E year \in Years, mon \in 1..12, day \in {1, 28, 29, 30, 31} :
          day <= DaysIn(year, mon) /\ AskDays(year, mon, day)
    \/ Forget
=============================================================================
