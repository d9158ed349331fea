-------------------------------- MODULE Rtc ---------------------------------
(***************************************************************************)
(* The real-time clock: driver/rtc.c, and the two readers of it,           *)
(* clock::getTimeVal (device/Clock.cpp, sys_gettimeofday) and              *)
(* time::CurrentTimeSpec (os/time.cpp, sys_clock_gettime and the file      *)
(* times).  clock::init resets the chip, unlocks it and sets the date; a   *)
(* task then reads the date, the time and the century from three registers *)
(* while the chip keeps running, stores them field by field in a struct    *)
(* that all tasks share, and copies the fields it needs out of it.  It can *)
(* be preempted between any two of these steps.                            *)
(*                                                                         *)
(* The chip is external.  It accepts a write only while it is in setting   *)
(* mode with its write masks open, it runs only in running mode, and it    *)
(* shows a date of the Gregorian calendar at each of Moments, the times of *)
(* day that are looked at; "today" counts the days since 1970-01-01.       *)
(***************************************************************************)
EXTENDS Integers, Sequences, FiniteSets

CONSTANTS Starts,    \* dates to set: [year, month, day, today]
          Moments,   \* times of day, as <<hour, minute, second>>
          MaxDays,   \* how many midnights pass
          MaxLag,    \* how often the chip advances while it is being read
          Readers,   \* the tasks that read it
          OverlappingReads   \* two tasks may be inside a read at a time

VARIABLES rtc,       \* the registers: date, time, century and control
          setup,      \* how far clock::init has come
          today,     \* the day the chip should show
          midnights, \* days that have passed
          tm,        \* rtc_timer_date_time, which all readers share
          rd         \* each reader: its step and its local variables

rtcVars == <<rtc, setup, today, midnights, tm, rd>>

ASSUME RtcAssumption ==
    /\ Moments \subseteq (0 .. 23) \X (0 .. 59) \X (0 .. 59)
    /\ <<23, 59, 59>> \in Moments /\ <<0, 0, 0>> \in Moments
    /\ MaxDays \in Nat /\ MaxLag \in Nat
    /\ OverlappingReads \in BOOLEAN

Seconds(t) == (t[1] * 60 + t[2]) * 60 + t[3]

(* The calendar, as a calendar says it: the reference for the driver. *)
Leap(y) == IF y % 100 = 0 THEN y % 400 = 0 ELSE y % 4 = 0
MonthDays(y) == <<31, IF Leap(y) THEN 29 ELSE 28, 31, 30, 31, 30,
                  31, 31, 30, 31, 30, 31>>
DayOfYear(y, m, d) ==
    LET before[i \in 1 .. 12] ==
            IF i = 1 THEN 0 ELSE before[i - 1] + MonthDays(y)[i - 1]
    IN  before[m] + d
DaysSince1970(y, m, d) ==
    (y - 1970) * 365 + Cardinality({z \in 1970 .. y - 1 : Leap(z)})
        + DayOfYear(y, m, d) - 1

(* The chip's century has five bits: no midnight passes the end of 3199. *)
ASSUME StartsAssumption ==
    \A s \in Starts :
        /\ s.year \in Nat /\ s.year >= 1970
        /\ s.month \in 1 .. 12 /\ s.day \in 1 .. MonthDays(s.year)[s.month]
        /\ s.today = DaysSince1970(s.year, s.month, s.day)
        /\ s.today + MaxDays <= DaysSince1970(3199, 12, 31)
-----------------------------------------------------------------------------
(* Mutant: every fourth year. *)
rtc_year_is_leap_Julian(y) == y % 4 = 0

rtc_year_is_leap(y) == (y % 4 = 0 /\ y % 100 # 0) \/ y % 400 = 0

rtc_get_yday(y, m, d) ==
    LET days == [leap \in BOOLEAN |->
            IF leap
            THEN <<0, 31, 60, 91, 121, 152, 182, 213, 244, 274, 305, 335>>
            ELSE <<0, 31, 59, 90, 120, 151, 181, 212, 243, 273, 304, 334>>]
    IN  days[rtc_year_is_leap(y)][m] + d

rtc_get_wday(y, m, d) ==
    LET first == m < 3
        dd == d + IF first THEN y ELSE y - 2
        yy == IF first THEN y - 1 ELSE y
    IN  (((23 * m) \div 9) + dd + 4 + (yy \div 4) - (yy \div 100)
            + (yy \div 400)) % 7

(* mktime: January and February count as months 11 and 12 of the year before. *)
mktime_Days(y0, m0, d) ==
    LET early == m0 <= 2
        m == IF early THEN m0 + 10 ELSE m0 - 2
        y == IF early THEN y0 - 1 ELSE y0
    IN  (y \div 4) - (y \div 100) + (y \div 400) + ((367 * m) \div 12) + d
            + y * 365 - 719499

(* initLeapYears: the leap years from 1970 to 1970 + i. *)
leapYears[i \in 0 .. 99] ==
    IF i = 0 THEN 0
    ELSE leapYears[i - 1] + (IF rtc_year_is_leap(i + 1970) THEN 1 ELSE 0)

(* getTimeVal's days: 366 for each leap year before, 365 for the others, and *)
(* tm_yday.                                                                 *)
getTimeVal_Days(tm_year, tm_yday) ==
    LET off == tm_year - 70
        leaps == leapYears[off - 1]
    IN  leaps * 366 + (off - leaps) * 365 + tm_yday

(* rtc_timer_set_tm refuses a value out of its range before it writes any. *)
rtc_in_range(v, lo, hi) == v >= lo /\ v <= hi

Accepted(date, t) ==
    /\ rtc_in_range(t[3], 0, 59) /\ rtc_in_range(t[2], 0, 59)
    /\ rtc_in_range(t[1], 0, 23) /\ rtc_in_range(date.day, 1, 31)
    /\ rtc_in_range(date.month - 1, 0, 11)
    /\ rtc_in_range(date.year % 100, 0, 99)
    /\ rtc_in_range(date.year \div 100, 0, 31)
    /\ rtc_in_range(rtc_get_wday(date.year, date.month, date.day), 0, 6)

rtc_timer_set_mode(r, mode) == [r EXCEPT !.mode = mode]

(* What a write of the date and time registers does to the chip. *)
Written(r, date, t) ==
    IF r.mode = "setting" /\ r.open
    THEN [r EXCEPT
            !.date = [year |-> date.year % 100, month |-> date.month,
                      day |-> date.day,
                      week |-> rtc_get_wday(date.year, date.month, date.day)],
            !.century = date.year \div 100,
            !.time = t]
    ELSE r

rtc_timer_set(r, date, t) ==
    IF ~Accepted(date, t) THEN r
    ELSE rtc_timer_set_mode(
             Written(rtc_timer_set_mode(r, "setting"), date, t), "running")

rtc_protect_set(r, enable) == [r EXCEPT !.open = ~enable]

FullYear(date, century) == (date.year % 100) + century * 100
-----------------------------------------------------------------------------
(* The fields of struct tm, in the order rtc_timer_get_tm stores them, and   *)
(* the order in which rtc_timer_get and getTimeVal copy them.               *)
StoreOrder == <<"sec", "min", "hour", "mday", "mon", "year", "yday">>
CopyOrder == [CurrentTimeSpec |-> <<"year", "mon", "mday", "hour", "min", "sec">>,
              getTimeVal |-> <<"year", "yday", "hour", "sec">>]
NoTm == [f \in {StoreOrder[i] : i \in 1 .. 7} |-> 0]

Idle == [at |-> "idle", call |-> "CurrentTimeSpec", lag |-> 0, began |-> <<0, 0>>,
         date |-> [year |-> 0, month |-> 1, day |-> 1, week |-> 0],
         time |-> <<0, 0, 0>>, century |-> 0, next |-> 1, got |-> NoTm,
         ts |-> <<0, 0>>]

RtcInit ==
    /\ rtc = [date |-> [year |-> 0, month |-> 1, day |-> 1, week |-> 0],
              century |-> 20, time |-> <<0, 0, 0>>,
              mode |-> "pause", open |-> FALSE]
    /\ setup = "rtc_init"
    /\ today = 0
    /\ midnights = 0
    /\ tm = NoTm
    /\ rd = [p \in Readers |-> Idle]

(* rtc_init: reset and clock, unprotect, set the base frequency and the     *)
(* counter (each between setting and running mode), run.                    *)
rtc_init ==
    /\ setup = "rtc_init"
    /\ rtc' = rtc_timer_set_mode(rtc_protect_set(rtc, FALSE), "running")
    /\ setup' = "rtc_timer_set"
    /\ UNCHANGED <<today, midnights, tm, rd>>

(* The date that clock::init sets is one of Starts; a time out of range is  *)
(* refused.                                                                 *)
setDateTime(start, t) ==
    /\ setup = "rtc_timer_set"
    /\ rtc' = rtc_timer_set(rtc, start, t)
    /\ IF Accepted(start, t) THEN setup' = "done" /\ today' = start.today
                             ELSE UNCHANGED <<setup, today>>
    /\ UNCHANGED <<midnights, tm, rd>>

\* Bound: the chip moves on at most MaxLag times in a read.
InTime == \A p \in Readers : rd[p].at = "idle" \/ rd[p].lag < MaxLag
Lag(r) == IF r.at = "idle" THEN r ELSE [r EXCEPT !.lag = @ + 1]
Lagged == [p \in Readers |-> Lag(rd[p])]

Later == {t \in Moments : Seconds(t) > Seconds(rtc.time)}

(* The chip moves on to the next moment of the day, *)
Advance ==
    /\ setup = "done" /\ rtc.mode = "running" /\ Later # {}
    /\ InTime
    /\ rtc' = [rtc EXCEPT !.time = CHOOSE t \in Later :
                   \A u \in Later : Seconds(t) <= Seconds(u)]
    /\ rd' = Lagged
    /\ UNCHANGED <<setup, today, midnights, tm>>

(* or to the first second of the next day. *)
Midnight ==
    LET y == FullYear(rtc.date, rtc.century)
        last == rtc.date.day = MonthDays(y)[rtc.date.month]
        december == rtc.date.month = 12
        ny == IF last /\ december THEN y + 1 ELSE y
    IN  /\ setup = "done" /\ rtc.mode = "running" /\ Later = {}
        /\ midnights < MaxDays
        /\ InTime
        /\ rtc' = [rtc EXCEPT
              !.time = <<0, 0, 0>>,
              !.century = ny \div 100,
              !.date = [year |-> ny % 100,
                        month |-> IF ~last THEN @.month
                                  ELSE IF december THEN 1 ELSE @.month + 1,
                        day |-> IF last THEN 1 ELSE @.day + 1,
                        week |-> (@.week + 1) % 7]]
        /\ today' = today + 1
        /\ midnights' = midnights + 1
        /\ rd' = Lagged
        /\ UNCHANGED <<setup, tm>>

Now == <<today, Seconds(rtc.time)>>

(* rtc_timer_get_tm for one of the two calls: the mode, then one register   *)
(* after the other, ...                                                     *)
Reading(p) == rd[p].at \notin {"idle", "answered"}

ReadDate(p, call) ==
    /\ setup = "done" /\ rd[p].at = "idle" /\ rtc.mode = "running"
    /\ OverlappingReads \/ \A q \in Readers : ~Reading(q)
    /\ rd' = [rd EXCEPT ![p] = [Idle EXCEPT !.at = "time", !.call = call,
                                            !.began = Now, !.date = rtc.date]]
    /\ UNCHANGED <<rtc, setup, today, midnights, tm>>

ReadTime(p) ==
    /\ rd[p].at = "time"
    /\ rd' = [rd EXCEPT ![p] = [@ EXCEPT !.at = "extended", !.time = rtc.time]]
    /\ UNCHANGED <<rtc, setup, today, midnights, tm>>

(* Mutant: the date is read after the time. *)
ReadExtended_Date(p) ==
    /\ rd[p].at = "extended"
    /\ rd' = [rd EXCEPT ![p] = [@ EXCEPT !.at = "store", !.date = rtc.date,
                                         !.century = rtc.century]]
    /\ UNCHANGED <<rtc, setup, today, midnights, tm>>

ReadExtended(p) ==
    /\ rd[p].at = "extended"
    /\ rd' = [rd EXCEPT ![p] = [@ EXCEPT !.at = "store", !.century = rtc.century]]
    /\ UNCHANGED <<rtc, setup, today, midnights, tm>>

(* What the registers read say in a struct tm. *)
Broken(r) ==
    [sec |-> r.time[3] % 61, min |-> r.time[2] % 60, hour |-> r.time[1] % 24,
     mday |-> r.date.day % 32, mon |-> (r.date.month - 1) % 12,
     year |-> FullYear(r.date, r.century) - 1900]

(* ... then one field of the shared struct after the other; the day of the  *)
(* year is computed from the fields already there.                          *)
StoreField(p) ==
    LET r == rd[p]
        f == StoreOrder[r.next]
    IN  /\ r.at = "store"
        /\ tm' = [tm EXCEPT ![f] =
               IF f = "yday"
               THEN rtc_get_yday(tm.year + 1900, tm.mon + 1, tm.mday) % 366
               ELSE Broken(r)[f]]
        /\ rd' = [rd EXCEPT ![p] =
               IF r.next = 7 THEN [r EXCEPT !.at = "copy", !.next = 1]
               ELSE [r EXCEPT !.next = r.next + 1]]
        /\ UNCHANGED <<rtc, setup, today, midnights>>

(* The caller copies its fields out of the struct.                          *)
CopyField(p) ==
    LET r == rd[p]
        f == CopyOrder[r.call][r.next]
    IN  /\ r.at = "copy"
        /\ rd' = [rd EXCEPT ![p] =
               [r EXCEPT !.got[f] = tm[f], !.next = r.next + 1,
                         !.at = IF r.next = Len(CopyOrder[r.call]) THEN "got"
                                ELSE "copy"]]
        /\ UNCHANGED <<rtc, setup, today, midnights, tm>>

(* The call returns days and seconds of the day.  When nobody else is       *)
(* inside a read the fields of the struct are forgotten: a read stores all  *)
(* of them before it copies one.                                            *)
Reply(p, ts) ==
    /\ rd' = [rd EXCEPT ![p] = [Idle EXCEPT !.at = "answered", !.call = rd[p].call,
                                   !.lag = rd[p].lag, !.began = rd[p].began, !.ts = ts]]
    /\ tm' = IF \A q \in Readers \ {p} : ~Reading(q) THEN NoTm ELSE tm
    /\ UNCHANGED <<rtc, setup, today, midnights>>

CurrentTimeSpec(p) ==
    /\ rd[p].at = "got" /\ rd[p].call = "CurrentTimeSpec"
    /\ LET g == rd[p].got
       IN  Reply(p, <<mktime_Days(g.year + 1900, g.mon + 1, g.mday),
                       Seconds(<<g.hour, g.min, g.sec>>)>>)

(* getTimeVal leaves the minutes out.  (The years that its table does not   *)
(* have are left out here.)                                                 *)
getTimeVal(p) ==
    /\ rd[p].at = "got" /\ rd[p].call = "getTimeVal"
    /\ LET g == rd[p].got
       IN  /\ g.year - 71 \in DOMAIN leapYears
           /\ Reply(p, <<getTimeVal_Days(g.year, g.yday), g.hour * 3600 + g.sec>>)

ReadDone(p) ==
    /\ rd[p].at = "answered"
    /\ rd' = [rd EXCEPT ![p] = Idle]
    /\ UNCHANGED <<rtc, setup, today, midnights, tm>>

ReadStep(p) ==
    \/ \E call \in DOMAIN CopyOrder : ReadDate(p, call)
    \/ ReadTime(p) \/ ReadExtended(p) \/ StoreField(p) \/ CopyField(p)
    \/ CurrentTimeSpec(p) \/ getTimeVal(p) \/ ReadDone(p)

RtcNext ==
    \/ rtc_init
    \/ \E start \in Starts, t \in {<<23, 59, 59>>, <<23, 60, 0>>} :
           setDateTime(start, t)
    \/ Advance
    \/ Midnight
    \/ \E p \in Readers : ReadStep(p)

RtcSpec == RtcInit /\ [][RtcNext]_rtcVars
-----------------------------------------------------------------------------
RtcTypeOK ==
    /\ rtc \in [date : [year : 0 .. 99, month : 1 .. 12, day : 1 .. 31,
                        week : 0 .. 6],
                century : 0 .. 31, time : Moments,
                mode : {"pause", "running", "setting"}, open : BOOLEAN]
    /\ setup \in {"rtc_init", "rtc_timer_set", "done"}
    /\ today \in Nat /\ midnights \in 0 .. MaxDays
    /\ \A p \in Readers :
          /\ rd[p].at \in {"idle", "time", "extended", "store", "copy", "got",
                            "answered"}
          /\ rd[p].call \in DOMAIN CopyOrder

(* Four independent pieces of date arithmetic agree with the calendar on    *)
(* every day that passes: mktime's count of days, the weekday that          *)
(* rtc_timer_set wrote, the day of the year and clock.cpp's table of leap   *)
(* years.  getTimeVal's count of days is always one too high, because       *)
(* tm_yday starts at 1, and on the last day of a leap year, where tm_yday   *)
(* wraps to 0, a year behind (see TimeValIsEpoch).  And days do pass:       *)
(* clock::init leaves the chip unlocked and running.                        *)
CalendarAgrees ==
    /\ RtcTypeOK
    /\ setup = "done" =>
        LET y == FullYear(rtc.date, rtc.century)
            m == rtc.date.month
            d == rtc.date.day
            yday == rtc_get_yday(y, m, d)
        IN  /\ rtc.mode = "running" /\ rtc.open
            /\ mktime_Days(y, m, d) = today
            /\ rtc.date.week = (today + 4) % 7
            /\ rtc_get_wday(y, m, d) = rtc.date.week
            /\ yday = DayOfYear(y, m, d)
            /\ y - 1970 \in 1 .. 100 =>
                   getTimeVal_Days(y - 1900, yday % 366)
                       = IF yday = 366 THEN today - 365 ELSE today + 1

Before(a, b) == a[1] < b[1] \/ (a[1] = b[1] /\ a[2] <= b[2])

NewCentury == rtc.date.year = 0 /\ rtc.date.month = 1 /\ rtc.date.day = 1

(* CurrentTimeSpec never answers with a time that has not come yet, and     *)
(* never with one from before the day on which the read began, although     *)
(* midnight may fall between its reads of the date and of the time; with no *)
(* midnight in between the answer lies within the read.  The read of the    *)
(* century is last, so the first day of a century is the exception: the     *)
(* date of the old one read with the new century is off by 100 years.       *)
TimeReadSane ==
    \A p \in Readers :
        rd[p].at = "answered" /\ rd[p].call = "CurrentTimeSpec" /\ ~NewCentury
        => /\ Before(rd[p].ts, Now)
           /\ rd[p].ts[1] = rd[p].began[1]
           /\ today = rd[p].began[1] => Before(rd[p].began, rd[p].ts)

(* CurrentTimeSpec "gets the current time" (os/time.cpp): never one that    *)
(* has not come yet, also when two tasks read the clock.                    *)
ReadsCurrentTime ==
    \A p \in Readers :
        rd[p].at = "answered" /\ rd[p].call = "CurrentTimeSpec" /\ ~NewCentury
        => Before(rd[p].ts, Now)

(* TimeVal.sec is "the seconds since the Unix epoch" (lib/time.h): what     *)
(* getTimeVal answers lies within its read.                                 *)
TimeValIsEpoch ==
    \A p \in Readers :
        rd[p].at = "answered" /\ rd[p].call = "getTimeVal" /\ ~NewCentury
        => Before(rd[p].began, rd[p].ts) /\ Before(rd[p].ts, Now)
=============================================================================
