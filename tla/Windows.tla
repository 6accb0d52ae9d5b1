------------------------------- MODULE Windows -------------------------------
(* When the windows of a group's internet rules block, as the household's  *)
(* clients tell it (src/src/lib/rule-windows.ts, src/src/lib/clock.ts):    *)
(* whether one blocks now, when it ends, what comes next, the bands of a   *)
(* day and which windows meet.  A client works each out by arithmetic of   *)
(* its own on days and minutes; here they are held against the occurrences *)
(* of the windows on an endless clock.                                     *)
(*                                                                         *)
(* A week has Week days and a day Day minutes.  Names, who paused a group  *)
(* and changes of the clocks are left out.                                 *)
EXTENDS Integers, Sequences, FiniteSets

CONSTANTS
  Week,      \* 7
  Day,       \* 1440
  Drawn,     \* the windows the groups of the household have
  Ends       \* when a block or an unblock ends: a time, or Open
CONSTANT Open

\* More than a day in a week: a block that ends tomorrow does not end on this
\* weekday.
ASSUME WindowsAssumption == Week \in Nat \ {0, 1} /\ Day \in Nat \ {0}

VARIABLES
  windows,   \* the windows of the group's internet rules, in the rules' order
  suspended, \* when the group's block ends, if it has one
  allowed,   \* when its exception ends, if it has one
  time       \* minutes since a week began

windowsVars == <<windows, suspended, allowed, time>>

Days    == 0..(Week - 1)
Minutes == 0..(Day - 1)
None    == -1

\* A window of a rule as the editor takes it, or a rule that blocks always.
Always == [always |-> TRUE, days |-> {}, start |-> 0, end |-> 0]
Window(days, start, end) == [always |-> FALSE, days |-> days, start |-> start, end |-> end]

\* A window begins and ends at different times (schedule.ts, assertSchedule).
ASSUME DrawnAssumption ==
  \A w \in Drawn :
    w = Always \/ \E days \in SUBSET Days, start, end \in Minutes : start # end /\ w = Window(days, start, end)
ASSUME EndsAssumption == Ends \subseteq Nat \cup {Open} /\ Open \notin Int

WeekdayAt(t) == (t \div Day) % Week
MinuteAt(t)  == t % Day
Least(S) == IF S = {} THEN None ELSE CHOOSE t \in S : \A u \in S : t <= u

----------------------------------------------------------------------------
(* What the clients work out                                               *)

Crosses(w) == w.start > w.end

\* isWindowActive: in the day's own occurrence, or in the morning of the one
\* that began the evening before.
IsActive(w, t) ==
  \/ w.always
  \/ ~Crosses(w) /\ WeekdayAt(t) \in w.days /\ MinuteAt(t) >= w.start /\ MinuteAt(t) < w.end
  \/ Crosses(w) /\ WeekdayAt(t) \in w.days /\ MinuteAt(t) >= w.start
  \/ Crosses(w) /\ (WeekdayAt(t) + Week - 1) % Week \in w.days /\ MinuteAt(t) < w.end

\* The days on which it begins.
EndDaysAsBegun(w) == w.days

\* bedtimeEndDays: the days on which it ends.
EndDays(w) == IF Crosses(w) THEN {(d + 1) % Week : d \in w.days} ELSE w.days

\* nextClockOnDays: the next time after t that the clock reads so on one of
\* the days; this day and the Week that follow are looked at.
NextClockOnDays(days, minute, t) ==
  LET midnight == t - MinuteAt(t) IN
    Least({u \in {midnight + n * Day + minute : n \in 0..Week} : u > t /\ WeekdayAt(u) \in days})

\* windowEndsAt and nextWindowStart: Open for a window that never ends.
EndsAt(w, t) == IF w.always THEN Open ELSE NextClockOnDays(EndDays(w), w.end, t)
NextStart(w, t) == IF w.always THEN None ELSE NextClockOnDays(w.days, w.start, t)

\* windowDayBands: from and to, on a day of the week.
DayBands(w, d) ==
  IF w.always THEN {<<0, Day>>}
  ELSE (IF Crosses(w) /\ (d + Week - 1) % Week \in w.days THEN {<<0, w.end>>} ELSE {})
       \cup (IF d \in w.days THEN {<<w.start, IF Crosses(w) THEN Day ELSE w.end>>} ELSE {})

\* The occurrences, cut off at the week's end.
WeekSpansCut(w) ==
  {<<d * Day + w.start, d * Day + (IF Crosses(w) THEN Day ELSE w.end)>> : d \in w.days}

\* weekSpans: the occurrences in minutes of the week, wrapped at its end.
WeekSpans(w) ==
  IF w.always THEN {<<0, Week * Day>>}
  ELSE LET length == IF Crosses(w) THEN Day - w.start + w.end ELSE w.end - w.start
           spans(from) == IF from + length <= Week * Day THEN {<<from, from + length>>}
                          ELSE {<<from, Week * Day>>, <<0, from + length - Week * Day>>}
       IN UNION {spans(d * Day + w.start) : d \in w.days}

\* windowOverlaps: the rule editor warns of the pairs.
Overlap(w, v) == \E x \in WeekSpans(w), y \in WeekSpans(v) : x[1] < y[2] /\ y[1] < x[2]

\* isActiveUntil.
Lasts(until, t) == until = Open \/ until > t

\* internetState: the window active longest is the one told of.
ActiveAt(t) == {i \in DOMAIN windows : IsActive(windows[i], t)}
Longest(t) ==
  CHOOSE i \in ActiveAt(t) : \A j \in ActiveAt(t) :
    EndsAt(windows[i], t) = Open \/ (EndsAt(windows[j], t) # Open /\ EndsAt(windows[j], t) <= EndsAt(windows[i], t))
InternetState(t) ==
  CASE Lasts(suspended, t) -> [state |-> "paused", until |-> suspended]
    [] ~Lasts(suspended, t) /\ Lasts(allowed, t) -> [state |-> "allowed", until |-> allowed]
    [] ~Lasts(suspended, t) /\ ~Lasts(allowed, t) /\ ActiveAt(t) # {} ->
         [state |-> "blocked", until |-> EndsAt(windows[Longest(t)], t)]
    [] OTHER -> [state |-> IF windows = <<>> THEN "no_rule" ELSE "online",
                 until |-> Least({NextStart(windows[i], t) : i \in DOMAIN windows} \ {None})]

\* internetDayBands: the bands of the day a client draws, and from now the
\* block or the exception that is on.
EndToday(until, t) ==
  IF until = Open \/ WeekdayAt(until) # WeekdayAt(t) \/ until - t >= Day THEN Day
  ELSE IF MinuteAt(until) > MinuteAt(t) THEN MinuteAt(until) ELSE MinuteAt(t) + 1
LiftBands(t) ==
  CASE Lasts(suspended, t) -> {[kind |-> "pause", from |-> MinuteAt(t), to |-> EndToday(suspended, t)]}
    [] ~Lasts(suspended, t) /\ Lasts(allowed, t) ->
         {[kind |-> "allowance", from |-> MinuteAt(t), to |-> EndToday(allowed, t)]}
    [] OTHER -> {}
WindowBands(t) == UNION {DayBands(windows[i], WeekdayAt(t)) : i \in DOMAIN windows}

----------------------------------------------------------------------------
(* Time passes, and people block the group, make exceptions and change its *)
(* rules.                                                                  *)

WindowsInit ==
  /\ windows \in {<<>>} \cup {<<w>> : w \in Drawn} \cup {<<w, v>> : w \in Drawn, v \in Drawn}
  /\ suspended = 0 /\ allowed = 0 /\ time = 0

\* Bound: a week and a day.
Passes == time < (Week + 1) * Day /\ time' = time + 1 /\ UNCHANGED <<windows, suspended, allowed>>

GroupBlocked == suspended' \in {u \in Ends : Lasts(u, time)} /\ UNCHANGED <<windows, allowed, time>>

GroupExcepted == allowed' \in {u \in Ends : Lasts(u, time)} /\ UNCHANGED <<windows, suspended, time>>

WindowsNext == Passes \/ GroupBlocked \/ GroupExcepted

WindowsSpec == WindowsInit /\ [][WindowsNext]_windowsVars

----------------------------------------------------------------------------
(* Properties                                                              *)

\* A window blocks from its start, on each of its days, for its length.
Length(w) == IF Crosses(w) THEN Day - w.start + w.end ELSE w.end - w.start
Occurs(w, t) ==
  w.always \/ \E n \in {t \div Day, t \div Day - 1} :
    (n + Week) % Week \in w.days /\ n * Day + w.start <= t /\ t < n * Day + w.start + Length(w)
Blocked(t) == \E i \in DOMAIN windows : Occurs(windows[i], t)

AWeekOn == time..(time + (Week + 1) * Day)

\* What the clients tell of a group comes true: blocked until a time, it is
\* blocked without a gap to then, and for good if no time is told; online, it
\* is not blocked before the time told of, is then, and never is if none is.
ToldTruly ==
  LET told == InternetState(time) IN
    CASE told.state = "blocked" -> \A t \in AWeekOn : told.until = Open \/ t < told.until => Blocked(t)
      [] told.state = "online"  -> \A t \in AWeekOn : IF told.until = None \/ t < told.until THEN ~Blocked(t)
                                                       ELSE t = told.until => Blocked(t)
      [] OTHER -> TRUE

Within(m, band) == band[1] <= m /\ m < band[2]

\* The bands of a day are the minutes in which a window blocks, the bar of a
\* block or an exception runs from now to its end or the day's, and two
\* windows are said to overlap exactly if some minute of the week is in both.
DrawnTruly ==
  LET midnight == time - MinuteAt(time) IN
    /\ \A m \in Minutes : Blocked(midnight + m) <=> \E band \in WindowBands(time) : Within(m, band)
    /\ \A bar \in LiftBands(time) : \A m \in Minutes :
         Within(m, <<bar.from, bar.to>>) <=>
           midnight + m >= time /\ Lasts(IF bar.kind = "pause" THEN suspended ELSE allowed, midnight + m)
    /\ \A i, j \in DOMAIN windows :
         Overlap(windows[i], windows[j]) <=>
           \E t \in 0..(Week * Day - 1) : Occurs(windows[i], t) /\ Occurs(windows[j], t)
=============================================================================
