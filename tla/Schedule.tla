------------------------------ MODULE Schedule ------------------------------
(* The clock arithmetic of internal/rules and of the pause handlers.  A pause *)
(* is stored as the clock time it starts at and the moment it ends; the       *)
(* gateway is given a date and two clock times; the screen says whether the    *)
(* rule is blocking and until when.  The model follows one rule of the family, *)
(* a pause or another, while time passes.  There is no change of the clock and *)
(* one time zone.                                                              *)
EXTENDS Integers

CONSTANTS
  Second,     \* seconds in a minute
  Day,        \* minutes in a day
  Week,       \* days in a week
  Morning,    \* minute of the day pauses "until morning" end at
  Delays,     \* minutes a pause can be put off by
  Durations,  \* minutes a pause can take
  Others,     \* schedules of the rules that are no pauses
  Horizon,    \* bound on time
  None

ASSUME ClockAssumption ==
  /\ {Second, Day, Week} \subseteq Nat \ {0}
  /\ Morning \in 0 .. Day - 1
  /\ Delays \union Durations \subseteq 1 .. Day - 1
  /\ Horizon \in Nat

VARIABLES
  now,      \* the clock, in seconds
  when,     \* the rule's schedule in the store, or None
  sched,    \* its schedule on the gateway, or None
  asked,    \* the window the parent asked the pause for, or None (ghost)
  granted   \* the moment up to which the parent gave time (ghost)

vars == <<now, when, sched, asked, granted>>

Never   == -1
Clocks  == 0 .. Day - 1
Weekdays == 0 .. Week - 1

\* store.When; what the gateway is given of it; the window a parent asks for.
When == [kind : {"always", "recurring", "onetime"}, days : SUBSET Weekdays,
         start : Clocks \union {None}, end : Clocks \union {None}, until : Nat \union {Never}]
GwWhen ==
  [mode : {"always"}]
    \union [mode : {"every_day", "every_week"}, days : SUBSET Weekdays,
            start : Clocks \union {None}, end : Clocks \union {None}]
    \union [mode : {"one_time"}, date : Int, start : Clocks, end : Clocks]
Window == [from : Nat, until : Nat \union {Never}]

ASSUME NoneAssumption == None \notin Clocks \union When \union GwWhen \union Window

-----------------------------------------------------------------------------
(* Translating a schedule.                                                 *)

\* Slip: minutes since the beginning of time.
Minutes(t) == t \div Second
\* Format("15:04"): the seconds are dropped.
Clock(t)   == (t \div Second) % Day
Date(t)    == t \div (Second * Day)
At(day, m) == (day * Day + m) * Second
Minute(t)  == At(Date(t), Clock(t))
Weekday(day) == day % Week

Always == [kind |-> "always", days |-> {}, start |-> None, end |-> None, until |-> Never]
Recurring(days, start, end) ==
  [kind |-> "recurring", days |-> days, start |-> start, end |-> end, until |-> Never]
AllDay(days) == Recurring(days, None, None)
OneTime(start, until) ==
  [kind |-> "onetime", days |-> {}, start |-> start, end |-> None, until |-> until]

OneTimeUntil(from, until) == OneTime(Clock(from), until)

\* The schedules a form makes: times are both there or both not.
Formed(w) ==
  \/ w = Always
  \/ w = AllDay(w.days) /\ w.days \subseteq Weekdays
  \/ w = Recurring(w.days, w.start, w.end) /\ w.days \subseteq Weekdays /\ {w.start, w.end} \subseteq Clocks
  \/ w = OneTime(w.start, w.until) /\ w.start \in Clocks /\ w.until \in Nat

ASSUME OthersAssumption == \A w \in Others : Formed(w)

\* Slip: the date of the end.
EndDate(w) == Date(w.until)
\* The day a one-time window starts on: the day it ends, or the one before when
\* it crosses midnight.
StartDate(w) == IF Clock(w.until) < w.start THEN Date(w.until) - 1 ELSE Date(w.until)
OneTimeStart(w) == At(StartDate(w), w.start)

\* The schedules translateSchedule refuses.
Refused(w) ==
  \/ w.kind = "onetime" /\ w.start = Clock(w.until)
  \/ w.kind = "recurring" /\ (w.days = {} \/ (w.start # None /\ w.start = w.end))

\* What the gateway is given; days are empty when every day is meant.
TranslateSchedule(w) ==
  CASE w.kind = "always" -> [mode |-> "always"]
    [] w.kind = "recurring" ->
         [mode |-> IF w.days = Weekdays THEN "every_day" ELSE "every_week",
          days |-> IF w.days = Weekdays THEN {} ELSE w.days,
          start |-> w.start, end |-> w.end]
    [] w.kind = "onetime" ->
         [mode |-> "one_time", date |-> StartDate(w), start |-> w.start,
          end |-> Clock(w.until)]

\* What the gateway does with it: a window that does not end after it starts
\* ends the day after.
Within(day, start, end, t) ==
  IF start = None THEN Date(t) = day
  ELSE At(day, start) <= t /\ t < At(IF end < start THEN day + 1 ELSE day, end)

Enforced(s, t) ==
  CASE s.mode = "always"     -> TRUE
    [] s.mode = "one_time"   -> Within(s.date, s.start, s.end, t)
    [] s.mode = "every_day"  -> \E day \in {Date(t) - 1, Date(t)} : Within(day, s.start, s.end, t)
    [] s.mode = "every_week" ->
         \E day \in {Date(t) - 1, Date(t)} :
           Weekday(day) \in s.days /\ Within(day, s.start, s.end, t)

-----------------------------------------------------------------------------
(* What the screen shows.                                                  *)

Inactive      == [active |-> FALSE, until |-> Never]
Active(until) == [active |-> TRUE, until |-> until]

\* Slips: the hours after midnight are looked up under today's name; a window
\* that crosses midnight is said to end today.
Today(w, t)     == Weekday(Date(t)) \in w.days
Yesterday(w, t) == Weekday(Date(t) - 1) \in w.days
EndToday(w, t)    == At(Date(t), w.end)
EndTomorrow(w, t) == At(Date(t) + 1, w.end)

\* ActiveNow for a recurring schedule with times.
ActiveToday(w, t) ==
  LET m == Clock(t) IN
  CASE w.start < w.end /\ Today(w, t) /\ w.start <= m /\ m < w.end -> Active(EndToday(w, t))
    [] w.start >= w.end /\ Today(w, t) /\ w.start <= m             -> Active(EndTomorrow(w, t))
    [] w.start >= w.end /\ Yesterday(w, t) /\ m < w.end            -> Active(EndToday(w, t))
    [] OTHER -> Inactive

Pending(w, t) == w.kind = "onetime" /\ t < OneTimeStart(w)

ActiveNow(w, t) ==
  CASE w.kind = "always"  -> Active(Never)
    [] w.kind = "onetime" -> [active |-> ~Pending(w, t) /\ t < w.until, until |-> w.until]
    [] w.kind = "recurring" /\ w.start = None ->
         IF Today(w, t) THEN Active(At(Date(t) + 1, 0)) ELSE Inactive
    [] OTHER -> ActiveToday(w, t)

\* Slip: spent as soon as it has begun.
Begun(w, t)   == w.kind = "onetime" /\ t > OneTimeStart(w)
Expired(w, t) == w.kind = "onetime" /\ t > w.until

-----------------------------------------------------------------------------
(* Pausing.                                                                *)

\* The first morning strictly after t.
NextMorning(t) ==
  IF t < At(Date(t), Morning) THEN At(Date(t), Morning) ELSE At(Date(t) + 1, Morning)

Store(w) == when' = w /\ sched' = IF w = None THEN None ELSE TranslateSchedule(w)

IsPause == asked # None

\* handlePause: the old pause goes first; the new one may then be refused.
PauseFor(w, from) ==
  /\ when = None \/ IsPause
  /\ IF Refused(w) THEN Store(None) /\ asked' = None
                   ELSE Store(w) /\ asked' = [from |-> from, until |-> w.until]
  /\ granted' = 0
  /\ UNCHANGED now

Pause ==
  \/ PauseFor(Always, now)
  \/ \E delay \in Delays \union {0} :
       LET start == now + delay * Second IN
       \/ PauseFor(OneTimeUntil(start, NextMorning(start)), start)
       \/ \E d \in Durations :
            PauseFor(OneTimeUntil(start, start + d * Second), start)

\* Slip: time is always given from now on.
FromNow(w)   == now
\* handlePauseDelay: a pause still to come is put off from its own start.
GrantBase(w) == IF Pending(w, now) THEN OneTimeStart(w) ELSE now
GrantEnd(w, start) == IF w.kind = "always" THEN NextMorning(start) ELSE w.until

\* Slip: any pause that is to end today is lifted.
ShortOfADay(until, start) == until < start + ((Day * Second) \div 2)
\* The grant outlasts the pause.
Outlasts(until, start) == until <= start + Second

\* A refused grant leaves the pause; one that outlasts it lifts it.
Grant ==
  /\ IsPause
  /\ \E delay \in Delays :
       LET start == GrantBase(when) + delay * Second
           until == GrantEnd(when, start)
           w     == OneTimeUntil(start, until) IN
       /\ granted' = (IF Minute(asked.from) > now THEN Minute(asked.from) ELSE now) + delay * Second
       /\ \/ /\ Outlasts(until, start)
             /\ Store(None) /\ asked' = None
          \/ /\ ~Outlasts(until, start) /\ ~Refused(w)
             /\ Store(w) /\ asked' = [from |-> start, until |-> until]
  /\ UNCHANGED now

Resume ==
  /\ IsPause
  /\ Store(None) /\ asked' = None /\ granted' = 0
  /\ UNCHANGED now

\* A rule with a schedule of its own, from the form.
RuleCreate ==
  /\ when = None
  /\ \E w \in Others : ~Refused(w) /\ Store(w)
  /\ granted' = 0
  /\ UNCHANGED <<now, asked>>

RuleDelete ==
  /\ when # None /\ ~IsPause
  /\ Store(None)
  /\ UNCHANGED <<now, asked, granted>>

\* The janitor tidies a spent rule.
Cleanup ==
  /\ when # None /\ Expired(when, now)
  /\ Store(None) /\ asked' = None
  /\ UNCHANGED <<now, granted>>

Tick ==
  /\ now < Horizon
  /\ now' = now + 1
  /\ UNCHANGED <<when, sched, asked, granted>>

Init == now \in 0 .. Horizon /\ when = None /\ sched = None /\ asked = None /\ granted = 0

Next == Pause \/ Grant \/ Resume \/ RuleCreate \/ RuleDelete \/ Cleanup \/ Tick

Spec == Init /\ [][Next]_vars

-----------------------------------------------------------------------------
\* Every variable holds a value of its type; clock times are minutes of a day.
TypeOK ==
  /\ now \in 0 .. Horizon
  /\ when \in When \union {None} /\ sched \in GwWhen \union {None}
  /\ (when = None) = (sched = None)
  /\ asked \in Window \union {None}
  /\ asked # None => when # None
  /\ granted \in Nat

\* "OneTimeStart derives the moment a one-time window opens": from clock times
\* alone it finds the window the parent asked for, to the minute, around midnight
\* and around the morning.
WindowAsAsked ==
  IsPause /\ when.kind = "onetime" =>
    /\ OneTimeStart(when) = Minute(asked.from)
    /\ when.until = asked.until

\* The screen and the gateway agree: what is enforced is shown, and what is shown
\* is enforced, but for the last minute of a one-time window, which the gateway
\* ends with the minute.
ScreenAgrees ==
  when # None =>
    LET shown == ActiveNow(when, now).active IN
    /\ Enforced(sched, now) => shown
    /\ shown /\ ~Enforced(sched, now) => when.kind = "onetime" /\ when.until - now < Second

\* "Blocking until" is true: the rule is enforced up to the minute shown, and not
\* at the moment shown (a rule for whole days may go on with the next day).
EndAsShown ==
  when # None =>
    LET shown == ActiveNow(when, now) IN
    shown.active /\ shown.until # Never =>
      /\ shown.until > now
      /\ \A t \in now .. Minute(shown.until) - 1 : Enforced(sched, t)
      /\ when.start # None => ~Enforced(sched, shown.until)

\* "Enforcement already ended": a window the janitor tidies is not enforced.
SpentIsOver == when # None /\ Expired(when, now) => ~Enforced(sched, now)

\* The time a parent has given is not cut short by the pause it was taken from,
\* but for the seconds of the minute.
GrantHonoured == IsPause /\ now < Minute(granted) => ~Enforced(sched, now)

\* A pause nobody resumed or replaced goes only when it is spent, or when a grant
\* would leave a minute of it or less.
PauseNotLost ==
  [][IsPause /\ when' = None =>
       \/ Resume \/ Pause
       \/ now > asked.until /\ when.kind = "onetime"
       \/ LET end == IF when.kind = "always" THEN NextMorning(granted') ELSE asked.until
          IN  granted' > now /\ end <= granted' + Second]_vars
=============================================================================
