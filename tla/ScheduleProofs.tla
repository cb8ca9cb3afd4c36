--------------------------- MODULE ScheduleProofs ---------------------------
(***************************************************************************)
(* What holds of Schedule for every length of a minute, a day and a week,   *)
(* every morning, delay and duration: for real clocks, where the runs have  *)
(* short days.  Moments are compared by their minutes, and minutes by the   *)
(* day and the clock time they are.                                         *)
(***************************************************************************)
EXTENDS Schedule, TLAPS

-----------------------------------------------------------------------------
(* Clocks.                                                                   *)

LEMMA Division ==
  ASSUME NEW a \in Int, NEW b \in Nat \ {0}
  PROVE  /\ a \div b \in Int /\ a % b \in 0 .. b - 1
         /\ a = (a \div b) * b + (a % b)
<1>1. a \div b \in Int /\ a % b \in Int
  OBVIOUS
<1>2. 0 <= a % b /\ a % b < b
  OBVIOUS
<1>3. a = (a \div b) * b + (a % b)
  OBVIOUS
<1> QED BY <1>1, <1>2, <1>3

LEMMA Product ==
  ASSUME NEW a \in Int, NEW b \in Int, NEW n \in Nat \ {0}
  PROVE  /\ a * n \in Int /\ b * n \in Int
         /\ a < b => a * n + n <= b * n
         /\ a <= b => a * n <= b * n
OBVIOUS

\* Division has one result.
LEMMA Quotient ==
  ASSUME NEW q \in Int, NEW b \in Nat \ {0}, NEW r \in 0 .. b - 1, NEW a \in Int, a = q * b + r
  PROVE  a \div b = q /\ a % b = r
<1>1. a = (a \div b) * b + (a % b) /\ a % b \in 0..b-1 /\ a \div b \in Int
  BY Division
<1>2. ~(a \div b < q)
  BY <1>1, Product
<1>3. ~(a \div b > q)
  BY <1>1, Product
<1> QED BY <1>1, <1>2, <1>3

\* A moment is a minute and some seconds; a minute is a day and a clock time.
LEMMA MinuteOf ==
  ASSUME NEW t \in Int
  PROVE  /\ Minutes(t) \in Int
         /\ Minutes(t) * Second <= t /\ t < Minutes(t) * Second + Second
<1> DEFINE m == Minutes(t)
<1>1. m \in Int /\ t % Second \in 0 .. Second - 1 /\ t = m * Second + (t % Second)
  BY Division, ClockAssumption DEF Minutes
<1>2. m * Second \in Int
  BY <1>1, ClockAssumption
<1> HIDE DEF m
<1> QED BY <1>1, <1>2, ClockAssumption DEF m

LEMMA MinuteIs ==
  ASSUME NEW t \in Int, NEW m \in Int, m * Second <= t, t < m * Second + Second
  PROVE  Minutes(t) = m
<1>1. t - m * Second \in 0 .. Second - 1 /\ t = m * Second + (t - m * Second)
  BY Product, ClockAssumption
<1> QED BY <1>1, Quotient, ClockAssumption DEF Minutes

LEMMA DayOf ==
  ASSUME NEW t \in Int
  PROVE  /\ Date(t) \in Int /\ Clock(t) \in Clocks /\ Clock(t) \in Int
         /\ Minutes(t) = Date(t) * Day + Clock(t)
<1> DEFINE m == Minutes(t)
           d == m \div Day
           c == m % Day
           s == t % Second
<1>1. m \in Int /\ s \in 0 .. Second - 1 /\ t = m * Second + s
  BY Division, ClockAssumption DEF Minutes
<1>2. d \in Int /\ c \in Clocks /\ m = d * Day + c
  BY <1>1, Division, ClockAssumption DEF Clocks
<1>3. Clock(t) = c
  BY DEF Clock, Minutes
<1>4. Date(t) = d
  <2> DEFINE r == c * Second + s
  <2>1. (d * Day + c) * Second = d * (Second * Day) + c * Second
    BY <1>2, ClockAssumption DEF Clocks
  <2>2. t = d * (Second * Day) + r
    BY <1>1, <1>2, <2>1, ClockAssumption DEF Clocks
  <2>3. r \in 0 .. Second * Day - 1
    <3> HIDE DEF d, m, c, s
    <3>1. c * Second + Second <= Day * Second /\ 0 <= c * Second
      BY <1>2, Product, ClockAssumption DEF Clocks
    <3> QED BY <1>1, <1>2, <3>1, ClockAssumption DEF Clocks
  <2>4. Second * Day \in Nat \ {0}
    BY ClockAssumption
  <2> HIDE DEF r, d
  <2> QED BY <1>2, <2>2, <2>3, <2>4, Quotient DEF Date
<1> QED BY <1>2, <1>3, <1>4 DEF Clocks

\* The moment a clock shows m on a day, and what the clock shows then.
LEMMA Moment ==
  ASSUME NEW d \in Int, NEW m \in Int, NEW t \in Int
  PROVE  /\ At(d, m) \in Int
         /\ Minutes(At(d, m)) = d * Day + m
         /\ At(d, m) <= t <=> d * Day + m <= Minutes(t)
<1> DEFINE n == d * Day + m
<1>1. n \in Int /\ At(d, m) = n * Second
  BY ClockAssumption DEF At
<1>2. n * Second \in Int
  BY <1>1, ClockAssumption
<1> HIDE DEF n
<1>3. Minutes(At(d, m)) = n
  BY <1>1, <1>2, MinuteIs, ClockAssumption
<1>4. n * Second <= t <=> n <= Minutes(t)
  <2> DEFINE k == Minutes(t)
  <2>1. k \in Int /\ k * Second <= t /\ t < k * Second + Second
    BY MinuteOf
  <2> HIDE DEF k
  <2>2. /\ n <= k => n * Second <= k * Second
        /\ k < n => k * Second + Second <= n * Second
    BY <1>1, <2>1, Product, ClockAssumption
  <2>3. k * Second \in Int
    BY <2>1, ClockAssumption
  <2>4. n * Second <= t <=> n <= k
    BY <1>1, <1>2, <2>1, <2>2, <2>3, ClockAssumption
  <2> QED BY <2>4 DEF k
<1> QED BY <1>1, <1>2, <1>3, <1>4 DEF n

LEMMA DayIs ==
  ASSUME NEW t \in Int, NEW d \in Int, NEW c \in Clocks, Minutes(t) = d * Day + c
  PROVE  Date(t) = d /\ Clock(t) = c
<1>1. Minutes(t) \in Int /\ Date(t) \in Int /\ Clock(t) \in Clocks
      /\ Minutes(t) = Date(t) * Day + Clock(t)
  BY MinuteOf, DayOf
<1>2. Minutes(t) \div Day = d /\ Minutes(t) % Day = c
  BY <1>1, Quotient, ClockAssumption DEF Clocks
<1>3. Minutes(t) \div Day = Date(t) /\ Minutes(t) % Day = Clock(t)
  <2> DEFINE m == Minutes(t)  e == Date(t)  k == Clock(t)
  <2> HIDE DEF m, e, k
  <2>1. m \in Int /\ e \in Int /\ k \in 0 .. Day - 1 /\ m = e * Day + k
    BY <1>1 DEF m, e, k, Clocks
  <2>2. Day \in Nat \ {0}
    BY ClockAssumption
  <2>3. m \div Day = e /\ m % Day = k
    BY <2>1, <2>2, Quotient
  <2> QED BY <2>3 DEF m, e, k
<1> QED BY <1>2, <1>3

\* Days one after the other.
LEMMA Days ==
  ASSUME NEW d \in Int, NEW e \in Int
  PROVE  /\ d * Day \in Int /\ e * Day \in Int
         /\ d < e => d * Day + Day <= e * Day
         /\ (d - 1) * Day = d * Day - Day /\ (d + 1) * Day = d * Day + Day
<1>1. d * Day \in Int /\ e * Day \in Int /\ (d < e => d * Day + Day <= e * Day)
  BY Product, ClockAssumption
<1>2. (d - 1) * Day = d * Day - Day
  BY ClockAssumption
<1>3. (d + 1) * Day = d * Day + Day
  BY ClockAssumption
<1> QED BY <1>1, <1>2, <1>3

\* A day has a place in the week.
LEMMA WeekdayOf ==
  ASSUME NEW d \in Int
  PROVE  Weekday(d) \in Weekdays
<1>1. Week \in Nat \ {0}
  BY ClockAssumption
<1> QED BY <1>1, Division DEF Weekday, Weekdays

-----------------------------------------------------------------------------
(* Schedules.                                                                *)

LEMMA FormedFields ==
  ASSUME NEW w, Formed(w)
  PROVE  /\ w \in When /\ w # None
         /\ \/ w.kind = "always" /\ w = Always
            \/ w.kind = "recurring" /\ w.start = None /\ w.end = None /\ w.until = Never
            \/ /\ w.kind = "recurring" /\ w.until = Never
               /\ w.start \in Clocks /\ w.end \in Clocks /\ w.start # None
            \/ /\ w.kind = "onetime" /\ w = OneTime(w.start, w.until)
               /\ w.start \in Clocks /\ w.until \in Nat /\ w.start # None
<1>1. CASE w = Always
  BY <1>1, NoneAssumption DEF Always, When
<1>2. CASE w = AllDay(w.days) /\ w.days \subseteq Weekdays
  BY <1>2, NoneAssumption DEF AllDay, Recurring, When
<1>3. CASE w = Recurring(w.days, w.start, w.end) /\ w.days \subseteq Weekdays /\ {w.start, w.end} \subseteq Clocks
  BY <1>3, NoneAssumption DEF Recurring, When
<1>4. CASE w = OneTime(w.start, w.until) /\ w.start \in Clocks /\ w.until \in Nat
  BY <1>4, NoneAssumption DEF OneTime, When
<1> QED BY <1>1, <1>2, <1>3, <1>4 DEF Formed

LEMMA OneTimeFields ==
  ASSUME NEW start, NEW until
  PROVE  LET w == OneTime(start, until)
         IN  /\ w.kind = "onetime" /\ w.start = start /\ w.until = until
             /\ w # Always
             /\ start \in Clocks /\ until \in Nat => Formed(w)
<1> DEFINE w == OneTime(start, until)
<1>1. w.kind = "onetime" /\ w.start = start /\ w.until = until
  BY DEF OneTime
<1>2. Always.kind = "always"
  BY DEF Always
<1>3. w = OneTime(w.start, w.until)
  BY <1>1
<1> QED BY <1>1, <1>2, <1>3 DEF Formed

\* The gateway's window opens at the first moment and ends at the minute of the
\* last.
LEMMA OneTimeEnforced ==
  ASSUME NEW w, w.kind = "onetime", w.start \in Clocks, w.start # None, w.until \in Nat, NEW t \in Int
  PROVE  Enforced(TranslateSchedule(w), t) <=> OneTimeStart(w) <= t /\ t < Minute(w.until)
<1> DEFINE s == [mode |-> "one_time", date |-> StartDate(w), start |-> w.start, end |-> Clock(w.until)]
<1>1. TranslateSchedule(w) = s
  BY DEF TranslateSchedule
<1>2. Enforced(s, t) <=> Within(StartDate(w), w.start, Clock(w.until), t)
  BY DEF Enforced
<1>3. Date(w.until) \in Int /\ Clock(w.until) \in Int
  BY DayOf
<1>4. (IF Clock(w.until) < w.start THEN StartDate(w) + 1 ELSE StartDate(w)) = Date(w.until)
  BY <1>3 DEF StartDate
<1> QED BY <1>1, <1>2, <1>4 DEF Within, OneTimeStart, Minute

\* From the clock time alone: the day the window opens on is found again.
LEMMA WindowStart ==
  ASSUME NEW from \in Nat, NEW until \in Nat, Minutes(until) - Minutes(from) \in 1 .. Day - 1
  PROVE  /\ OneTimeStart(OneTimeUntil(from, until)) = Minute(from)
         /\ ~Refused(OneTimeUntil(from, until))
<1> DEFINE w == OneTimeUntil(from, until)
           d == Date(from)  e == Date(until)  b == Clock(from)  c == Clock(until)
<1>1. /\ w.kind = "onetime" /\ w.start = b /\ w.until = until
  BY OneTimeFields DEF OneTimeUntil
<1>2. /\ d \in Int /\ e \in Int /\ b \in 0 .. Day - 1 /\ c \in 0 .. Day - 1
      /\ Minutes(from) = d * Day + b /\ Minutes(until) = e * Day + c
  BY DayOf DEF Clocks
<1>3. (e * Day + c) - (d * Day + b) \in 1 .. Day - 1
  BY <1>2
<1> DEFINE f == e - 1
<1>4. /\ d * Day \in Int /\ e * Day \in Int /\ f * Day = e * Day - Day
      /\ (e < d => e * Day + Day <= d * Day) /\ (d < e => d * Day + Day <= e * Day)
      /\ (d < f => d * Day + Day <= f * Day)
  <2> HIDE DEF d, e
  <2>1. f \in Int
    BY <1>2
  <2>2. f * Day = e * Day - Day
    BY <1>2, Days
  <2> HIDE DEF f
  <2> QED BY <1>2, <2>1, <2>2, Days
<1>5. d = IF c < b THEN e - 1 ELSE e
  <2> HIDE DEF b, c, d, e
  <2>1. ~(e < d)
    BY <1>2, <1>3, <1>4, ClockAssumption
  <2>2. ~(d < f)
    BY <1>2, <1>3, <1>4, ClockAssumption
  <2>3. d = e \/ d = e - 1
    BY <1>2, <2>1, <2>2
  <2>4. CASE d = e
    BY <1>2, <1>3, <1>4, <2>4, ClockAssumption
  <2>5. CASE d = e - 1
    BY <1>2, <1>3, <1>4, <2>5, ClockAssumption
  <2> QED BY <2>3, <2>4, <2>5
<1>6. b # c
  <2> HIDE DEF b, c, d, e
  <2> QED BY <1>2, <1>3, <1>4, <1>5, ClockAssumption
<1>7. StartDate(w) = d
  BY <1>1, <1>5 DEF StartDate
<1>8. w.start # Clock(w.until)
  BY <1>1, <1>6
<1> QED BY <1>1, <1>7, <1>8 DEF OneTimeStart, Minute, Refused

LEMMA MinuteMoment ==
  ASSUME NEW t \in Nat
  PROVE  /\ Minutes(t) \in Nat /\ Minute(t) \in Nat /\ Minute(t) <= t
         /\ Minutes(Minute(t)) = Minutes(t)
         /\ \A s \in Int : Minute(t) <= s <=> Minutes(t) <= Minutes(s)
<1>1. /\ t \in Int /\ Date(t) \in Int /\ Clock(t) \in Int
      /\ Date(t) * Day + Clock(t) = Minutes(t)
  BY DayOf
<1>2. ASSUME NEW s \in Int
      PROVE  /\ Minute(t) \in Int /\ Minutes(Minute(t)) = Minutes(t)
             /\ Minute(t) <= s <=> Minutes(t) <= Minutes(s)
  <2> DEFINE d == Date(t)  c == Clock(t)
  <2>1. Minute(t) = At(d, c) /\ d \in Int /\ c \in Int /\ d * Day + c = Minutes(t)
    BY <1>1 DEF Minute
  <2> HIDE DEF d, c
  <2>2. /\ At(d, c) \in Int /\ Minutes(At(d, c)) = d * Day + c
        /\ At(d, c) <= s <=> d * Day + c <= Minutes(s)
    BY <2>1, Moment
  <2> QED BY <2>1, <2>2
<1>3. Minute(t) <= t /\ Minutes(t) \in Int
  BY <1>1, <1>2, MinuteOf
<1>4. Minutes(t) \in Nat
  BY ClockAssumption DEF Minutes
<1>5. Minute(t) = Minutes(t) * Second
  BY <1>1 DEF Minute, At
<1>6. Minute(t) \in Nat
  BY <1>4, <1>5, ClockAssumption
<1> QED BY <1>2, <1>3, <1>4, <1>6

LEMMA MinutesGrow ==
  ASSUME NEW s \in Int, NEW t \in Int
  PROVE  s <= t => Minutes(s) <= Minutes(t)
<1> DEFINE m == Minutes(s)  n == Minutes(t)
<1>1. /\ m \in Int /\ n \in Int /\ m * Second <= s /\ t < n * Second + Second
  BY MinuteOf
<1> HIDE DEF m, n
<1>2. n < m => n * Second + Second <= m * Second
  BY <1>1, Product, ClockAssumption
<1>3. n * Second \in Int /\ m * Second \in Int /\ Second \in Int
  BY <1>1, ClockAssumption
<1>4. s <= t => m <= n
  BY <1>1, <1>2, <1>3
<1> QED BY <1>4 DEF m, n

LEMMA Later ==
  ASSUME NEW t \in Nat, NEW k \in Nat
  PROVE  t + k * Second \in Nat /\ Minutes(t + k * Second) = Minutes(t) + k
<1> DEFINE m == Minutes(t)
<1>1. m \in Int /\ m * Second <= t /\ t < m * Second + Second
  BY MinuteOf
<1> HIDE DEF m
<1>2. /\ (m + k) * Second = m * Second + k * Second
      /\ m * Second \in Int /\ k * Second \in Nat /\ (m + k) * Second \in Int
  BY <1>1, ClockAssumption
<1>3. t + k * Second \in Nat
  BY <1>2
<1>4. (m + k) * Second <= t + k * Second /\ t + k * Second < (m + k) * Second + Second
  BY <1>1, <1>2, ClockAssumption
<1>5. Minutes(t + k * Second) = m + k
  BY <1>1, <1>3, <1>4, MinuteIs
<1> QED BY <1>3, <1>5 DEF m

LEMMA MorningNext ==
  ASSUME NEW t \in Nat
  PROVE  /\ NextMorning(t) \in Nat
         /\ Minutes(NextMorning(t)) - Minutes(t) \in 1 .. Day
<1> DEFINE d == Date(t)  c == Clock(t)  e == d + 1
<1>1. /\ d \in Int /\ c \in 0 .. Day - 1 /\ Minutes(t) = d * Day + c /\ e \in Int
      /\ Morning \in 0 .. Day - 1 /\ Day \in Nat /\ Minutes(t) \in Int
  BY DayOf, MinuteOf, ClockAssumption DEF Clocks
<1>2. ASSUME NEW x \in {d, e}
      PROVE  /\ At(x, Morning) \in Int /\ Minutes(At(x, Morning)) = x * Day + Morning
             /\ At(x, Morning) <= t <=> x * Day + Morning <= Minutes(t)
  <2>1. x \in Int /\ Morning \in Int /\ t \in Int
    BY <1>1
  <2> HIDE DEF d, e
  <2> QED BY <2>1, Moment
<1>3. NextMorning(t) = IF t < At(d, Morning) THEN At(d, Morning) ELSE At(e, Morning)
  BY DEF NextMorning
<1> HIDE DEF d, c
<1>4. d * Day \in Int /\ e * Day = d * Day + Day
  BY <1>1, Days
<1> HIDE DEF e
<1>5. CASE t < At(d, Morning)
  BY <1>1, <1>2, <1>3, <1>4, <1>5
<1>6. CASE ~(t < At(d, Morning))
  BY <1>1, <1>2, <1>3, <1>4, <1>6
<1> QED BY <1>5, <1>6

LEMMA MinuteRest ==
  ASSUME NEW t \in Nat
  PROVE  Minute(t) \in Nat /\ Minute(t) <= t /\ t - Minute(t) < Second
<1>1. /\ Date(t) \in Int /\ Clock(t) \in Int /\ Date(t) * Day + Clock(t) = Minutes(t)
  BY DayOf
<1>2. Minute(t) = Minutes(t) * Second
  BY <1>1 DEF Minute, At
<1>3. Minute(t) \in Nat /\ Minute(t) <= t
  BY MinuteMoment
<1> QED BY <1>2, <1>3, MinuteOf, ClockAssumption

\* A window of a whole day is the only one up to that length that is refused.
LEMMA WholeDay ==
  ASSUME NEW from \in Nat, NEW until \in Nat, Minutes(until) - Minutes(from) \in 1 .. Day,
         ~Refused(OneTimeUntil(from, until))
  PROVE  Minutes(until) - Minutes(from) \in 1 .. Day - 1
<1> DEFINE d == Date(from)  c == Clock(from)  e == d + 1
<1>1. /\ d \in Int /\ c \in Clocks /\ c \in Int /\ Minutes(from) = d * Day + c
      /\ Minutes(from) \in Int /\ Minutes(until) \in Int /\ Day \in Nat /\ e \in Int
  BY DayOf, MinuteOf, ClockAssumption
<1>2. SUFFICES ASSUME Minutes(until) - Minutes(from) = Day PROVE FALSE
  BY <1>1
<1>3. Minutes(until) = e * Day + c
  <2> HIDE DEF d, c
  <2>1. d * Day \in Int /\ e * Day = d * Day + Day
    BY <1>1, Days
  <2> HIDE DEF e
  <2> QED BY <1>1, <1>2, <2>1
<1>4. Clock(until) = c
  BY <1>1, <1>3, DayIs
<1> QED BY <1>4, OneTimeFields DEF OneTimeUntil, Refused

-----------------------------------------------------------------------------
(* The store, the gateway and the parent's request.                          *)

\* The gateway has the translation of the stored schedule, which is one that
\* translates.
StoreOK ==
  IF when = None THEN sched = None /\ asked = None
  ELSE Formed(when) /\ ~Refused(when) /\ sched = TranslateSchedule(when)

\* A pause with an end is the window it was asked for, shorter than a day, and
\* begins after the time that was given.
PauseOK ==
  IsPause =>
    \/ when = Always /\ asked.from <= now /\ granted = 0
    \/ /\ when = OneTimeUntil(asked.from, asked.until)
       /\ asked.until \in Nat
       /\ Minutes(asked.until) - Minutes(asked.from) \in 1 .. Day - 1
       /\ Minutes(granted) <= Minutes(asked.from)

ScheduleInv ==
  /\ now \in 0 .. Horizon /\ granted \in Nat /\ asked \in Window \union {None}
  /\ StoreOK /\ PauseOK

LEMMA StoreForgets ==
  ASSUME Store(None), asked' = None
  PROVE  StoreOK' /\ PauseOK'
BY DEF Store, StoreOK, PauseOK, IsPause

LEMMA StoreWindow ==
  ASSUME NEW from \in Nat, NEW until \in Nat, Minutes(until) - Minutes(from) \in 1 .. Day,
         ~Refused(OneTimeUntil(from, until)), Store(OneTimeUntil(from, until)),
         asked' = [from |-> from, until |-> until], granted' \in Nat,
         Minutes(granted') <= Minutes(from)
  PROVE  StoreOK' /\ PauseOK' /\ asked' \in Window
<1> DEFINE w == OneTimeUntil(from, until)
<1>1. Formed(w)
  BY DayOf, OneTimeFields DEF OneTimeUntil
<1>2. w # None
  BY <1>1, FormedFields
<1>3. Minutes(until) - Minutes(from) \in 1 .. Day - 1
  BY WholeDay
<1>4. when' = w /\ sched' = TranslateSchedule(w)
  BY <1>2 DEF Store
<1>5. StoreOK'
  BY <1>1, <1>2, <1>4 DEF StoreOK
<1>6. asked'.from = from /\ asked'.until = until /\ asked' \in Window
  BY DEF Window
<1>7. PauseOK'
  BY <1>3, <1>4, <1>6 DEF PauseOK
<1> QED BY <1>5, <1>6, <1>7

LEMMA PauseKeeps ==
  ASSUME ScheduleInv, Pause
  PROVE  ScheduleInv'
<1>1. now \in Nat /\ now' = now /\ granted' = 0 /\ 0 \in Nat
  BY DEF ScheduleInv, Pause, PauseFor
<1>2. ASSUME NEW from \in Nat, NEW until \in Nat, Minutes(until) - Minutes(from) \in 1 .. Day,
             PauseFor(OneTimeUntil(from, until), from)
      PROVE  StoreOK' /\ PauseOK' /\ asked' \in Window \union {None}
  <2>1. CASE Refused(OneTimeUntil(from, until))
    BY <1>2, <2>1, StoreForgets DEF PauseFor
  <2>2. CASE ~Refused(OneTimeUntil(from, until))
    <3>1. OneTimeUntil(from, until).until = until
      BY OneTimeFields DEF OneTimeUntil
    <3>2. Store(OneTimeUntil(from, until)) /\ asked' = [from |-> from, until |-> until]
      BY <1>2, <2>2, <3>1 DEF PauseFor
    <3>3. Minutes(granted') <= Minutes(from)
      BY <1>1, MinutesGrow
    <3> QED BY <1>1, <1>2, <2>2, <3>2, <3>3, StoreWindow
  <2> QED BY <2>1, <2>2
<1>3. CASE PauseFor(Always, now)
  <2>1. Formed(Always) /\ ~Refused(Always) /\ Always # None /\ Always.until = Never
    BY FormedFields DEF Formed, Refused, Always
  <2>2. /\ when' = Always /\ sched' = TranslateSchedule(Always)
        /\ asked' = [from |-> now, until |-> Never]
    BY <1>3, <2>1 DEF PauseFor, Store
  <2>3. StoreOK'
    BY <2>1, <2>2 DEF StoreOK
  <2>4. PauseOK' /\ asked' \in Window
    BY <1>1, <2>2 DEF PauseOK, Window
  <2> QED BY <1>1, <2>3, <2>4 DEF ScheduleInv
<1>4. ASSUME NEW delay \in Delays \union {0}, NEW start, start = now + delay * Second,
             \/ PauseFor(OneTimeUntil(start, NextMorning(start)), start)
             \/ \E d \in Durations : PauseFor(OneTimeUntil(start, start + d * Second), start)
      PROVE  StoreOK' /\ PauseOK' /\ asked' \in Window \union {None}
  <2>1. delay \in Nat
    BY ClockAssumption
  <2>2. start \in Nat
    BY <1>1, <1>4, <2>1, Later
  <2>3. CASE PauseFor(OneTimeUntil(start, NextMorning(start)), start)
    BY <1>2, <2>2, <2>3, MorningNext
  <2>4. CASE \E d \in Durations : PauseFor(OneTimeUntil(start, start + d * Second), start)
    <3>1. PICK d \in Durations : PauseFor(OneTimeUntil(start, start + d * Second), start)
      BY <2>4
    <3>2. d \in Nat /\ d \in 1 .. Day /\ Minutes(start) \in Int
      BY <2>2, ClockAssumption, MinuteOf
    <3>3. start + d * Second \in Nat /\ Minutes(start + d * Second) = Minutes(start) + d
      BY <2>2, <3>2, Later
    <3>4. Minutes(start + d * Second) - Minutes(start) \in 1 .. Day
      BY <3>2, <3>3
    <3> QED BY <1>2, <2>2, <3>1, <3>3, <3>4
  <2> QED BY <1>4, <2>3, <2>4
<1>5. (StoreOK' /\ PauseOK' /\ asked' \in Window \union {None}) \/ ScheduleInv'
  BY <1>3, <1>4 DEF Pause
<1> QED BY <1>1, <1>5 DEF ScheduleInv

\* A pause with an end opens at the minute it was asked to.
LEMMA PauseWindow ==
  ASSUME ScheduleInv, IsPause
  PROVE  /\ asked \in Window /\ asked.from \in Nat /\ now \in Nat
         /\ when # None /\ Formed(when) /\ ~Refused(when) /\ sched = TranslateSchedule(when)
         /\ \/ when = Always /\ when.kind = "always" /\ asked.from <= now /\ granted = 0
            \/ /\ when.kind = "onetime" /\ when.start \in Clocks /\ when.until = asked.until
               /\ asked.until \in Nat
               /\ OneTimeStart(when) = Minute(asked.from)
               /\ Minutes(asked.until) - Minutes(asked.from) \in 1 .. Day - 1
               /\ Minutes(granted) <= Minutes(asked.from)
<1>1. /\ asked \in Window /\ now \in Nat
      /\ when # None /\ Formed(when) /\ ~Refused(when) /\ sched = TranslateSchedule(when)
  BY DEF ScheduleInv, StoreOK, IsPause
<1>2. asked.from \in Nat
  BY <1>1 DEF Window
<1>3. CASE when = Always /\ asked.from <= now /\ granted = 0
  BY <1>1, <1>2, <1>3 DEF Always
<1>4. CASE /\ when = OneTimeUntil(asked.from, asked.until)
           /\ asked.until \in Nat
           /\ Minutes(asked.until) - Minutes(asked.from) \in 1 .. Day - 1
           /\ Minutes(granted) <= Minutes(asked.from)
  <2>1. when.kind = "onetime" /\ when.start = Clock(asked.from) /\ when.until = asked.until
    BY <1>4, OneTimeFields DEF OneTimeUntil
  <2>2. when.start \in Clocks
    BY <1>2, <2>1, DayOf
  <2>3. OneTimeStart(when) = Minute(asked.from)
    BY <1>2, <1>4, WindowStart
  <2> QED BY <1>1, <1>2, <1>4, <2>1, <2>2, <2>3
<1> QED BY <1>3, <1>4 DEF ScheduleInv, PauseOK

\* The time a parent gives begins where the pause is put off from.
LEMMA GrantFrom ==
  ASSUME ScheduleInv, IsPause
  PROVE  /\ GrantBase(when) \in Nat
         /\ GrantBase(when) = IF Minute(asked.from) > now THEN Minute(asked.from) ELSE now
         /\ when.kind = "onetime" => Minutes(asked.from) <= Minutes(GrantBase(when))
<1>1. /\ asked.from \in Nat /\ now \in Nat
      /\ \/ when.kind = "always" /\ asked.from <= now
         \/ when.kind = "onetime" /\ OneTimeStart(when) = Minute(asked.from)
  BY PauseWindow
<1>2. /\ Minute(asked.from) \in Nat /\ Minute(asked.from) <= asked.from
      /\ Minutes(Minute(asked.from)) = Minutes(asked.from) /\ Minutes(asked.from) \in Nat
      /\ Minute(asked.from) <= now <=> Minutes(asked.from) <= Minutes(now)
  BY <1>1, MinuteMoment
<1>3. CASE when.kind = "always"
  BY <1>1, <1>2, <1>3 DEF GrantBase, Pending
<1>4. CASE when.kind = "onetime"
  <2>1. GrantBase(when) = IF now < Minute(asked.from) THEN Minute(asked.from) ELSE now
    BY <1>1, <1>4 DEF GrantBase, Pending
  <2> QED BY <1>1, <1>2, <2>1
<1> QED BY <1>1, <1>3, <1>4

LEMMA GrantKeeps ==
  ASSUME ScheduleInv, Grant
  PROVE  ScheduleInv'
<1>p. IsPause /\ now' = now
  BY DEF Grant
<1>1. PICK delay \in Delays :
        LET start == GrantBase(when) + delay * Second
            until == GrantEnd(when, start)
            w     == OneTimeUntil(start, until) IN
        /\ granted' = (IF Minute(asked.from) > now THEN Minute(asked.from) ELSE now) + delay * Second
        /\ \/ /\ Outlasts(until, start)
              /\ Store(None) /\ asked' = None
           \/ /\ ~Outlasts(until, start) /\ ~Refused(w)
              /\ Store(w) /\ asked' = [from |-> start, until |-> until]
  BY DEF Grant
<1> DEFINE start == GrantBase(when) + delay * Second
           until == GrantEnd(when, start)
<1>2. granted' = start
  BY <1>1, <1>p, GrantFrom
<1>3. /\ delay \in Nat /\ GrantBase(when) \in Nat
      /\ start \in Nat /\ Minutes(start) = Minutes(GrantBase(when)) + delay
  BY <1>p, GrantFrom, Later, ClockAssumption
<1>4. CASE Outlasts(until, start) /\ Store(None) /\ asked' = None
  <2>1. StoreOK' /\ PauseOK'
    BY <1>4, StoreForgets
  <2> QED BY <1>2, <1>3, <1>4, <1>p, <2>1 DEF ScheduleInv
<1>5. CASE /\ ~Outlasts(until, start) /\ ~Refused(OneTimeUntil(start, until))
           /\ Store(OneTimeUntil(start, until)) /\ asked' = [from |-> start, until |-> until]
  <2> HIDE DEF start, until
  <2>1. until \in Nat /\ Minutes(until) - Minutes(start) \in 1 .. Day
    <3>1. CASE when.kind = "always"
      <4>1. until = NextMorning(start)
        BY <3>1 DEF GrantEnd, until
      <4> QED BY <1>3, <4>1, MorningNext
    <3>2. CASE when.kind = "onetime"
      <4>1. /\ until = asked.until /\ asked.until \in Nat /\ asked.from \in Nat
            /\ Minutes(asked.until) - Minutes(asked.from) \in 1 .. Day - 1
        BY <1>p, <3>2, PauseWindow DEF GrantEnd, until
      <4>2. Minutes(asked.from) <= Minutes(GrantBase(when))
        BY <1>p, <3>2, GrantFrom
      <4>3. start + Second <= until
        BY <1>3, <1>5, <4>1, ClockAssumption DEF Outlasts
      <4>4. Minutes(start + Second) = Minutes(start) + 1
        BY <1>3, Later, ClockAssumption
      <4>5. Minutes(start) + 1 <= Minutes(until)
        BY <1>3, <4>1, <4>3, <4>4, MinutesGrow, ClockAssumption
      <4>6. /\ Minutes(start) \in Int /\ Minutes(until) \in Int /\ Minutes(asked.from) \in Int
            /\ Minutes(GrantBase(when)) \in Int /\ Day \in Nat
        BY <1>3, <4>1, MinuteOf, ClockAssumption
      <4> QED BY <1>3, <4>1, <4>2, <4>5, <4>6
    <3> QED BY <1>p, <3>1, <3>2, PauseWindow
  <2>2. Minutes(granted') <= Minutes(start)
    BY <1>2, <1>3, MinuteOf
  <2>3. StoreOK' /\ PauseOK' /\ asked' \in Window
    BY <1>2, <1>3, <1>5, <2>1, <2>2, StoreWindow
  <2> QED BY <1>2, <1>3, <1>p, <2>3 DEF ScheduleInv
<1> QED BY <1>1, <1>4, <1>5

LEMMA OtherKeeps ==
  ASSUME ScheduleInv, Resume \/ RuleCreate \/ RuleDelete \/ Cleanup \/ Tick \/ UNCHANGED vars
  PROVE  ScheduleInv'
<1>n. 0 \in Nat /\ now \in Nat /\ Horizon \in Nat /\ granted \in Nat
  BY ClockAssumption DEF ScheduleInv
<1>1. CASE Resume \/ Cleanup \/ RuleDelete
  <2>1. now' = now /\ granted' \in Nat /\ Store(None) /\ asked' = None
    BY <1>1, <1>n DEF Resume, Cleanup, RuleDelete, IsPause
  <2>2. StoreOK' /\ PauseOK'
    BY <2>1, StoreForgets
  <2> QED BY <2>1, <2>2 DEF ScheduleInv
<1>2. CASE RuleCreate
  <2>1. PICK w \in Others : ~Refused(w) /\ Store(w)
    BY <1>2 DEF RuleCreate
  <2>2. Formed(w) /\ w # None
    BY OthersAssumption, FormedFields
  <2>3. asked = None /\ asked' = None /\ now' = now /\ granted' = 0
    BY <1>2 DEF RuleCreate, ScheduleInv, StoreOK
  <2>4. StoreOK' /\ PauseOK'
    BY <2>1, <2>2, <2>3 DEF Store, StoreOK, PauseOK, IsPause
  <2> QED BY <1>n, <2>3, <2>4 DEF ScheduleInv
<1>3. CASE Tick
  <2>1. now' \in 0 .. Horizon /\ now <= now' /\ UNCHANGED <<when, sched, asked, granted>>
    BY <1>3, <1>n DEF Tick
  <2>2. StoreOK'
    BY <2>1 DEF StoreOK, ScheduleInv
  <2>3. PauseOK'
    <3> SUFFICES ASSUME IsPause PROVE PauseOK'
      BY <2>1 DEF PauseOK, IsPause
    <3>1. asked.from \in Nat
      BY PauseWindow
    <3>2. asked.from <= now => asked.from <= now'
      BY <1>n, <2>1, <3>1
    <3> QED BY <2>1, <3>2 DEF ScheduleInv, PauseOK, IsPause
  <2> QED BY <2>1, <2>2, <2>3 DEF ScheduleInv
<1>4. CASE UNCHANGED vars
  BY <1>4 DEF ScheduleInv, StoreOK, PauseOK, IsPause, vars
<1> QED BY <1>1, <1>2, <1>3, <1>4

LEMMA InitSchedule == Init => ScheduleInv
BY DEF Init, ScheduleInv, StoreOK, PauseOK, IsPause

LEMMA NextSchedule == ScheduleInv /\ [Next]_vars => ScheduleInv'
BY PauseKeeps, GrantKeeps, OtherKeeps DEF Next

-----------------------------------------------------------------------------
(* What is stored, enforced and shown.                                       *)

LEMMA TranslationType ==
  ASSUME NEW w, Formed(w)
  PROVE  TranslateSchedule(w) \in GwWhen /\ TranslateSchedule(w) # None
<1>1. w \in When
  BY FormedFields
<1>2. CASE w.kind = "always"
  BY <1>2, NoneAssumption DEF TranslateSchedule, GwWhen
<1>3. CASE w.kind = "recurring"
  BY <1>1, <1>3, NoneAssumption DEF TranslateSchedule, GwWhen, When
<1>4. CASE w.kind = "onetime"
  <2>1. w.start \in Clocks /\ w.until \in Nat
    BY <1>4, FormedFields
  <2>2. Clock(w.until) \in Clocks /\ StartDate(w) \in Int
    BY <2>1, DayOf DEF StartDate
  <2> QED BY <1>4, <2>1, <2>2, NoneAssumption DEF TranslateSchedule, GwWhen
<1> QED BY <1>1, <1>2, <1>3, <1>4 DEF When

\* Schedules keep their types: clock times are minutes of a day, whatever pauses,
\* grants and rules follow each other.
THEOREM SchedulesAreTyped == Spec => []TypeOK
<1>1. ScheduleInv => TypeOK
  <2> SUFFICES ASSUME ScheduleInv PROVE TypeOK
    OBVIOUS
  <2>1. CASE when = None
    BY <2>1 DEF ScheduleInv, StoreOK, TypeOK
  <2>2. CASE when # None
    BY <2>2, FormedFields, TranslationType DEF ScheduleInv, StoreOK, TypeOK
  <2> QED BY <2>1, <2>2
<1> QED BY <1>1, InitSchedule, NextSchedule, PTL DEF Spec

\* The day and the minute a one-time window opens are found again from its clock
\* time and its end, however long a day is and wherever the morning lies.
THEOREM WindowsOpenAsAsked == Spec => []WindowAsAsked
<1>1. ScheduleInv => WindowAsAsked
  BY PauseWindow DEF WindowAsAsked
<1> QED BY <1>1, InitSchedule, NextSchedule, PTL DEF Spec

-----------------------------------------------------------------------------
(* Recurring windows.                                                        *)

\* Whether recurring schedule w blocks in the window that opens on that day.
On(w, day, t) == Weekday(day) \in w.days /\ Within(day, w.start, w.end, t)

LEMMA RecurringEnforced ==
  ASSUME NEW w \in When, w.kind = "recurring", NEW t \in Int
  PROVE  Enforced(TranslateSchedule(w), t) <=> On(w, Date(t) - 1, t) \/ On(w, Date(t), t)
<1> DEFINE s == TranslateSchedule(w)  d == Date(t)
<1>1. /\ s.start = w.start /\ s.end = w.end
      /\ s.mode = IF w.days = Weekdays THEN "every_day" ELSE "every_week"
      /\ s.days = IF w.days = Weekdays THEN {} ELSE w.days
  BY DEF TranslateSchedule
<1>2. d \in Int /\ Weekday(d) \in Weekdays /\ Weekday(d - 1) \in Weekdays
  BY DayOf, WeekdayOf
<1> HIDE DEF s
<1>3. CASE w.days = Weekdays
  <2>1. s.mode = "every_day"
    BY <1>1, <1>3
  <2>2. Enforced(s, t) <=> \E day \in {d - 1, d} : Within(day, w.start, w.end, t)
    BY <1>1, <2>1 DEF Enforced
  <2> QED BY <1>2, <1>3, <2>2 DEF On, s
<1>4. CASE w.days # Weekdays
  <2>1. s.mode = "every_week"
    BY <1>1, <1>4
  <2>2. Enforced(s, t) <=>
          \E day \in {d - 1, d} : Weekday(day) \in w.days /\ Within(day, w.start, w.end, t)
    BY <1>1, <1>4, <2>1 DEF Enforced
  <2> QED BY <2>2 DEF On, s
<1> QED BY <1>3, <1>4

\* Within, by the day and the clock time of the moment.
LEMMA WithinDay ==
  ASSUME NEW t \in Int, NEW start \in Clocks, NEW end \in Clocks, start # end, NEW e \in Int
  PROVE  LET d == Date(t)  c == Clock(t) IN
         /\ Within(d, start, end, t) <=> start <= c /\ (end < start \/ c < end)
         /\ Within(d - 1, start, end, t) <=> end < start /\ c < end
         /\ Within(e, start, end, t) => e \in {d - 1, d}
<1> DEFINE d == Date(t)  c == Clock(t)
<1>1. /\ d \in Int /\ c \in 0 .. Day - 1 /\ start \in 0 .. Day - 1 /\ end \in 0 .. Day - 1
      /\ Minutes(t) = d * Day + c /\ Day \in Nat
  BY DayOf, ClockAssumption DEF Clocks
<1>n. start # None
  BY NoneAssumption
<1> HIDE DEF d, c
<1>2. /\ d * Day \in Int /\ (d - 1) * Day = d * Day - Day /\ (d + 1) * Day = d * Day + Day
  BY <1>1, Days
<1>3. ASSUME NEW x \in Int, NEW m \in Clocks
      PROVE  At(x, m) <= t <=> x * Day + m <= d * Day + c
  <2>1. m \in Int
    BY DEF Clocks
  <2>2. At(x, m) <= t <=> x * Day + m <= Minutes(t)
    BY <2>1, Moment
  <2> QED BY <1>1, <2>2
<1>4. ASSUME NEW x \in Int, NEW m \in Clocks
      PROVE  At(x, m) \in Int /\ (t < At(x, m) <=> ~(At(x, m) <= t))
  <2>1. m \in Int
    BY DEF Clocks
  <2>2. At(x, m) \in Int
    BY <2>1, Moment
  <2> QED BY <2>2
<1>5. Within(d, start, end, t) <=> start <= c /\ (end < start \/ c < end)
  <2>1. At(d, start) <= t <=> start <= c
    BY <1>1, <1>2, <1>3
  <2>2. t < At(d, end) <=> c < end
    BY <1>1, <1>2, <1>3, <1>4
  <2>3. t < At(d + 1, end)
    BY <1>1, <1>2, <1>3, <1>4
  <2> QED BY <1>n, <2>1, <2>2, <2>3 DEF Within
<1>6. Within(d - 1, start, end, t) <=> end < start /\ c < end
  <2> DEFINE y == d - 1
  <2>y. y \in Int /\ y + 1 = d
    BY <1>1
  <2>1. At(y, start) <= t
    BY <1>1, <1>2, <1>3
  <2>2. ~(t < At(y, end))
    BY <1>1, <1>2, <1>3, <1>4
  <2>3. t < At(d, end) <=> c < end
    BY <1>1, <1>2, <1>3, <1>4
  <2> HIDE DEF y
  <2>4. Within(y, start, end, t) <=> end < start /\ c < end
    BY <1>n, <2>y, <2>1, <2>2, <2>3 DEF Within
  <2> QED BY <2>4 DEF y
<1>7. Within(e, start, end, t) => e \in {d - 1, d}
  <2> SUFFICES ASSUME Within(e, start, end, t) PROVE e \in {d - 1, d}
    OBVIOUS
  <2> DEFINE f == IF end < start THEN e + 1 ELSE e
  <2>1. At(e, start) <= t /\ t < At(f, end) /\ f \in Int /\ f \in {e, e + 1}
    BY <1>n DEF Within
  <2>2. e * Day \in Int /\ (d < e => d * Day + Day <= e * Day)
    BY <1>1, Days
  <2>3. ~(d < e)
    BY <1>1, <1>2, <1>3, <2>1, <2>2
  <2> HIDE DEF f
  <2>4. f * Day \in Int /\ (f < d => f * Day + Day <= d * Day)
    BY <1>1, <2>1, Days
  <2>5. ~(f * Day + end <= d * Day + c)
    BY <1>3, <1>4, <2>1
  <2>6. ~(f < d)
    BY <1>1, <1>2, <2>1, <2>4, <2>5
  <2> QED BY <1>1, <2>1, <2>3, <2>6
<1> QED BY <1>5, <1>6, <1>7 DEF d, c

\* What the screen shows of a recurring schedule with times is what is enforced.
LEMMA RecurringShown ==
  ASSUME NEW w, Formed(w), ~Refused(w), w.kind = "recurring", NEW t \in Int
  PROVE  ActiveNow(w, t).active <=> Enforced(TranslateSchedule(w), t)
<1> DEFINE d == Date(t)  c == Clock(t)
<1>1. w \in When /\ d \in Int /\ c \in 0 .. Day - 1
  BY FormedFields, DayOf DEF Clocks
<1>2. Enforced(TranslateSchedule(w), t) <=> On(w, d - 1, t) \/ On(w, d, t)
  BY <1>1, RecurringEnforced
<1>3. CASE w.start = None
  <2>1. On(w, d, t) <=> Today(w, t)
    BY <1>3 DEF On, Within, Today
  <2>2. ~On(w, d - 1, t)
    BY <1>1, <1>3 DEF On, Within
  <2>3. ActiveNow(w, t).active <=> Today(w, t)
    BY <1>3 DEF ActiveNow, Active, Inactive
  <2> QED BY <1>2, <2>1, <2>2, <2>3
<1>4. CASE w.start # None
  <2>1. w.start \in Clocks /\ w.end \in Clocks /\ w.start # w.end
    BY <1>4, FormedFields DEF Refused, Always
  <2>2. /\ On(w, d, t) <=> Today(w, t) /\ w.start <= c /\ (w.end < w.start \/ c < w.end)
        /\ On(w, d - 1, t) <=> Yesterday(w, t) /\ w.end < w.start /\ c < w.end
    BY <1>1, <2>1, WithinDay DEF On, Today, Yesterday
  <2>3. w.start \in Int /\ w.end \in Int /\ c \in Int
    BY <1>1, <2>1 DEF Clocks
  <2>4. ActiveNow(w, t) = ActiveToday(w, t)
    BY <1>4 DEF ActiveNow
  <2>5. ActiveToday(w, t).active <=>
          \/ w.start < w.end /\ Today(w, t) /\ w.start <= c /\ c < w.end
          \/ w.start >= w.end /\ Today(w, t) /\ w.start <= c
          \/ w.start >= w.end /\ Yesterday(w, t) /\ c < w.end
    BY DEF ActiveToday, Active, Inactive
  <2> QED BY <1>2, <2>1, <2>2, <2>3, <2>4, <2>5
<1> QED BY <1>3, <1>4

LEMMA MinuteOfMoment ==
  ASSUME NEW d \in Int, NEW c \in Clocks
  PROVE  LET u == At(d, c) IN u \in Int /\ Date(u) = d /\ Clock(u) = c /\ Minute(u) = u
<1> DEFINE u == At(d, c)
<1>1. c \in Int /\ d \in Int
  BY DEF Clocks
<1>2. u \in Int /\ Minutes(u) = d * Day + c
  BY <1>1, Moment
<1> HIDE DEF u
<1>3. Date(u) = d /\ Clock(u) = c
  BY <1>2, DayIs
<1> QED BY <1>2, <1>3 DEF Minute, u

\* A window that blocks at t goes on to its end, and not at its end.
LEMMA WindowEnd ==
  ASSUME NEW w \in When, w.kind = "recurring", w.start \in Clocks, w.end \in Clocks, w.start # w.end,
         NEW x \in Int, NEW t \in Int, On(w, x, t)
  PROVE  LET u == At(IF w.end < w.start THEN x + 1 ELSE x, w.end) IN
         /\ u \in Int /\ t < u /\ Minute(u) = u
         /\ \A s \in t .. u - 1 : Enforced(TranslateSchedule(w), s)
         /\ ~Enforced(TranslateSchedule(w), u)
<1> DEFINE y == IF w.end < w.start THEN x + 1 ELSE x
           u == At(y, w.end)
<1>1. y \in Int /\ w.start # None /\ w.start \in Int /\ w.end \in Int
  BY NoneAssumption DEF Clocks
<1>2. Within(x, w.start, w.end, t) /\ Weekday(x) \in w.days
  BY DEF On
<1>3. At(x, w.start) <= t /\ t < u
  BY <1>1, <1>2 DEF Within
<1>4. u \in Int /\ Date(u) = y /\ Clock(u) = w.end /\ Minute(u) = u
  BY <1>1, MinuteOfMoment
<1>5. ASSUME NEW s \in t .. u - 1
      PROVE  Enforced(TranslateSchedule(w), s)
  <2>1. s \in Int /\ t <= s /\ s < u
    BY <1>4
  <2>2. At(x, w.start) \in Int
    BY <1>1, Moment
  <2>3. At(x, w.start) <= s
    BY <1>3, <2>1, <2>2
  <2>4. Within(x, w.start, w.end, s)
    BY <1>1, <2>1, <2>3 DEF Within
  <2>5. x \in {Date(s) - 1, Date(s)}
    BY <2>1, <2>4, WithinDay
  <2>6. On(w, x, s)
    BY <1>2, <2>4 DEF On
  <2> QED BY <2>1, <2>5, <2>6, RecurringEnforced
<1>6. ~Enforced(TranslateSchedule(w), u)
  <2> HIDE DEF u, y
  <2>1. ~Within(y, w.start, w.end, u) /\ ~Within(y - 1, w.start, w.end, u)
    <3>1. /\ Within(Date(u), w.start, w.end, u) <=>
               w.start <= Clock(u) /\ (w.end < w.start \/ Clock(u) < w.end)
          /\ Within(Date(u) - 1, w.start, w.end, u) <=> w.end < w.start /\ Clock(u) < w.end
      BY <1>1, <1>4, WithinDay
    <3>2. ~(w.end < w.end) /\ ~(w.start <= w.end /\ w.end < w.start)
      BY <1>1
    <3> QED BY <1>4, <3>1, <3>2
  <2> QED BY <1>4, <2>1, RecurringEnforced DEF On
<1> QED BY <1>3, <1>4, <1>5, <1>6

\* A day goes on to midnight.
LEMMA DayEnd ==
  ASSUME NEW t \in Int
  PROVE  LET u == At(Date(t) + 1, 0) IN
         /\ u \in Int /\ t < u /\ Minute(u) = u
         /\ \A s \in t .. u - 1 : Date(s) = Date(t)
<1> DEFINE d == Date(t)  e == d + 1  u == At(e, 0)
<1>1. /\ d \in Int /\ e \in Int /\ Clock(t) \in 0 .. Day - 1 /\ Minutes(t) = d * Day + Clock(t)
      /\ 0 \in Clocks /\ Day \in Nat
  BY DayOf, ClockAssumption DEF Clocks
<1>2. u \in Int /\ Minute(u) = u
  BY <1>1, MinuteOfMoment
<1>3. d * Day \in Int /\ e * Day = d * Day + Day
  BY <1>1, Days
<1>4. ASSUME NEW s \in Int
      PROVE  u <= s <=> e * Day + 0 <= Minutes(s)
  <2> HIDE DEF d, e
  <2>1. 0 \in Int
    OBVIOUS
  <2>2. At(e, 0) <= s <=> e * Day + 0 <= Minutes(s)
    BY <1>1, <2>1, Moment
  <2> QED BY <2>2
<1> HIDE DEF d, e, u
<1>5. t < u
  BY <1>1, <1>2, <1>3, <1>4
<1>6. ASSUME NEW s \in t .. u - 1
      PROVE  Date(s) = d
  <2>1. s \in Int /\ t <= s /\ ~(u <= s)
    BY <1>2
  <2>2. Minutes(s) \in Int /\ Minutes(t) <= Minutes(s)
    BY <2>1, MinutesGrow, MinuteOf
  <2>3. ~(e * Day + 0 <= Minutes(s))
    BY <1>4, <2>1
  <2> DEFINE c == Minutes(s) - d * Day
  <2>4. c \in 0 .. Day - 1 /\ Minutes(s) = d * Day + c
    BY <1>1, <1>3, <2>2, <2>3
  <2> HIDE DEF c
  <2> QED BY <1>1, <2>1, <2>4, DayIs DEF Clocks
<1> QED BY <1>2, <1>5, <1>6 DEF d, e, u

LEMMA RecurringEnd ==
  ASSUME NEW w, Formed(w), ~Refused(w), w.kind = "recurring", NEW t \in Int, ActiveNow(w, t).active
  PROVE  LET u == ActiveNow(w, t).until IN
         /\ u \in Int /\ t < u /\ Minute(u) = u
         /\ \A s \in t .. u - 1 : Enforced(TranslateSchedule(w), s)
         /\ w.start # None => ~Enforced(TranslateSchedule(w), u)
<1> DEFINE d == Date(t)  c == Clock(t)
<1>1. w \in When /\ d \in Int /\ d - 1 \in Int /\ c \in 0 .. Day - 1
  BY FormedFields, DayOf DEF Clocks
<1>2. CASE w.start = None
  <2>1. Today(w, t) /\ ActiveNow(w, t).until = At(d + 1, 0)
    BY <1>2 DEF ActiveNow, Active, Inactive
  <2>2. ASSUME NEW s \in Int, Date(s) = d
        PROVE  Enforced(TranslateSchedule(w), s)
    <3>1. On(w, Date(s), s)
      BY <1>2, <2>1, <2>2 DEF On, Within, Today
    <3> QED BY <1>1, <3>1, RecurringEnforced
  <2>3. At(d + 1, 0) \in Int /\ t < At(d + 1, 0) /\ Minute(At(d + 1, 0)) = At(d + 1, 0)
        /\ \A s \in t .. At(d + 1, 0) - 1 : Date(s) = d
    BY DayEnd
  <2>4. \A s \in t .. At(d + 1, 0) - 1 : Enforced(TranslateSchedule(w), s)
    BY <2>2, <2>3
  <2> QED BY <1>2, <2>1, <2>3, <2>4
<1>3. CASE w.start # None
  <2>1. w.start \in Clocks /\ w.end \in Clocks /\ w.start # w.end
    BY <1>3, FormedFields DEF Refused, Always
  <2>2. w.start \in Int /\ w.end \in Int /\ c \in Int
    BY <1>1, <2>1 DEF Clocks
  <2>3. ActiveNow(w, t) = ActiveToday(w, t)
    BY <1>3 DEF ActiveNow
  <2>4. PICK x \in {d - 1, d} :
          /\ On(w, x, t)
          /\ ActiveNow(w, t).until = At(IF w.end < w.start THEN x + 1 ELSE x, w.end)
    <3>1. /\ On(w, d, t) <=> Today(w, t) /\ w.start <= c /\ (w.end < w.start \/ c < w.end)
          /\ On(w, d - 1, t) <=> Yesterday(w, t) /\ w.end < w.start /\ c < w.end
      BY <1>1, <2>1, WithinDay DEF On, Today, Yesterday
    <3>2. CASE w.start < w.end /\ Today(w, t) /\ w.start <= c /\ c < w.end
      <4>1. ActiveNow(w, t).until = At(d, w.end)
        BY <2>2, <2>3, <3>2 DEF ActiveToday, Active, EndToday
      <4> QED BY <2>2, <3>1, <3>2, <4>1
    <3>3. CASE w.start >= w.end /\ Today(w, t) /\ w.start <= c
      <4>1. ActiveNow(w, t).until = At(d + 1, w.end)
        BY <2>1, <2>2, <2>3, <3>3 DEF ActiveToday, Active, EndTomorrow
      <4>2. w.end < w.start
        BY <2>1, <2>2, <3>3
      <4> QED BY <2>2, <3>1, <3>3, <4>1, <4>2
    <3>4. CASE w.start >= w.end /\ Yesterday(w, t) /\ c < w.end
      <4>1. w.end < w.start /\ ~(w.start <= c)
        BY <2>1, <2>2, <3>4
      <4>2. ActiveNow(w, t).until = At(d, w.end)
        BY <2>1, <2>2, <2>3, <3>4, <4>1 DEF ActiveToday, Active, EndToday
      <4>3. (d - 1) + 1 = d
        BY <1>1
      <4> QED BY <2>2, <3>1, <3>4, <4>1, <4>2, <4>3
    <3>5. \/ w.start < w.end /\ Today(w, t) /\ w.start <= c /\ c < w.end
          \/ w.start >= w.end /\ Today(w, t) /\ w.start <= c
          \/ w.start >= w.end /\ Yesterday(w, t) /\ c < w.end
      BY <2>3 DEF ActiveToday, Active, Inactive
    <3> QED BY <3>2, <3>3, <3>4, <3>5
  <2>5. x \in Int
    BY <1>1
  <2> QED BY <1>1, <2>1, <2>4, <2>5, WindowEnd
<1> QED BY <1>2, <1>3

\* The screen blocks when the gateway does, except in the seconds of the last
\* minute of a one-time window; around midnight and at the turn of the week.
THEOREM ScreenShowsGateway == Spec => []ScreenAgrees
<1>1. ScheduleInv => ScreenAgrees
  <2> SUFFICES ASSUME ScheduleInv, when # None PROVE ScreenAgrees
    BY DEF ScreenAgrees
  <2>1. Formed(when) /\ ~Refused(when) /\ sched = TranslateSchedule(when) /\ now \in Nat
    BY DEF ScheduleInv, StoreOK
  <2>2. CASE when.kind = "always"
    BY <2>1, <2>2 DEF ScreenAgrees, ActiveNow, Active, TranslateSchedule, Enforced
  <2>3. CASE when.kind = "recurring"
    BY <2>1, <2>3, RecurringShown DEF ScreenAgrees
  <2>4. CASE when.kind = "onetime"
    <3>1. when.start \in Clocks /\ when.start # None /\ when.until \in Nat
      BY <2>1, <2>4, FormedFields DEF Always
    <3>2. Enforced(sched, now) <=> OneTimeStart(when) <= now /\ now < Minute(when.until)
      BY <2>1, <2>4, <3>1, OneTimeEnforced
    <3>3. ActiveNow(when, now).active <=> ~(now < OneTimeStart(when)) /\ now < when.until
      BY <2>4 DEF ActiveNow, Pending
    <3>4. OneTimeStart(when) \in Int
      <4>1. StartDate(when) \in Int /\ when.start \in Int
        BY <3>1, DayOf DEF StartDate, Clocks
      <4> QED BY <4>1, Moment DEF OneTimeStart
    <3>5. /\ Minute(when.until) \in Nat /\ Minute(when.until) <= when.until
          /\ when.until - Minute(when.until) < Second
      BY <3>1, MinuteRest
    <3> QED BY <2>1, <2>4, <3>1, <3>2, <3>3, <3>4, <3>5, ClockAssumption DEF ScreenAgrees
  <2> QED BY <2>1, <2>2, <2>3, <2>4, FormedFields
<1> QED BY <1>1, InitSchedule, NextSchedule, PTL DEF Spec

\* What the screen says a rule blocks until is when the gateway stops, to the
\* minute, across midnight and across days that follow each other.
THEOREM ScreenShowsEnd == Spec => []EndAsShown
<1>1. ScheduleInv => EndAsShown
  <2> DEFINE shown == ActiveNow(when, now)
  <2> SUFFICES ASSUME ScheduleInv, when # None, shown.active, shown.until # Never
               PROVE  /\ shown.until > now
                      /\ \A t \in now .. Minute(shown.until) - 1 : Enforced(sched, t)
                      /\ when.start # None => ~Enforced(sched, shown.until)
    BY DEF EndAsShown
  <2>1. Formed(when) /\ ~Refused(when) /\ sched = TranslateSchedule(when) /\ now \in Nat
    BY DEF ScheduleInv, StoreOK
  <2>2. CASE when.kind = "always"
    BY <2>2 DEF ActiveNow, Active
  <2>3. CASE when.kind = "recurring"
    BY <2>1, <2>3, RecurringEnd
  <2>4. CASE when.kind = "onetime"
    <3>1. when.start \in Clocks /\ when.start # None /\ when.until \in Nat
      BY <2>1, <2>4, FormedFields DEF Always
    <3>2. shown.until = when.until /\ ~(now < OneTimeStart(when)) /\ now < when.until
      BY <2>4 DEF ActiveNow, Pending
    <3>3. OneTimeStart(when) \in Int
      <4>1. StartDate(when) \in Int /\ when.start \in Int
        BY <3>1, DayOf DEF StartDate, Clocks
      <4> QED BY <4>1, Moment DEF OneTimeStart
    <3>4. Minute(when.until) \in Nat /\ Minute(when.until) <= when.until
      BY <3>1, MinuteRest
    <3>5. ASSUME NEW t \in Int
          PROVE  Enforced(sched, t) <=> OneTimeStart(when) <= t /\ t < Minute(when.until)
      BY <2>1, <2>4, <3>1, OneTimeEnforced
    <3>6. ASSUME NEW t \in now .. Minute(when.until) - 1
          PROVE  Enforced(sched, t)
      BY <2>1, <3>2, <3>3, <3>4, <3>5
    <3>7. ~Enforced(sched, when.until)
      BY <3>1, <3>4, <3>5
    <3> QED BY <2>1, <3>1, <3>2, <3>6, <3>7
  <2> QED BY <2>1, <2>2, <2>3, <2>4, FormedFields
<1> QED BY <1>1, InitSchedule, NextSchedule, PTL DEF Spec

\* The janitor never tidies a window the gateway still enforces.
THEOREM SpentEnforcesNothing == Spec => []SpentIsOver
<1>1. ScheduleInv => SpentIsOver
  <2> SUFFICES ASSUME ScheduleInv, when # None, Expired(when, now) PROVE ~Enforced(sched, now)
    BY DEF SpentIsOver
  <2>1. Formed(when) /\ sched = TranslateSchedule(when) /\ now \in Nat
        /\ when.kind = "onetime" /\ when.until < now
    BY DEF ScheduleInv, StoreOK, Expired
  <2>2. when.start \in Clocks /\ when.start # None /\ when.until \in Nat
    BY <2>1, FormedFields DEF Always
  <2>3. Minute(when.until) \in Nat /\ Minute(when.until) <= when.until
    BY <2>2, MinuteRest
  <2>4. Enforced(sched, now) => now < Minute(when.until)
    BY <2>1, <2>2, OneTimeEnforced
  <2> QED BY <2>1, <2>2, <2>3, <2>4
<1> QED BY <1>1, InitSchedule, NextSchedule, PTL DEF Spec

\* Time given on a pause is not cut short by what is left of the pause.
THEOREM GrantsAreHonoured == Spec => []GrantHonoured
<1>1. ScheduleInv => GrantHonoured
  <2> SUFFICES ASSUME ScheduleInv, IsPause, now < Minute(granted) PROVE ~Enforced(sched, now)
    BY DEF GrantHonoured
  <2>1. now \in Nat /\ granted \in Nat /\ asked.from \in Nat /\ sched = TranslateSchedule(when)
    BY PauseWindow DEF ScheduleInv
  <2>2. /\ Minute(granted) \in Nat /\ Minute(granted) <= granted
        /\ Minute(granted) <= now <=> Minutes(granted) <= Minutes(now)
    BY <2>1, MinuteMoment
  <2>3. CASE granted = 0
    BY <2>1, <2>2, <2>3
  <2>4. CASE /\ when.kind = "onetime" /\ when.start \in Clocks /\ when.until \in Nat
             /\ OneTimeStart(when) = Minute(asked.from)
             /\ Minutes(granted) <= Minutes(asked.from)
    <3>1. Minute(asked.from) <= now <=> Minutes(asked.from) <= Minutes(now)
      BY <2>1, MinuteMoment
    <3>2. Minutes(granted) \in Int /\ Minutes(asked.from) \in Int /\ Minutes(now) \in Int
      BY <2>1, MinuteOf
    <3>3. ~(Minutes(granted) <= Minutes(now))
      BY <2>1, <2>2
    <3>4. ~(Minute(asked.from) <= now)
      BY <2>4, <3>1, <3>2, <3>3
    <3>5. Enforced(sched, now) => Minute(asked.from) <= now
      BY <2>1, <2>4, NoneAssumption, OneTimeEnforced
    <3> QED BY <3>4, <3>5
  <2> QED BY <2>3, <2>4, PauseWindow
<1> QED BY <1>1, InitSchedule, NextSchedule, PTL DEF Spec

\* A pause goes only when it is resumed, replaced, spent, or outlasted to the
\* minute by the time that was given on it.
THEOREM PausesAreKept == Spec => PauseNotLost
<1> DEFINE Ends ==
      \/ Resume \/ Pause
      \/ now > asked.until /\ when.kind = "onetime"
      \/ LET end == IF when.kind = "always" THEN NextMorning(granted') ELSE asked.until
         IN  granted' > now /\ end <= granted' + Second
<1>1. ScheduleInv /\ [Next]_vars => (IsPause /\ when' = None => Ends) \/ UNCHANGED vars
  <2> SUFFICES ASSUME ScheduleInv, Next, IsPause, when' = None
               PROVE  Ends
    BY DEF vars
  <2>p. /\ when # None /\ now \in Nat /\ asked.from \in Nat
        /\ when.kind = "always" \/ (when.kind = "onetime" /\ when.until = asked.until)
    BY PauseWindow
  <2>1. CASE Resume \/ Pause
    BY <2>1
  <2>2. CASE Cleanup
    BY <2>2, <2>p DEF Cleanup, Expired
  <2>3. CASE RuleCreate \/ RuleDelete \/ Tick
    BY <2>3, <2>p DEF RuleCreate, RuleDelete, Tick
  <2>4. CASE Grant
    <3>1. PICK delay \in Delays :
            LET start == GrantBase(when) + delay * Second
                until == GrantEnd(when, start)
                w     == OneTimeUntil(start, until) IN
            /\ granted' = (IF Minute(asked.from) > now THEN Minute(asked.from) ELSE now) + delay * Second
            /\ \/ /\ Outlasts(until, start)
                  /\ Store(None) /\ asked' = None
               \/ /\ ~Outlasts(until, start) /\ ~Refused(w)
                  /\ Store(w) /\ asked' = [from |-> start, until |-> until]
      BY <2>4 DEF Grant
    <3> DEFINE start == GrantBase(when) + delay * Second
               until == GrantEnd(when, start)
    <3>2. granted' = start
      BY <3>1, GrantFrom
    <3>3. /\ GrantBase(when) \in Nat /\ now <= GrantBase(when) /\ delay \in Nat \ {0}
      BY <2>p, GrantFrom, MinuteMoment, ClockAssumption
    <3>4. start > now
      <4>1. delay * Second \in Nat \ {0}
        BY <3>3, ClockAssumption
      <4> QED BY <2>p, <3>3, <4>1
    <3>5. Outlasts(until, start)
      <4> HIDE DEF start, until
      <4>1. start \in Nat /\ until \in Nat
        <5>1. start \in Nat
          BY <3>3, Later DEF start
        <5>2. NextMorning(start) \in Nat /\ (when.kind = "onetime" => asked.until \in Nat)
          BY <2>p, <5>1, MorningNext, PauseWindow DEF Always
        <5> QED BY <2>p, <5>1, <5>2 DEF GrantEnd, until
      <4>2. OneTimeUntil(start, until) # None
        BY <4>1, DayOf, OneTimeFields, FormedFields DEF OneTimeUntil
      <4> QED BY <3>1, <4>2 DEF Store, start, until
    <3>6. until = IF when.kind = "always" THEN NextMorning(start) ELSE asked.until
      BY <2>p DEF GrantEnd
    <3> QED BY <3>2, <3>4, <3>5, <3>6 DEF Outlasts
  <2> QED BY <2>1, <2>2, <2>3, <2>4 DEF Next
<1> QED BY <1>1, InitSchedule, NextSchedule, PTL DEF Spec, PauseNotLost
=============================================================================
