----------------------------- MODULE MCSchedule -----------------------------
(* An instance of Schedule for TLC: a short day and a short week.          *)
EXTENDS Schedule

SomeDays == SUBSET Weekdays

\* Every schedule the form can ask for, and one-time windows with any start.
Forms ==
  {Always} \union {AllDay(days) : days \in SomeDays}
    \union {Recurring(days, start, end) : days \in SomeDays, start \in Clocks, end \in Clocks}
    \union {OneTime(start, until) : start \in Clocks, until \in 0 .. Horizon}
=============================================================================
