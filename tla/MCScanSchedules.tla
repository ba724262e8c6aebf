-------------------------- MODULE MCScanSchedules --------------------------
EXTENDS ScanSchedules

CONSTANTS h1, k1, k2

MCHandlers == {h1}
MCWorkers == {k1, k2}
\* Months of three and of two days; the third year is a leap year.
MCFirstDay == <<0, 3, 5, 8, 10, 13, 16, 19, 21, 24, 26>>
MCTimes == 0 .. 24
MCClock == {0, 7}

term(r, a, b, s) == [range |-> r, a |-> a, b |-> b, step |-> s]
all == <<term("*", 0, 0, 0)>>
is(n) == <<term("n", n, 0, 0)>>
cron(sec, m, h, dom, mon, dow) ==
  [hasSeconds |-> sec # <<>>, second |-> sec, minute |-> m, hour |-> h,
   dom |-> dom, month |-> mon, dow |-> dow]

\* Hourly, monthly, and the leap day, which is beyond the horizon.
MCCrons == <<cron(<<>>, is(0), all, all, all, all), cron(<<>>, is(1), is(0), is(2), all, all),
             cron(<<>>, is(0), all, is(3), is(2), all)>>

inputs ==
  [sec : {<<>>, is(1), all}, m : {is(0), <<term("*", 0, 0, 2)>>}, h : {all, is(1)},
   dom : {all, all \o all, is(2), is(3), is(4)}, mon : {all, is(2), <<term("a-b", 1, 2, 0)>>},
   dow : {all, is(1), is(3), <<term("n", 1, 0, 2), term("n", 0, 0, 0)>>}]

MCCronInputs == {cron(i.sec, i.m, i.h, i.dom, i.mon, i.dow) : i \in inputs}
=============================================================================
