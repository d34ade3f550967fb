------------------------------- MODULE Timers -------------------------------
(***************************************************************************)
(* The programs of timers/.  timer is the kernel timer (fair: time goes    *)
(* on), p the program, n1 and n2 notification threads.                     *)
(***************************************************************************)
EXTENDS Unix

Expirations == 3   \* bound: expirations of a timer whose count is kept
Base == 10         \* nanoseconds in a second, scaled down

-----------------------------------------------------------------------------
(* real_timer.c *)

RealInit ==
  \E interval \in BOOLEAN :
    Start("real_timer", [p |-> "start", timer |-> "absent"],
          [interval |-> interval, maxSigs |-> 0, gotAlarm |-> 0, sigCnt |-> 0, lost |-> FALSE])

\* three signals are awaited, or one when there is no interval
maxSigs == [s EXCEPT !.maxSigs = IF s.interval THEN 3 ELSE 1]

\* the loop polls gotAlarm, which the handler sets; two expirations between polls count once
real_timer(a) ==
  /\ prog = "real_timer"
  /\ IF a = "timer"
     THEN /\ ~Gone("p")
          /\ Do("timer", "armed", IF s.interval THEN "armed" ELSE "exit",
                [s EXCEPT !.gotAlarm = 1, !.lost = @ \/ s.gotAlarm = 1])
     ELSE \/ Do("p", "start", "setitimer", maxSigs)
          \/ pc["p"] = "setitimer" /\ pc' = [p |-> "loop", timer |-> "armed"] /\ UNCHANGED s
          \/ Do("p", "loop", "alarm", [s EXCEPT !.gotAlarm = 0]) /\ s.gotAlarm = 1
          \/ pc["p"] = "alarm" /\ s' = [s EXCEPT !.sigCnt = @ + 1]
             /\ pc' = IF s.sigCnt + 1 >= s.maxSigs THEN [p |-> "exit", timer |-> "exit"] ELSE [pc EXCEPT !["p"] = "loop"]

-----------------------------------------------------------------------------
(* ptmr_sigev_signal.c, ptmr_null_evp.c: one pending signal per timer, and *)
(* an overrun count; ptmr_sigev_thread.c: a thread per notification        *)

PtmrInit ==
  \/ \E p \in {"ptmr_sigev_signal", "ptmr_null_evp"} :
       Start(p, [p |-> "start", timer |-> "absent"],
             [expired |-> 0, pending |-> FALSE, over |-> 0, counted |-> 0])
  \/ Start("ptmr_sigev_thread", [p |-> "start", timer |-> "absent", n1 |-> "absent", n2 |-> "absent"],
           [expired |-> 0, pending |-> FALSE, over |-> 0, overrun |-> 0, expireCnt |-> 0, mtx |-> Free,
            overlap |-> FALSE, printed |-> 0])

\* the timer expires: a signal becomes pending, or one more overrun is counted
Expire ==
  /\ s.expired < Expirations
  /\ Do("timer", "armed", "armed", IF s.pending THEN [s EXCEPT !.expired = @ + 1, !.over = @ + 1]
                                   ELSE [s EXCEPT !.expired = @ + 1, !.pending = TRUE, !.over = 0])

\* handler: the signal, with timer_getoverrun() expirations that did not get one
PtmrHandler == s.pending /\ Do("p", "pause", "pause", [s EXCEPT !.pending = FALSE, !.counted = @ + 1 + s.over])

CreateTimer == pc["p"] = "start" /\ pc' = [pc EXCEPT !["p"] = "pause", !["timer"] = "armed"] /\ UNCHANGED s

ptmr_sigev_signal(a) ==
  prog = "ptmr_sigev_signal" /\ IF a = "timer" THEN Expire ELSE CreateTimer \/ PtmrHandler

ptmr_null_evp(a) ==
  prog = "ptmr_null_evp" /\ IF a = "timer" THEN Expire ELSE CreateTimer \/ PtmrHandler

\* the library starts a thread for the notification; its overrun count is the timer's from then on
NotifyStarts ==
  /\ s.pending
  /\ \E n \in {"n1", "n2"} :
       /\ Gone(n) /\ pc' = [pc EXCEPT ![n] = "lock"]
       /\ s' = [s EXCEPT !.pending = FALSE, !.overrun = s.over, !.overlap = @ \/ \E m \in {"n1", "n2"} : ~Gone(m)]

\* threadFunc: timer_getoverrun() is asked when the thread gets that far
NotifyThread(n) ==
  \/ Do(n, "lock", "add", [s EXCEPT !.mtx = n]) /\ s.mtx = Free
  \/ Do(n, "add", "unlock", [s EXCEPT !.expireCnt = @ + 1 + s.overrun])
  \/ Do(n, "unlock", "signal", [s EXCEPT !.mtx = Free])
  \/ /\ pc[n] = "signal" /\ UNCHANGED s
     /\ pc' = [pc EXCEPT ![n] = "exit", !["p"] = IF @ = "wait" THEN "relock" ELSE @]

\* the timer thread is the library's: expirations, and the start of notifications
ptmr_sigev_thread(a) ==
  /\ prog = "ptmr_sigev_thread"
  /\ CASE a = "timer" -> Expire \/ (pc["timer"] = "armed" /\ NotifyStarts)
       [] a \in {"n1", "n2"} -> NotifyThread(a)
       [] OTHER -> \/ CreateTimer
                   \/ Do("p", "pause", "locked", [s EXCEPT !.mtx = "p"]) /\ s.mtx = Free
                   \/ Do("p", "locked", "wait", [s EXCEPT !.mtx = Free])
                   \/ Do("p", "relock", "locked", [s EXCEPT !.mtx = "p", !.printed = s.expireCnt]) /\ s.mtx = Free

-----------------------------------------------------------------------------
(* timed_read.c: an alarm is to interrupt read() *)

ReadInit ==
  \E restart \in BOOLEAN :
    Start("timed_read", [p |-> "start", timer |-> "absent"],
          [restart |-> restart, input |-> FALSE, firedIn |-> "none", result |-> "none"])

timed_read(a) ==
  /\ prog = "timed_read"
  /\ IF a = "timer"
     THEN /\ pc["timer"] = "armed" /\ s' = [s EXCEPT !.firedIn = pc["p"]]
          /\ pc' = [p |-> IF pc["p"] = "read" /\ ~s.restart THEN "EINTR" ELSE pc["p"], timer |-> "exit"]
     ELSE \/ pc["p"] = "start" /\ pc' = [p |-> "beforeRead", timer |-> "armed"] /\ UNCHANGED s
          \/ Walk("p", "beforeRead", "read")
          \/ Do("p", "read", "alarm0", [s EXCEPT !.result = "data"]) /\ s.input
          \/ Do("p", "EINTR", "alarm0", [s EXCEPT !.result = "timed out"])
          \/ pc["p"] = "alarm0" /\ pc' = [p |-> "exit", timer |-> "exit"] /\ UNCHANGED s

Typed == prog = "timed_read" /\ ~Gone("p") /\ ~s.input /\ UNCHANGED pc /\ s' = [s EXCEPT !.input = TRUE]

-----------------------------------------------------------------------------
(* demo_timerfd.c *)

TimerfdInit ==
  \E interval \in BOOLEAN, n \in 1 .. Expirations :
    Start("demo_timerfd", [p |-> "start", timer |-> "absent"],
          [interval |-> interval, maxExp |-> n, expired |-> 0, unread |-> 0, totalExp |-> 0, last |-> 0])

\* read() takes all expirations since the last read, and waits for the first
demo_timerfd(a) ==
  /\ prog = "demo_timerfd"
  /\ IF a = "timer"
     THEN /\ s.expired < 2 * Expirations
          /\ Do("timer", "armed", IF s.interval THEN "armed" ELSE "exit",
                [s EXCEPT !.expired = @ + 1, !.unread = @ + 1])
     ELSE \/ pc["p"] = "start" /\ pc' = [p |-> "for", timer |-> "armed"] /\ UNCHANGED s
          \/ /\ s.totalExp < s.maxExp /\ s.unread > 0
             /\ Do("p", "for", "for", [s EXCEPT !.totalExp = @ + s.unread, !.last = s.unread, !.unread = 0])
          \/ pc["p"] = "for" /\ s.totalExp >= s.maxExp
             /\ pc' = [p |-> "exit", timer |-> "exit"] /\ UNCHANGED s

-----------------------------------------------------------------------------
(* t_nanosleep.c, t_clock_nanosleep.c: sleeps that signals interrupt.      *)
(* Time in half ticks; a remaining time is a number of ticks, rounded up.  *)

SleepInit ==
  \E p \in {"t_nanosleep", "t_clock_nanosleep"}, abs \in BOOLEAN, sec \in 0 .. 1, nsec \in {0, 1, 9, 12} :
    /\ p = "t_nanosleep" => ~abs /\ nsec < Base
    /\ Start(p, [p |-> "request", timer |-> "absent"],
             [abs |-> abs, sec |-> sec, nsec |-> nsec, rsec |-> 0, rnsec |-> 0,
              request |-> 2, left |-> 0, now |-> 0, ints |-> 0])

\* the absolute time asked for, with its nanoseconds below a second again (the clock reads 1 and 5)
Normalised(sec, nsec) ==
  IF nsec >= Base THEN <<sec + nsec \div Base, nsec % Base>> ELSE <<sec, nsec>>

Request ==
  LET r == IF s.abs THEN Normalised(s.sec + 1, s.nsec + 5) ELSE <<s.sec, s.nsec>>
  IN  Do("p", "request", IF ~s.abs /\ s.nsec >= Base THEN "failed" ELSE "sleep",
         [s EXCEPT !.rsec = r[1], !.rnsec = r[2], !.left = 2 * s.request])

\* sleep until the time is over; after a signal for what remains, or until the same absolute time
Sleep ==
  \/ Do("p", "sleep", "sleep", [s EXCEPT !.left = @ - 1, !.now = @ + 1]) /\ s.left > 0
  \/ Walk("p", "sleep", "exit") /\ s.left = 0

t_nanosleep(a) == prog = "t_nanosleep" /\ a = "p" /\ (Request \/ Sleep)
t_clock_nanosleep(a) == prog = "t_clock_nanosleep" /\ a = "p" /\ (Request \/ Sleep)

\* SIGINT: the sleep returns EINTR with the remaining time (bound: two in a run)
Interrupt ==
  /\ prog \in {"t_nanosleep", "t_clock_nanosleep"} /\ s.left > 0 /\ s.ints < 2
  /\ Do("p", "sleep", "sleep", [s EXCEPT !.ints = @ + 1, !.left = IF s.abs THEN @ ELSE 2 * ((@ + 1) \div 2)])

-----------------------------------------------------------------------------
(* itimerspec_from_str.c: numbers with "/" (-1) and ":" (-2) between *)

Slash == -1
Colon == -2

SpecInit ==
  \E v, i \in {<<1>>, <<1, Slash, 2>>, <<3, Slash, 4>>}, two \in BOOLEAN :
    Start("itimerspecFromStr", [p |-> "call", timer |-> "absent"],
          [str |-> IF two THEN v \o <<Colon>> \o i ELSE v, v |-> v, i |-> IF two THEN i ELSE <<0>>, result |-> << >>])

\* strchr: the first place of a character, 0 if there is none
Strchr(str, ch) ==
  IF \E k \in DOMAIN str : str[k] = ch THEN CHOOSE k \in DOMAIN str : str[k] = ch /\ \A j \in 1 .. k - 1 : str[j] # ch
  ELSE 0

\* atoi of each side of the slash; no slash means 0
SecNsec(str) == LET k == Strchr(str, Slash) IN <<str[1], IF k = 0 THEN 0 ELSE str[k + 1]>>

itimerspecFromStr(str) ==
  LET c == Strchr(str, Colon)
  IN  [value    |-> SecNsec(IF c = 0 THEN str ELSE SubSeq(str, 1, c - 1)),
       interval |-> IF c = 0 THEN <<0, 0>> ELSE SecNsec(SubSeq(str, c + 1, Len(str)))]

Convert(a) ==
  prog = "itimerspecFromStr" /\ a = "p" /\ Do("p", "call", "exit", [s EXCEPT !.result = itimerspecFromStr(s.str)])

-----------------------------------------------------------------------------
Init == RealInit \/ PtmrInit \/ ReadInit \/ TimerfdInit \/ SleepInit \/ SpecInit

Step(a) ==
  \/ real_timer(a) \/ ptmr_sigev_signal(a) \/ ptmr_null_evp(a) \/ ptmr_sigev_thread(a) \/ timed_read(a)
  \/ demo_timerfd(a) \/ t_nanosleep(a) \/ t_clock_nanosleep(a) \/ Convert(a)

Env == Typed \/ Interrupt

\* the other programs have no end, or wait for input; demo_timerfd with an interval counts up to its maximum
MustEnd == {"real_timer", "t_nanosleep", "t_clock_nanosleep", "itimerspecFromStr"}
Programs == MustEnd \cup {"ptmr_sigev_signal", "ptmr_null_evp", "ptmr_sigev_thread", "timed_read", "demo_timerfd"}
Outstanding == prog = "demo_timerfd" /\ s.interval /\ ~Gone("p")

\* Every expiration is notified or counted as an overrun, once.  The thread
\* version keeps to that while a timer's notifications do not overlap: a thread
\* that asks late gets the overrun count of the next notification
ExpirationsCounted ==
  /\ prog \in {"ptmr_sigev_signal", "ptmr_null_evp"} =>
       s.counted + (IF s.pending THEN 1 + s.over ELSE 0) = s.expired
  /\ prog = "ptmr_sigev_thread" /\ ~s.overlap /\ pc["n1"] \in {"absent", "exit"} /\ pc["n2"] \in {"absent", "exit"} =>
       s.expireCnt + (IF s.pending THEN 1 + s.over ELSE 0) = s.expired
  /\ prog = "demo_timerfd" => s.totalExp + s.unread = s.expired /\ (pc["p"] = "exit" => s.totalExp - s.last < s.maxExp)

\* read() ends by the alarm only if the alarm came while it waited
TimeoutReported ==
  prog = "timed_read" => /\ s.result = "timed out" => s.firedIn = "read" /\ ~s.restart
                         /\ s.firedIn = "beforeRead" /\ Gone("p") => s.input

\* No sleep is too short; what interruptions add is the rounding of a relative
\* sleep, and an absolute one does not drift; the request is normalised
SleptLongEnough ==
  prog \in {"t_nanosleep", "t_clock_nanosleep"} /\ pc["p"] = "exit" =>
    /\ s.now \in 2 * s.request .. 2 * s.request + s.ints
    /\ s.abs => s.now = 2 * s.request /\ s.rnsec < Base /\ s.rsec * Base + s.rnsec = (s.sec + 1) * Base + s.nsec + 5

\* The four numbers of the string reach the fields they belong to
Converted ==
  prog = "itimerspecFromStr" /\ pc["p"] = "exit" =>
    LET pair(x) == IF Len(x) = 1 THEN <<x[1], 0>> ELSE <<x[1], x[3]>>
    IN  s.result = [value |-> pair(s.v), interval |-> pair(s.i)]

Safe == /\ ExpirationsCounted /\ TimeoutReported /\ SleptLongEnough /\ Converted
        /\ prog = "real_timer" /\ pc["p"] = "exit" => s.sigCnt = IF s.interval THEN 3 ELSE 1
=============================================================================
