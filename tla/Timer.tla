------------------------------- MODULE Timer --------------------------------
(***************************************************************************)
(* The timer of timer.c: the tick that irq0 counts, and sleep, which waits *)
(* for it in the main program with interrupts on.                          *)
(*                                                                         *)
(* The code is compiled without optimisation: a value goes from tick       *)
(* through eax, and an interrupt may come between the load and the use.    *)
(* irq0 restores eax, but irq1 returns with al = 0x20, so a key changes    *)
(* the low byte of initialTicks when it comes before the store, and the    *)
(* outcome of the comparison when it comes before that.                    *)
(*                                                                         *)
(* There is one task: fork has no caller and does not return (Paging), and *)
(* timerTick's call of switchTasks is commented out.                       *)
(***************************************************************************)
EXTENDS Naturals

CONSTANTS
    TickMod,            \* values of the uint32 tick (2^32)
    ByteMod,            \* values of al (256)
    Acknowledge,        \* what irq1 leaves in al (0x20)
    Durations           \* arguments of sleep

ASSUME TimerAssumption ==
    /\ ByteMod \in Nat \ {0} /\ TickMod \in Nat \ {0} /\ TickMod % ByteMod = 0
    /\ Acknowledge \in 0 .. ByteMod - 1
    /\ Durations \subseteq 0 .. TickMod - 1

VARIABLES
    tick,
    at,                 \* where the main program is: in its own code or in sleep
    eax,                \* the tick loaded for initialTicks, not stored yet
    initialTicks, milliseconds,
    less,               \* the outcome of sleep's comparison, between the load and the jump
    passed,             \* history: ticks since initialTicks was read, up to TickMod
    startStruck,        \* history: a key came between the load and the store
    pollStruck          \* history: a key came into the latest poll

vars == <<tick, at, eax, initialTicks, milliseconds, less, passed, startStruck, pollStruck>>

Init ==
    /\ tick = 0 /\ at = "run" /\ eax = 0
    /\ initialTicks = 0 /\ milliseconds = 0 /\ less = TRUE
    /\ passed = 0 /\ startStruck = FALSE /\ pollStruck = FALSE

-----------------------------------------------------------------------------
timerTick ==
    /\ tick' = (tick + 1) % TickMod
    /\ passed' = IF passed < TickMod THEN passed + 1 ELSE passed
    /\ UNCHANGED <<at, eax, initialTicks, milliseconds, less, startStruck, pollStruck>>

(* irq1, where eax is in use.  Where the compiler keeps the operands of    *)
(* the comparison is left open: the struck one may come out either way.    *)
WithAl(value) == (value - (value % ByteMod)) + Acknowledge
irq1 ==
    /\ \/ /\ at = "store"
          /\ eax' = WithAl(eax) /\ startStruck' = TRUE
          /\ UNCHANGED <<less, pollStruck>>
       \/ /\ at = "test"
          /\ less' \in BOOLEAN /\ pollStruck' = TRUE
          /\ UNCHANGED <<eax, startStruck>>
    /\ UNCHANGED <<tick, at, initialTicks, milliseconds, passed>>

-----------------------------------------------------------------------------
(* sleep (ms): the load of tick, and the store to initialTicks. *)
sleep(ms) ==
    /\ at = "run"
    /\ at' = "store"
    /\ eax' = tick
    /\ milliseconds' = ms
    /\ passed' = 0 /\ startStruck' = FALSE /\ pollStruck' = FALSE
    /\ UNCHANGED <<tick, initialTicks, less>>

storeTicks ==
    /\ at = "store"
    /\ at' = "poll"
    /\ initialTicks' = eax
    /\ UNCHANGED <<tick, eax, milliseconds, less, passed, startStruck, pollStruck>>

(* tick - initialTicks < milliseconds, in unsigned arithmetic. *)
Mut_EndOfTime == tick < initialTicks + milliseconds
Mut_NoDifference == tick < (initialTicks + milliseconds) % TickMod
Mut_AtMost == (tick + TickMod - initialTicks) % TickMod <= milliseconds
StillWaiting == (tick + TickMod - initialTicks) % TickMod < milliseconds

(* One round of the loop: the load of tick and the comparison with it, and *)
(* the jump, back to the load or out of the loop.                          *)
sleepPoll(waits) ==
    /\ at = "poll"
    /\ waits = StillWaiting
    /\ less' = waits
    /\ at' = "test"
    /\ pollStruck' = FALSE
    /\ UNCHANGED <<tick, eax, initialTicks, milliseconds, passed, startStruck>>

sleepTest(waits) ==
    /\ at = "test"
    /\ waits = less
    /\ at' = IF waits THEN "poll" ELSE "run"
    /\ UNCHANGED <<tick, eax, initialTicks, milliseconds, less, passed, startStruck, pollStruck>>

Next ==
    \/ timerTick \/ irq1
    \/ \E ms \in Durations : sleep(ms)
    \/ storeTicks
    \/ \E w \in BOOLEAN : sleepPoll(w) \/ sleepTest(w)

(* The PIT goes on firing.  The loop polls many times between two ticks    *)
(* (10 ms), so while the time is over some poll sees it, and not every     *)
(* such poll can be hit by a key.                                          *)
Fairness ==
    /\ WF_vars(timerTick) /\ WF_vars(storeTicks)
    /\ SF_vars(sleepPoll(FALSE)) /\ SF_vars(sleepTest(FALSE))
    /\ SF_vars(~StillWaiting /\ sleepTest(TRUE))

Spec == Init /\ [][Next]_vars /\ Fairness

-----------------------------------------------------------------------------
(* sleep never returns before that many ticks have come, wherever the      *)
(* counter stood when it was called, unless a key came between the load    *)
(* and the store of initialTicks or into the poll that ended the loop.     *)
NoEarlyWake ==
    at = "run" /\ ~startStruck /\ ~pollStruck => passed >= milliseconds

(* The loop goes on while the time is not over and ends when it is, before *)
(* the counter has gone round once.  A key that changes the low byte of    *)
(* initialTicks moves the end by less than a byte's values, to either      *)
(* side, and may end the sleep at its beginning.                           *)
Shift == IF startStruck THEN ByteMod - 1 ELSE 0
PollsSeeTheTime ==
    at = "poll" =>
        /\ passed >= Shift /\ passed + Shift < milliseconds => StillWaiting
        /\ passed >= milliseconds + Shift /\ passed + Shift < TickMod => ~StillWaiting

(* Every sleep returns, also when the counter wraps during it or a key     *)
(* changes what it started from.                                           *)
SleepReturns == at = "store" ~> at = "run"

=============================================================================
