------------------------------- MODULE Timers -------------------------------
(***************************************************************************)
(* The two timers, device/hpet.c and device/lapict.c, with the hardware    *)
(* they drive.  The kernel's code, the two counters and the two interrupt  *)
(* handlers run against each other: a function is a list of register       *)
(* accesses (todo), the counters move between any two of them, and a       *)
(* handler runs wherever its interrupt is delivered.  The HPET handler     *)
(* wakes the loop that waits for polled.                                   *)
(***************************************************************************)
EXTENDS Integers, Sequences

CONSTANTS
    HpetMax,       \* the HPET counter wraps behind this value
    LapicMax,      \* 0xFFFFFFFF
    Quanta,        \* comparator values the callers' times come to
    TickBound      \* bound: ticks are counted up to here

ASSUME TimersAssumption ==
    /\ HpetMax \in Nat \ {0} /\ LapicMax \in Nat \ {0} /\ TickBound \in Nat
    /\ Quanta \subseteq 1 .. HpetMax

ONE_SHOT == 0
PERIODIC == 1

VARIABLES
    hpet,          \* [enabled, count, comp, irq]: the HPET and its timer 0
    polled,        \* the flag hpet_timer_handler raises
    lvttimer,      \* LAPIC_LVTTIMER: [masked, mode]
    initcnt, cur,  \* LAPIC_TIMERINITCNT and LAPIC_TIMERCURCNT
    lirq,          \* a local timer interrupt is on its way
    g_tick,        \* ticks since the timer was last started
    elapsed,       \* HPET counts since hpetEnable, for the properties
    call,          \* the function called last, and
    todo,          \* the register accesses it has left,
    reg, arg       \* with the register value it read and its argument

TimersVars == <<hpet, polled, lvttimer, initcnt, cur, lirq, g_tick, elapsed, call, todo, reg, arg>>

HpetState  == <<hpet, polled, elapsed>>
LapicState == <<lvttimer, initcnt, cur, lirq, g_tick>>

-----------------------------------------------------------------------------
(* The hardware.                                                           *)

\* The main counter runs while it is enabled; timer 0 interrupts when it gets
\* to the comparator.
HpetCount ==
    LET next == (hpet.count + 1) % (HpetMax + 1)
    IN  /\ hpet.enabled
        /\ hpet' = [hpet EXCEPT !.count = next, !.irq = @ \/ next = hpet.comp]
        /\ elapsed' = IF elapsed < HpetMax THEN elapsed + 1 ELSE elapsed
        /\ UNCHANGED <<polled, LapicState, call, todo, reg, arg>>

\* The local timer counts down from what was written to the initial count,
\* masked or not; the mask only holds the interrupt back.
LapicCount ==
    /\ cur > 0
    /\ cur' = IF cur > 1 THEN cur - 1 ELSE IF lvttimer.mode = PERIODIC THEN initcnt ELSE 0
    /\ lirq' = (lirq \/ (cur = 1 /\ ~lvttimer.masked))
    /\ UNCHANGED <<HpetState, lvttimer, initcnt, g_tick, call, todo, reg, arg>>

\* Writing the initial count starts the countdown.
StartCountdown(n) == initcnt' = n /\ cur' = n

-----------------------------------------------------------------------------
(* The interrupt handlers.                                                 *)

\* Slip: the counter starts over and nobody is told.
Sliphpet_timer_handler ==
    /\ hpet.irq
    /\ hpet' = [hpet EXCEPT !.irq = FALSE, !.count = 0]
    /\ UNCHANGED <<polled, elapsed, LapicState, call, todo, reg, arg>>

\* hpetDisable, the counter back to 0, the flag.
hpet_timer_handler ==
    /\ hpet.irq
    /\ hpet' = [hpet EXCEPT !.irq = FALSE, !.enabled = FALSE, !.count = 0]
    /\ polled' = TRUE
    /\ UNCHANGED <<elapsed, LapicState, call, todo, reg, arg>>

\* stopTimer and the tick.
lapic_timer_handler ==
    /\ lirq
    /\ lirq' = FALSE
    /\ lvttimer' = [lvttimer EXCEPT !.masked = TRUE]
    /\ g_tick' = IF g_tick < TickBound THEN g_tick + 1 ELSE g_tick
    /\ UNCHANGED <<HpetState, initcnt, cur, call, todo, reg, arg>>

-----------------------------------------------------------------------------
(* The register accesses the functions are made of.                        *)

Access(name) == todo # <<>> /\ Head(todo) = name /\ todo' = Tail(todo) /\ UNCHANGED <<call, arg>>

\* hpetDisable, the counter to 0 and the comparator to the converted time.
Prep ==
    /\ Access("prep")
    /\ hpet' = [hpet EXCEPT !.enabled = FALSE, !.count = 0, !.comp = arg]
    /\ UNCHANGED <<polled, elapsed, LapicState, reg>>

hpetEnable ==
    /\ Access("enable")
    /\ hpet' = [hpet EXCEPT !.enabled = TRUE]
    /\ elapsed' = 0
    /\ UNCHANGED <<polled, LapicState, reg>>

hpetDisable ==
    /\ Access("disable")
    /\ hpet' = [hpet EXCEPT !.enabled = FALSE]
    /\ UNCHANGED <<polled, elapsed, LapicState, reg>>

\* Slip: the flag is left up.
SlipWait ==
    /\ polled
    /\ Access("wait")
    /\ UNCHANGED <<HpetState, LapicState, reg>>

\* while(!polled), then the flag is lowered.
Wait ==
    /\ polled
    /\ Access("wait")
    /\ polled' = FALSE
    /\ UNCHANGED <<hpet, elapsed, LapicState, reg>>

ReadLvt ==
    /\ Access("read")
    /\ reg' = lvttimer
    /\ UNCHANGED <<HpetState, LapicState>>

\* The value read earlier goes back: without the mask, as it was, or in the mode
\* asked for.
WriteLvt(name, value) ==
    /\ Access(name)
    /\ lvttimer' = value
    /\ UNCHANGED <<HpetState, initcnt, cur, lirq, g_tick, reg>>

Unmask == WriteLvt("unmask", [reg EXCEPT !.masked = FALSE])
Restore == WriteLvt("restore", reg)
SetMode == WriteLvt("mode", [reg EXCEPT !.mode = arg])

\* stopTimer reads the register again.
stopTimer == WriteLvt("stop", [lvttimer EXCEPT !.masked = TRUE])

CountFromMax ==
    /\ Access("max")
    /\ StartCountdown(LapicMax)
    /\ UNCHANGED <<HpetState, lvttimer, lirq, g_tick, reg>>

\* Slip: the difference is taken the wrong way round.
SlipCountTicks ==
    /\ Access("ticks")
    /\ StartCountdown(cur - LapicMax)
    /\ UNCHANGED <<HpetState, lvttimer, lirq, g_tick, reg>>

\* The counts that went by become the new initial count.
CountTicks ==
    /\ Access("ticks")
    /\ StartCountdown(LapicMax - cur)
    /\ UNCHANGED <<HpetState, lvttimer, lirq, g_tick, reg>>

-----------------------------------------------------------------------------
(* The functions: what they do, register by register.                      *)

Hcount    == <<"prep", "enable", "wait">>                    \* hcount, hcountns
HpetPrep  == <<"prep">>                                      \* hpet_timer_prep...
HpetStart == <<"enable", "wait">>
HpetStop  == <<"disable">>
SetState  == <<"read", "stop", "mode">>                      \* set_lapic_timer_state
Prepare   == <<"read", "max", "prep", "unmask", "enable", "wait", "restore", "ticks">>
StartLapic == <<"read", "unmask">>                           \* start_lapic_timer
Lcount    == <<"read", "max", "unmask", "prep", "enable", "wait", "restore", "ticks", "unmask">>

Call(name, steps, argument) ==
    /\ todo = <<>>
    /\ call' = name /\ todo' = steps /\ arg' = argument
    /\ UNCHANGED <<HpetState, lvttimer, initcnt, cur, lirq, reg>>

\* The calls of hpet.h.  hpet_start is called with a time prepared.
CallHpet ==
    \/ \E q \in Quanta : Call("hcount", Hcount, q) /\ UNCHANGED g_tick
    \/ \E q \in Quanta : Call("prepare hpet", HpetPrep, q) /\ UNCHANGED g_tick
    \/ call = "prepare hpet" /\ Call("start hpet", HpetStart, 0) /\ UNCHANGED g_tick
    \/ Call("stop hpet", HpetStop, 0) /\ UNCHANGED g_tick

\* The calls of lapict.h.  prepare_lapic_timer is called with the timer masked,
\* start_lapic_timer right after it.
CallLapic ==
    \/ \E mode \in {ONE_SHOT, PERIODIC} : Call("state", SetState, mode) /\ UNCHANGED g_tick
    \/ lvttimer.masked /\ \E q \in Quanta : Call("prepare", Prepare, q) /\ UNCHANGED g_tick
    \/ call = "prepare" /\ Call("start", StartLapic, 0) /\ g_tick' = 0
    \/ \E q \in Quanta : Call("lcount", Lcount, q) /\ UNCHANGED g_tick

Kernel ==
    \/ Prep \/ hpetEnable \/ hpetDisable \/ Wait
    \/ ReadLvt \/ Unmask \/ Restore \/ SetMode \/ stopTimer \/ CountFromMax \/ CountTicks

-----------------------------------------------------------------------------
\* HPET_init and init_lapic_timer have run: both timers stopped, interrupts on.
TimersInit ==
    /\ hpet \in [enabled : {FALSE}, count : {0}, comp : Quanta, irq : {FALSE}]
    /\ polled = FALSE
    /\ lvttimer = [masked |-> TRUE, mode |-> ONE_SHOT]
    /\ initcnt = 0 /\ cur = 0 /\ lirq = FALSE /\ g_tick = 0 /\ elapsed = 0
    /\ call = "init" /\ todo = <<>> /\ reg = lvttimer /\ arg = 0

TimersNext == \/ CallHpet \/ CallLapic \/ Kernel
        \/ HpetCount \/ LapicCount \/ hpet_timer_handler \/ lapic_timer_handler

TimersSpec == TimersInit /\ [][TimersNext]_TimersVars

\* The counters run, the processor runs, and a pending interrupt is taken.
FairSpec ==
    /\ TimersSpec
    /\ WF_TimersVars(Kernel) /\ WF_TimersVars(HpetCount) /\ WF_TimersVars(LapicCount)
    /\ WF_TimersVars(hpet_timer_handler) /\ WF_TimersVars(lapic_timer_handler)

-----------------------------------------------------------------------------
(* Properties.                                                             *)

HpetRegisters == [enabled : BOOLEAN, count : 0 .. HpetMax, comp : 1 .. HpetMax, irq : BOOLEAN]
LvtValues == [masked : BOOLEAN, mode : {ONE_SHOT, PERIODIC}]

\* Every variable has its type.
TimersTypeOK ==
    /\ hpet \in HpetRegisters
    /\ lvttimer \in LvtValues /\ reg \in LvtValues
    /\ initcnt \in 0 .. LapicMax /\ cur \in 0 .. LapicMax
    /\ polled \in BOOLEAN /\ lirq \in BOOLEAN

\* hcount and hpet_start come back, with an interrupt that arrives at any point
\* of the wait and with the local timer interrupting as well.
WaitReturns == (todo # <<>> /\ Head(todo) = "wait") ~> (todo = <<>> \/ Head(todo) # "wait")

\* Nothing of a wait is left behind for the next one to trip over: no flag, no
\* interrupt on its way, no running counter.
NothingLeftOver == todo = <<>> => ~polled /\ ~hpet.irq /\ ~hpet.enabled

\* A wait is not cut short: the flag is up only once the counts asked for passed.
WaitsLongEnough == polled => elapsed >= hpet.comp

\* A wait on the HPET lasts as long as it was asked to and leaves the devices as the
\* next one expects them.
WaitsSound == TimersTypeOK /\ NothingLeftOver /\ WaitsLongEnough

Accesses == {"prep", "enable", "disable", "wait", "read", "unmask", "restore", "mode", "stop", "max", "ticks"}

AtWait == todo # <<>> /\ Head(todo) = "wait"

\* The functions wait right after they start the counter and nowhere else, and
\* set the comparator and the mode from an argument that has been given.
AccessOrder ==
    /\ todo \in Seq(Accesses)
    /\ \A i \in 1 .. Len(todo) :
        /\ todo[i] = "enable" => i < Len(todo) /\ todo[i + 1] = "wait"
        /\ todo[i] = "wait" => i = 1 \/ todo[i - 1] = "enable"
        /\ todo[i] = "prep" => arg \in Quanta
        /\ todo[i] = "mode" => arg \in {ONE_SHOT, PERIODIC}

\* The counter runs only under a wait, from zero, and has got to the comparator
\* when the interrupt is on its way; either the counter or the flag ends a wait.
CounterAgrees ==
    /\ hpet.comp \in Quanta /\ elapsed \in 0 .. HpetMax
    /\ AtWait => (polled <=> ~hpet.enabled)
    /\ ~AtWait => ~hpet.enabled /\ ~polled
    /\ ~hpet.enabled => hpet.count = 0 /\ ~hpet.irq
    /\ hpet.enabled /\ ~hpet.irq => hpet.count = elapsed /\ elapsed < hpet.comp
    /\ hpet.irq => elapsed >= hpet.comp

\* What every step of the kernel, of the counters and of the handlers keeps.
WaitsInv == WaitsSound /\ AccessOrder /\ CounterAgrees

\* lapict.h:35 "The timer MUST BE DISABLED before calling this function!" of
\* prepare_lapic_timer, which lapict.h:28 has follow set_lapic_timer_state.
SetStateDisables == call = "state" /\ todo = <<>> => lvttimer.masked

\* lapict.h:42 "the timer will start counting based on prepare_lapic_timer()":
\* a timer prepared and started ticks.
StartedTicks == (call = "start" /\ todo = <<>>) ~> (g_tick > 0 \/ call # "start")

\* lapict.c:158 "send int every quanta nanoseconds": a periodic timer that was
\* started goes on ticking.
PeriodicKeepsTicking ==
    (call = "start" /\ todo = <<>> /\ lvttimer.mode = PERIODIC) ~> (g_tick > 1 \/ call # "start")
=============================================================================
