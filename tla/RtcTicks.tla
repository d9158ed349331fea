------------------------------ MODULE RtcTicks ------------------------------
(***************************************************************************)
(* The tick and alarm service of driver/rtc.c: one hardware tick interrupt *)
(* is shared by a user of ticks and by the alarm, which compares the time  *)
(* at every tick.  Each of the two has a period it needs; the hardware     *)
(* must tick at the shorter one.                                           *)
(*                                                                         *)
(* The service is the driver's interface: StartOS compiles it but enables  *)
(* no RTC interrupt in the PLIC.  A tick is delivered while the hardware's *)
(* tick is enabled; whether the alarm's time matches, and whether the tick *)
(* falls on the user's period, is free.                                    *)
(***************************************************************************)
EXTENDS Integers

VARIABLES hw,     \* interrupt_ctrl: tick_enable, tick_int_mode, alarm_enable
          inst    \* rtc_instance

tickVars == <<hw, inst>>

(* The periods, from RTC_INT_SECOND to RTC_INT_DAY; RTC_INT_MAX stands for  *)
(* no period, and so does the user's -1, which the unsigned enum compares   *)
(* as larger than all.                                                      *)
Periods == 0 .. 3
RTC_INT_MAX == 4

rtc_tick_set_interrupt(h, on) == [h EXCEPT !.tick = on]
rtc_tick_set_interrupt_mode(h, mode) == [h EXCEPT !.mode = mode]
rtc_alarm_set_interrupt(h, on) == [h EXCEPT !.alarm = on]

TicksInit ==
    /\ hw = [tick |-> FALSE, mode |-> 0, alarm |-> FALSE]
    /\ inst = [byUser |-> FALSE, userMode |-> RTC_INT_MAX, userOnce |-> FALSE,
               byAlarm |-> FALSE, alarmMode |-> RTC_INT_MAX, alarmOnce |-> FALSE]

(* Mutant: the alarm's period is overwritten. *)
rtc_tick_irq_register_Always(once, mode) ==
    /\ inst' = [inst EXCEPT !.userOnce = once, !.byUser = TRUE, !.userMode = mode]
    /\ hw' = rtc_tick_set_interrupt(rtc_tick_set_interrupt_mode(hw, mode), TRUE)

rtc_tick_irq_register(once, mode) ==
    /\ inst' = [inst EXCEPT !.userOnce = once, !.byUser = TRUE, !.userMode = mode]
    /\ hw' = rtc_tick_set_interrupt(
                 IF ~inst.byAlarm \/ mode < hw.mode
                 THEN rtc_tick_set_interrupt_mode(hw, mode) ELSE hw, TRUE)

rtc_tick_irq_unregister ==
    /\ hw' = IF hw.alarm THEN hw ELSE rtc_tick_set_interrupt(hw, FALSE)
    /\ inst' = [inst EXCEPT !.byUser = FALSE, !.userMode = RTC_INT_MAX]

(* The alarm's period is that of the finest field its mask compares. *)
rtc_alarm_irq_register(once, mode) ==
    /\ inst' = [inst EXCEPT !.alarmOnce = once, !.byAlarm = TRUE,
                            !.alarmMode = mode]
    /\ LET h == IF ~inst.byUser \/ mode < hw.mode
                THEN rtc_tick_set_interrupt_mode(hw, mode) ELSE hw
       IN  hw' = rtc_tick_set_interrupt(rtc_alarm_set_interrupt(h, TRUE), TRUE)

(* With the alarm gone, the tick goes back to the user's period, or off. *)
WithoutAlarm(h) ==
    IF ~inst.byUser THEN rtc_tick_set_interrupt(h, FALSE)
    ELSE IF inst.userMode > h.mode
    THEN rtc_tick_set_interrupt(
             rtc_tick_set_interrupt_mode(h, inst.userMode), TRUE)
    ELSE h

NoAlarm(i) == [i EXCEPT !.byAlarm = FALSE, !.alarmMode = RTC_INT_MAX]

rtc_alarm_irq_unregister ==
    /\ hw' = WithoutAlarm(rtc_alarm_set_interrupt(hw, FALSE))
    /\ inst' = NoAlarm(inst)

(* One tick: first the alarm, when its time matches, then the user's tick,  *)
(* when it falls on the user's period.                                      *)
rtc_irq_callback(matches, falls) ==
    LET rings == hw.alarm /\ matches /\ inst.alarmOnce
        h == IF rings THEN WithoutAlarm(rtc_alarm_set_interrupt(hw, FALSE)) ELSE hw
        i == IF rings THEN NoAlarm(inst) ELSE inst
        once == i.byUser /\ falls /\ i.userOnce
    IN  /\ hw.tick
        /\ hw' = IF once THEN rtc_tick_set_interrupt(h, FALSE) ELSE h
        /\ inst' = IF once THEN [i EXCEPT !.byUser = FALSE,
                                          !.userMode = RTC_INT_MAX] ELSE i

TicksNext ==
    \/ \E once \in BOOLEAN, mode \in Periods : rtc_tick_irq_register(once, mode)
    \/ rtc_tick_irq_unregister
    \/ \E once \in BOOLEAN, mode \in Periods : rtc_alarm_irq_register(once, mode)
    \/ rtc_alarm_irq_unregister
    \/ \E matches, falls \in BOOLEAN : rtc_irq_callback(matches, falls)

TicksSpec == TicksInit /\ [][TicksNext]_tickVars
-----------------------------------------------------------------------------
TicksTypeOK ==
    /\ hw \in [tick : BOOLEAN, mode : Periods, alarm : BOOLEAN]
    /\ inst \in [byUser : BOOLEAN, userMode : 0 .. RTC_INT_MAX,
                 userOnce : BOOLEAN, byAlarm : BOOLEAN,
                 alarmMode : 0 .. RTC_INT_MAX, alarmOnce : BOOLEAN]

(* In every order of registering, unregistering and ringing, a registered   *)
(* user has its tick, at its period or a shorter one, and the period that   *)
(* is set is never longer than an armed alarm's mask needs.  That the tick  *)
(* runs is not promised to the alarm: a single-shot tick of the user that   *)
(* expires switches it off for both (rtc.c:716).                            *)
TicksServed ==
    /\ TicksTypeOK
    /\ inst.byUser => hw.tick /\ hw.mode <= inst.userMode
    /\ inst.byAlarm => hw.alarm /\ hw.mode <= inst.alarmMode
=============================================================================
