---------------------------- MODULE BoardProofs ----------------------------
(***************************************************************************)
(* Proofs about the board's devices.                                       *)
(***************************************************************************)
EXTENDS Pins, Rtc, RtcTicks, Sysctl, SdCard, FiniteSetTheorems, WellFoundedInduction, TLAPS

(* A party that is registered has a period. *)
TicksInv ==
    /\ TicksServed
    /\ inst.byUser => inst.userMode \in Periods

Hardware == [tick : BOOLEAN, mode : Periods, alarm : BOOLEAN]

Instances ==
    [byUser : BOOLEAN, userMode : 0 .. RTC_INT_MAX, userOnce : BOOLEAN,
     byAlarm : BOOLEAN, alarmMode : 0 .. RTC_INT_MAX, alarmOnce : BOOLEAN]

(* Unregistering the alarm leaves the user's fields alone. *)
LEMMA AlarmGone ==
    ASSUME NEW i \in Instances, NEW n, n = NoAlarm(i)
    PROVE  /\ n \in Instances
           /\ n.byUser = i.byUser
           /\ n.userMode = i.userMode
           /\ n.byAlarm = FALSE
<1>1. n = [byUser |-> i.byUser, userMode |-> i.userMode,
           userOnce |-> i.userOnce, byAlarm |-> FALSE,
           alarmMode |-> RTC_INT_MAX, alarmOnce |-> i.alarmOnce]
  BY DEF Instances, NoAlarm, RTC_INT_MAX
<1> QED BY <1>1 DEF Instances, RTC_INT_MAX

(* Unregistering the user leaves the alarm's fields alone. *)
LEMMA UserGone ==
    ASSUME NEW i \in Instances, NEW n,
           n = [i EXCEPT !.byUser = FALSE, !.userMode = RTC_INT_MAX]
    PROVE  /\ n \in Instances
           /\ n.byUser = FALSE
           /\ n.byAlarm = i.byAlarm
           /\ n.alarmMode = i.alarmMode
<1>1. PICK k : k = [i EXCEPT !.byUser = FALSE]
  OBVIOUS
<1>2. /\ k \in Instances
      /\ k.byUser = FALSE
      /\ k.byAlarm = i.byAlarm
      /\ k.alarmMode = i.alarmMode
  BY <1>1 DEF Instances
<1>3. n = [k EXCEPT !.userMode = RTC_INT_MAX]
  BY <1>1
<1> QED BY <1>2, <1>3 DEF Instances, RTC_INT_MAX

(* With the alarm off, the user still has its tick, at its period. *)
LEMMA UserKeepsTick ==
    ASSUME TicksInv, NEW h, h = WithoutAlarm(rtc_alarm_set_interrupt(hw, FALSE))
    PROVE  /\ h \in Hardware
           /\ inst.byUser => h.tick /\ h.mode <= inst.userMode
<1>1. PICK a : a = rtc_alarm_set_interrupt(hw, FALSE)
  BY Zenon
<1>2. /\ a \in Hardware
      /\ a.tick = hw.tick /\ a.mode = hw.mode
  BY <1>1 DEF rtc_alarm_set_interrupt, Hardware, TicksInv, TicksServed, TicksTypeOK
<1>3. PICK m : m = rtc_tick_set_interrupt_mode(a, inst.userMode)
  OBVIOUS
<1>4. ASSUME inst.byUser
      PROVE  m \in Hardware /\ m.mode = inst.userMode
  BY <1>2, <1>3, <1>4 DEF rtc_tick_set_interrupt_mode, Hardware, TicksInv
<1>5. h = IF ~inst.byUser THEN rtc_tick_set_interrupt(a, FALSE)
          ELSE IF inst.userMode > a.mode THEN rtc_tick_set_interrupt(m, TRUE)
          ELSE a
  BY <1>1, <1>3 DEF WithoutAlarm
<1>6. CASE ~inst.byUser
  BY <1>2, <1>5, <1>6 DEF rtc_tick_set_interrupt, Hardware
<1>7. CASE inst.byUser /\ inst.userMode > a.mode
  <2>1. h = [m EXCEPT !.tick = TRUE]
    BY <1>5, <1>7 DEF rtc_tick_set_interrupt
  <2>2. h \in Hardware /\ h.tick /\ h.mode = m.mode
    BY <2>1, <1>4, <1>7 DEF Hardware
  <2>3. h.mode = inst.userMode
    BY <2>2, <1>4, <1>7
  <2>4. inst.userMode \in 0 .. 3
    BY <1>7 DEF TicksInv, Periods
  <2>5. \A u \in 0 .. 3 : u <= u
    OBVIOUS
  <2>6. h.mode <= inst.userMode
    BY <2>3, <2>4, <2>5, Zenon
  <2> QED BY <2>2, <2>6, Zenon
<1>8. CASE inst.byUser /\ ~(inst.userMode > a.mode)
  BY <1>2, <1>5, <1>8 DEF TicksInv, TicksServed, TicksTypeOK, Periods, RTC_INT_MAX
<1> QED BY <1>6, <1>7, <1>8

(* Whatever order ticks and alarms are registered and taken back in, the   *)
(* hardware tick is at least as often as each registered user needs, so no *)
(* handler that is still registered misses its period.                     *)
THEOREM TicksAlwaysServed == TicksSpec => []TicksServed
<1> USE DEF Periods, RTC_INT_MAX, rtc_tick_set_interrupt,
            rtc_tick_set_interrupt_mode, rtc_alarm_set_interrupt
<1>1. TicksInit => TicksInv
  BY DEF TicksInit, TicksInv, TicksServed, TicksTypeOK
<1>2. TicksInv /\ [TicksNext]_tickVars => TicksInv'
  <2> SUFFICES ASSUME TicksInv, [TicksNext]_tickVars PROVE TicksInv'
    OBVIOUS
  <2> USE DEF TicksInv, TicksServed, TicksTypeOK
  <2>1. ASSUME NEW once \in BOOLEAN, NEW mode \in Periods,
               rtc_tick_irq_register(once, mode)
        PROVE  TicksInv'
    <3>1. /\ hw' \in [tick : BOOLEAN, mode : Periods, alarm : BOOLEAN]
          /\ hw'.tick
          /\ hw'.alarm = hw.alarm
          /\ hw'.mode = IF ~inst.byAlarm \/ mode < hw.mode THEN mode ELSE hw.mode
      BY <2>1 DEF rtc_tick_irq_register
    <3>2. inst' = [byUser |-> TRUE, userMode |-> mode,
                        userOnce |-> once, byAlarm |-> inst.byAlarm,
                        alarmMode |-> inst.alarmMode, alarmOnce |-> inst.alarmOnce]
      BY <2>1 DEF rtc_tick_irq_register
    <3> QED BY <3>1, <3>2
  <2>2. ASSUME rtc_tick_irq_unregister PROVE TicksInv'
    <3>1. /\ hw' \in [tick : BOOLEAN, mode : Periods, alarm : BOOLEAN]
          /\ hw.alarm => hw' = hw
      BY <2>2 DEF rtc_tick_irq_unregister
    <3>2. inst' = [byUser |-> FALSE, userMode |-> RTC_INT_MAX,
                        userOnce |-> inst.userOnce, byAlarm |-> inst.byAlarm,
                        alarmMode |-> inst.alarmMode, alarmOnce |-> inst.alarmOnce]
      BY <2>2 DEF rtc_tick_irq_unregister
    <3> QED BY <3>1, <3>2
  <2>3. ASSUME NEW once \in BOOLEAN, NEW mode \in Periods,
               rtc_alarm_irq_register(once, mode)
        PROVE  TicksInv'
    <3>1. /\ hw' \in [tick : BOOLEAN, mode : Periods, alarm : BOOLEAN]
          /\ hw'.tick /\ hw'.alarm
          /\ hw'.mode = IF ~inst.byUser \/ mode < hw.mode THEN mode ELSE hw.mode
      BY <2>3 DEF rtc_alarm_irq_register
    <3>2. inst' = [byUser |-> inst.byUser, userMode |-> inst.userMode,
                        userOnce |-> inst.userOnce, byAlarm |-> TRUE,
                        alarmMode |-> mode, alarmOnce |-> once]
      BY <2>3 DEF rtc_alarm_irq_register
    <3> QED BY <3>1, <3>2
  <2>4. ASSUME rtc_alarm_irq_unregister PROVE TicksInv'
    <3>1. /\ inst' = NoAlarm(inst)
          /\ hw' = WithoutAlarm(rtc_alarm_set_interrupt(hw, FALSE))
      BY <2>4 DEF rtc_alarm_irq_unregister
    <3>2. /\ inst' \in Instances
          /\ inst'.byUser = inst.byUser
          /\ inst'.userMode = inst.userMode
          /\ inst'.byAlarm = FALSE
      BY <3>1, AlarmGone DEF Instances
    <3>3. /\ hw' \in Hardware
          /\ inst.byUser => hw'.tick /\ hw'.mode <= inst.userMode
      BY <3>1, UserKeepsTick
    <3> QED BY <3>2, <3>3 DEF Instances, Hardware
  <2>5. ASSUME NEW matches \in BOOLEAN, NEW falls \in BOOLEAN,
               rtc_irq_callback(matches, falls)
        PROVE  TicksInv'
    <3> DEFINE rings == hw.alarm /\ matches /\ inst.alarmOnce
    <3>1. PICK h : h = IF rings
                       THEN WithoutAlarm(rtc_alarm_set_interrupt(hw, FALSE))
                       ELSE hw
      OBVIOUS
    <3>2. PICK i : i = IF rings THEN NoAlarm(inst) ELSE inst
      OBVIOUS
    <3> DEFINE once == i.byUser /\ falls /\ i.userOnce
    <3>3. /\ hw' = IF once THEN rtc_tick_set_interrupt(h, FALSE) ELSE h
          /\ inst' = IF once THEN [i EXCEPT !.byUser = FALSE,
                                            !.userMode = RTC_INT_MAX] ELSE i
      BY <2>5, <3>1, <3>2 DEF rtc_irq_callback
    <3>4. /\ h \in Hardware /\ i \in Instances
          /\ i.byUser => i.userMode \in Periods /\ h.tick /\ h.mode <= i.userMode
          /\ i.byAlarm => h.alarm /\ h.mode <= i.alarmMode
      <4>1. CASE rings
        <5>1. /\ i \in Instances
              /\ i.byUser = inst.byUser
              /\ i.userMode = inst.userMode
              /\ i.byAlarm = FALSE
          BY <3>2, <4>1, AlarmGone DEF Instances
        <5>2. /\ h \in Hardware
              /\ inst.byUser => h.tick /\ h.mode <= inst.userMode
          BY <3>1, <4>1, UserKeepsTick
        <5> QED BY <5>1, <5>2
      <4>2. CASE ~rings
        BY <3>1, <3>2, <4>2 DEF Instances, Hardware
      <4> QED BY <4>1, <4>2
    <3>5. CASE once
      <4>1. /\ inst' \in Instances
            /\ inst'.byUser = FALSE
            /\ inst'.byAlarm = i.byAlarm
            /\ inst'.alarmMode = i.alarmMode
        <5>1. inst' = [i EXCEPT !.byUser = FALSE, !.userMode = RTC_INT_MAX]
          BY <3>3, <3>5, Zenon
        <5> HIDE DEF RTC_INT_MAX
        <5> QED BY <3>4, <5>1, UserGone, Zenon
      <4>2. /\ hw' \in Hardware
            /\ hw'.mode = h.mode /\ hw'.alarm = h.alarm
        BY <3>3, <3>4, <3>5 DEF Hardware
      <4> QED BY <4>1, <4>2, <3>4 DEF Instances, Hardware
    <3>6. CASE ~once
      BY <3>3, <3>4, <3>6 DEF Instances, Hardware
    <3> QED BY <3>5, <3>6
  <2>6. CASE UNCHANGED tickVars
    BY <2>6 DEF tickVars
  <2> QED BY <2>1, <2>2, <2>3, <2>4, <2>5, <2>6 DEF TicksNext
<1>3. TicksInv => TicksServed
  BY DEF TicksInv
<1> QED BY <1>1, <1>2, <1>3, PTL DEF TicksSpec

(* The settings of the functions that the card's wires use: the parts of   *)
(* the table do not overlap, so each function has one row.                 *)
LEMMA WireSettings ==
    /\ function_config[4] = Data
    /\ function_config[5] = Data
    /\ function_config[15] = Out
    /\ function_config[17] = Out
    /\ function_config[31] = InOut
    /\ function_config[120] = Off
<1>1. ASSUME NEW f, NEW pad, <<f, pad>> \in Rows
      PROVE  /\ f \in {4, 5} => pad = Data
             /\ f \in {15, 17} => pad = Out
             /\ f = 31 => pad = InOut
             /\ f = 120 => pad = Off
  BY <1>1
     DEF Rows,
         JTAG, SPI0_D, SPI0_Select, UARTHS, RESV_6_7, CLK_1, GPIOHS,
         GPIO, UART, SPI1_D, SPI1_Select, SPI_SLAVE, I2S0_Clocks,
         I2S0_Data, I2S1_Clocks, I2S1_Data, I2S2_Clocks, I2S2_Data,
         RESV_0_5, I2C, CMOS_Control, CMOS_D, SCCB, UART1_In,
         UART1_Out, UART2_In, UART2_Out, UART3_In, UART3_Out,
         TIMER0_Toggle, TIMER1_Toggle, TIMER2_Toggle, CLK_2,
         INTERNAL_Out, INTERNAL_In, CONSTANT_Level, INTERNAL18, DEBUG,
         FUNC_RESV0, FUNC_GPIOHS0, Each
<1>2. /\ \A f \in {4, 5} : <<f, Data>> \in Rows
      /\ \A f \in {15, 17} : <<f, Out>> \in Rows
      /\ <<31, InOut>> \in Rows
      /\ <<120, Off>> \in Rows
  BY DEF Rows, SPI0_D, SPI0_Select, GPIOHS, RESV_0_5, FUNC_RESV0, FUNC_GPIOHS0,
         Each
<1>3. {Data, Out, InOut, Off} \subseteq Settings
  BY DEF Settings
<1>4. ASSUME NEW f \in 0 .. FUNC_MAX - 1, NEW pad \in Settings,
             <<f, pad>> \in Rows, \A p : <<f, p>> \in Rows => p = pad
      PROVE  function_config[f] = pad
  <2>1. (CHOOSE p \in Settings : <<f, p>> \in Rows) = pad
    BY <1>4
  <2> QED BY <2>1 DEF function_config
<1>5. {4, 5, 15, 17, 31, 120} \subseteq 0 .. FUNC_MAX - 1
  BY DEF FUNC_MAX
<1> QED BY <1>1, <1>2, <1>3, <1>4, <1>5

(* The calls of fpioa_pin_init name five pads and five functions. *)
LEMMA FiveWires ==
    /\ Len(Wires) = 5
    /\ Wires[4] = <<32, 31>>
    /\ \A i \in 1 .. 5 : Wires[i][1] \in IO /\ Wires[i][2] \in {4, 5, 15, 17, 31}
    /\ \A i, j \in 1 .. 5 :
         i # j => Wires[i][1] # Wires[j][1] /\ Wires[i][2] # Wires[j][2]
<1>1. /\ Wires[1] = <<27, 17>> /\ Wires[2] = <<28, 4>> /\ Wires[3] = <<26, 5>>
      /\ Wires[4] = <<32, 31>> /\ Wires[5] = <<29, 15>> /\ Len(Wires) = 5
  BY DEF Wires, FUNC_SPI0_SCLK, FUNC_SPI0_D0, FUNC_SPI0_D1, FUNC_GPIOHS7,
         FUNC_SPI0_SS3
<1>2. \A i \in 1 .. 5 : i \in {1, 2, 3, 4, 5}
  OBVIOUS
<1>3. {26, 27, 28, 29, 32} \subseteq IO
  BY PinsAssumption DEF IO
<1> HIDE DEF Wires
<1> QED BY <1>1, <1>2, <1>3

(* What fpioa_set_function_raw writes for the functions of the wires. *)
LEMMA WireRegisters ==
    /\ \A f \in {4, 5, 15, 17, 31, 120} :
         Setting(f) \in PadRegisters /\ Setting(f).ch_sel = f
    /\ Setting(31).on = InOut.on
<1>1. \A f \in {4, 5, 15, 17, 31, 120} :
        function_config[f] \in {Data, Out, InOut, Off}
  BY WireSettings
<1>2. \A p \in {Data, Out, InOut, Off} :
        /\ p.ds \in 0 .. 15
        /\ p.on \ {"tie_en", "tie_val"} \in
             SUBSET {"oe_en", "oe_inv", "pu", "pd", "sl", "ie_en", "ie_inv", "st"}
  BY DEF Data, Out, InOut, Off, Pad
<1>3. InOut.on \ {"tie_en", "tie_val"} = InOut.on
  BY DEF InOut, Pad
<1>4. Setting(31).on = InOut.on
  BY <1>3, WireSettings DEF Setting
<1>5. \A f \in {4, 5, 15, 17, 31, 120} :
         Setting(f) \in PadRegisters /\ Setting(f).ch_sel = f
  BY <1>1, <1>2 DEF Setting, PadRegisters, FUNC_MAX
<1> QED BY <1>4, <1>5

(* fpioa_set_function puts a function on a pad and takes it off every      *)
(* other pad; a pad with another function keeps its settings.              *)
LEMMA FunctionMoves ==
    ASSUME NEW pads \in [IO -> PadRegisters], NEW n \in IO,
           NEW f \in {4, 5, 15, 17, 31}
    PROVE  LET after == fpioa_set_function(pads, n, f)
           IN  /\ after \in [IO -> PadRegisters]
               /\ after[n] = Setting(f)
               /\ \A m \in IO \ {n} :
                    after[m] = IF pads[m].ch_sel = f
                               THEN Setting(120) ELSE pads[m]
<1> DEFINE parked == [m \in IO |->
               IF pads[m].ch_sel = f /\ m # n /\ f # FUNC_RESV0
               THEN Setting(FUNC_RESV0) ELSE pads[m]]
           after == [parked EXCEPT ![n] = Setting(f)]
<1>1. fpioa_set_function(pads, n, f) = after
  BY DEF fpioa_set_function, fpioa_set_function_raw
<1>2. parked \in [IO -> PadRegisters]
  BY WireRegisters DEF FUNC_RESV0
<1>3. after[n] = Setting(f)
  BY <1>2
<1>4. after \in [IO -> PadRegisters]
  BY <1>2, WireRegisters
<1>5. ASSUME NEW m \in IO \ {n}
      PROVE  after[m] = IF pads[m].ch_sel = f THEN Setting(120) ELSE pads[m]
  BY <1>2 DEF FUNC_RESV0
<1> HIDE DEF after
<1> QED BY <1>1, <1>3, <1>4, <1>5

(* A set of pads that is not empty has a first one. *)
LEMMA FirstPad ==
    ASSUME NEW S \in SUBSET IO, S # {}
    PROVE  \E n \in S : \A m \in S : n <= m
<1>1. S \subseteq Nat
  BY PinsAssumption DEF IO
<1>2. PICK n \in S : \A m \in S : ~ <<m, n>> \in OpToRel(<, Nat)
  BY <1>1, NatLessThanWellFounded, WFMin
<1>3. \A m \in S : ~(m < n)
  BY <1>1, <1>2 DEF OpToRel
<1> QED BY <1>1, <1>3

(* fpioa_get_io_by_function answers with a pad that has the function. *)
LEMMA PadFound ==
    ASSUME NEW pads, NEW f
    PROVE  LET n == fpioa_get_io_by_function(pads, f)
           IN  /\ n \in IO => pads[n].ch_sel = f
               /\ (\E m \in IO : pads[m].ch_sel = f) => n \in IO
<1> DEFINE found == {n \in IO : pads[n].ch_sel = f}
<1>1. fpioa_get_io_by_function(pads, f) = IF found = {} THEN -1 ELSE Min(found)
  BY DEF fpioa_get_io_by_function
<1>2. CASE found = {}
  BY <1>1, <1>2 DEF IO
<1>3. CASE found # {}
  <2>1. Min(found) \in found
    <3>1. found \in SUBSET IO
      OBVIOUS
    <3> HIDE DEF found
    <3>2. PICK x \in found : \A y \in found : x <= y
      BY <1>3, <3>1, FirstPad
    <3> QED BY <3>2 DEF Min
  <2> QED BY <1>1, <1>3, <2>1
<1> QED BY <1>2, <1>3

(* The pull that a setting of fpioa_set_io_pull leaves on the pad. *)
PullOf(pull) ==
    CASE pull = "NONE" -> {} [] pull = "DOWN" -> {"pd"} [] pull = "UP" -> {"pu"}

(* fpioa_set_io_pull changes the pulls of one pad and nothing else. *)
LEMMA PullSet ==
    ASSUME NEW pads \in [IO -> PadRegisters], NEW n \in IO,
           NEW pull \in {"NONE", "DOWN", "UP"}
    PROVE  LET after == fpioa_set_io_pull(pads, n, pull)
           IN  /\ after \in [IO -> PadRegisters]
               /\ \A m \in IO : after[m].ch_sel = pads[m].ch_sel
               /\ \A m \in IO \ {n} : after[m] = pads[m]
               /\ after[n].on = (pads[n].on \ Pulls) \cup PullOf(pull)
<1> DEFINE on == (pads[n].on \ Pulls) \cup PullOf(pull)
           after == [pads EXCEPT ![n].on = on]
<1>1. fpioa_set_io_pull(pads, n, pull) = after
  BY DEF fpioa_set_io_pull, PullOf
<1>2. PullOf(pull) \subseteq {"pu", "pd"}
  BY DEF PullOf
<1>3. pads[n] \in PadRegisters
  OBVIOUS
<1>4. on \in SUBSET {"oe_en", "oe_inv", "do_sel", "do_inv", "pu", "pd", "sl",
                     "ie_en", "ie_inv", "di_inv", "st"}
  BY <1>2, <1>3 DEF PadRegisters
<1> HIDE DEF on
<1>5. after[n] = [pads[n] EXCEPT !.on = on]
  OBVIOUS
<1>6. \A m \in IO \ {n} : after[m] = pads[m]
  OBVIOUS
<1>7. after[n] \in PadRegisters /\ after[n].ch_sel = pads[n].ch_sel /\ after[n].on = on
  <2> HIDE DEF after
  <2> QED BY <1>3, <1>4, <1>5 DEF PadRegisters
<1>8. after \in [IO -> PadRegisters]
  <2>1. \A m \in IO : after[m] \in PadRegisters
    <3> HIDE DEF after
    <3> QED BY <1>6, <1>7
  <2>2. after = [m \in IO |-> after[m]]
    OBVIOUS
  <2> HIDE DEF after
  <2> QED BY <2>1, <2>2
<1>9. \A m \in IO : after[m].ch_sel = pads[m].ch_sel
  <2> HIDE DEF after
  <2> QED BY <1>6, <1>7
<1> HIDE DEF after
<1> QED BY <1>1, <1>6, <1>7, <1>8, <1>9 DEF on

(* The invariant of the pins: CardWired, with what SelectReachesCard says   *)
(* of the select line's pad from the call that placed it on, and no GPIOHS  *)
(* pin in use before the last call.                                         *)
SelectPad(pads, inputs, outputs) ==
    /\ pads[32].on \ Pulls = InOut.on
    /\ 7 \notin inputs \cup outputs => pads[32].on \cap Pulls = {}
    /\ 7 \in outputs => pads[32].on \cap Pulls = {"pd"}

PinsInv ==
    /\ PinsTypeOK
    /\ WiresApart
    /\ hs.input_en \cap hs.output_en = {}
    /\ wired < 5 => hs.input_en = {} /\ hs.output_en = {}
    /\ wired >= 4 => SelectPad(io, hs.input_en, hs.output_en)

(* Whatever the pads held at reset, every step of fpioa_pin_init and of the *)
(* select line's GPIOHS calls leaves the card's five wires on one pad each  *)
(* and the select line on its pad, with the pull the last drive mode chose. *)
THEOREM CardAlwaysWired == PinsSpec => []CardWired
<1>1. PinsInit => PinsInv
  <2> SUFFICES ASSUME PinsInit PROVE PinsInv
    OBVIOUS
  <2>1. PinsTypeOK
    BY PinsAssumption, FiveWires DEF PinsInit, PinsTypeOK
  <2>2. WiresApart
    BY DEF PinsInit, WiresApart
  <2> QED BY <2>1, <2>2 DEF PinsInit, PinsInv
<1>2. PinsInv /\ [PinsNext]_pinVars => PinsInv'
  <2> SUFFICES ASSUME PinsInv, [PinsNext]_pinVars PROVE PinsInv'
    OBVIOUS
  <2>io. io \in [IO -> PadRegisters] /\ wired \in 0 .. 5
    BY FiveWires DEF PinsInv, PinsTypeOK
  <2>pads. {26, 27, 28, 29, 32} \subseteq IO
    BY PinsAssumption DEF IO
  <2>hs. hs \in [input_en : SUBSET GpioPins, output_en : SUBSET GpioPins,
                output_val : SUBSET GpioPins]
    BY DEF PinsInv, PinsTypeOK
  <2>pin. {6, 7} \subseteq GpioPins
    BY DEF GpioPins
  <2>1. ASSUME fpioa_pin_init PROVE PinsInv'
    <3> DEFINE n == Wires[wired + 1][1]
               f == Wires[wired + 1][2]
    <3>1. /\ wired \in 0 .. 4 /\ wired' = wired + 1 /\ hs' = hs
          /\ io' = fpioa_set_function(io, n, f)
      BY <2>1, <2>io, FiveWires DEF fpioa_pin_init
    <3>2. n \in IO /\ f \in {4, 5, 15, 17, 31}
      BY <3>1, FiveWires
    <3>3. /\ io' \in [IO -> PadRegisters]
          /\ io'[n] = Setting(f)
          /\ \A m \in IO \ {n} :
               io'[m] = IF io[m].ch_sel = f THEN Setting(120) ELSE io[m]
      <4> HIDE DEF n, f
      <4> QED BY <2>io, <3>1, <3>2, FunctionMoves
    <3>4. PinsTypeOK'
      BY <3>1, <3>3, FiveWires DEF PinsInv, PinsTypeOK
    <3>5. WiresApart'
      <4> SUFFICES ASSUME NEW i \in 1 .. wired'
                   PROVE  {m \in IO : io'[m].ch_sel = Wires[i][2]} = {Wires[i][1]}
        BY DEF WiresApart
      <4>1. i \in 1 .. 5 /\ wired + 1 \in 1 .. 5
        BY <3>1
      <4>2. Wires[i][2] \in {4, 5, 15, 17, 31} /\ Wires[i][1] \in IO
        BY <4>1, FiveWires
      <4>3. Setting(f).ch_sel = f /\ Setting(120).ch_sel = 120
        BY <3>2, WireRegisters
      <4>4. CASE i = wired + 1
        <5>1. Wires[i][1] = n /\ Wires[i][2] = f
          BY <4>4
        <5> HIDE DEF n, f
        <5>2. \A m \in IO : io'[m].ch_sel = f <=> m = n
          BY <3>2, <3>3, <4>3
        <5> QED BY <5>1, <5>2, <3>2
      <4>5. CASE i # wired + 1
        <5>1. i \in 1 .. wired
          BY <3>1, <4>5
        <5>2. {m \in IO : io[m].ch_sel = Wires[i][2]} = {Wires[i][1]}
          BY <5>1 DEF PinsInv, WiresApart
        <5>3. Wires[i][1] # n /\ Wires[i][2] # f
          BY <4>1, <4>5, FiveWires
        <5> HIDE DEF n, f
        <5>4. \A m \in IO :
                io'[m].ch_sel = Wires[i][2] <=> io[m].ch_sel = Wires[i][2]
          <6> SUFFICES ASSUME NEW m \in IO
                       PROVE  io'[m].ch_sel = Wires[i][2] <=> io[m].ch_sel = Wires[i][2]
            OBVIOUS
          <6>1. CASE m = n
            <7>1. io[m].ch_sel # Wires[i][2]
              BY <5>2, <5>3, <6>1
            <7> QED BY <7>1, <3>3, <4>3, <5>3, <6>1
          <6>2. CASE m # n /\ io[m].ch_sel = f
            BY <6>2, <3>3, <4>2, <4>3, <5>3
          <6>3. CASE m # n /\ io[m].ch_sel # f
            BY <6>3, <3>3
          <6> QED BY <6>1, <6>2, <6>3
        <5> QED BY <5>2, <5>4
      <4> QED BY <4>4, <4>5
    <3>6. wired' >= 4 => SelectPad(io, hs.input_en, hs.output_en)'
      <4> SUFFICES ASSUME wired \in {3, 4}
                   PROVE  SelectPad(io', hs.input_en, hs.output_en)
        BY <3>1 DEF SelectPad
      <4>1. hs.input_en = {} /\ hs.output_en = {}
        BY <3>1 DEF PinsInv
      <4>2. CASE wired = 3
        <5>1. n = 32 /\ f = 31
          BY <4>2, FiveWires
        <5>2. io'[32].on = InOut.on
          <6> HIDE DEF n, f
          <6> QED BY <5>1, <3>3, WireRegisters
        <5>3. InOut.on \cap Pulls = {}
          BY DEF InOut, Pad, Pulls
        <5> QED BY <4>1, <5>2, <5>3 DEF SelectPad
      <4>3. CASE wired = 4
        <5>1. n # 32 /\ f # 31
          BY <4>3, FiveWires
        <5>2. io[32].ch_sel = 31
          <6>1. {m \in IO : io[m].ch_sel = Wires[4][2]} = {Wires[4][1]}
            BY <4>3 DEF PinsInv, WiresApart
          <6> QED BY <6>1, FiveWires
        <5>3. io'[32] = io[32]
          <6> HIDE DEF n, f
          <6> QED BY <5>1, <5>2, <3>3, <2>pads
        <5>4. SelectPad(io, hs.input_en, hs.output_en)
          BY <4>3 DEF PinsInv
        <5> QED BY <5>3, <5>4 DEF SelectPad
      <4> QED BY <4>2, <4>3
    <3> QED BY <3>1, <3>4, <3>5, <3>6 DEF PinsInv
  <2>2. ASSUME NEW pin \in {6, 7}, NEW mode \in Modes,
               gpiohs_set_drive_mode(pin, mode)
        PROVE  PinsInv'
    <3> DEFINE pull == CASE mode = "INPUT" -> "NONE"
                         [] mode = "INPUT_PULL_UP" -> "UP"
                         [] mode \in {"INPUT_PULL_DOWN", "OUTPUT"} -> "DOWN"
               n == fpioa_get_io_by_function(io, FUNC_GPIOHS0 + pin)
    <3>1. /\ wired = 5 /\ wired' = wired
          /\ io' = fpioa_set_io_pull(io, n, pull)
      BY <2>2, FiveWires DEF gpiohs_set_drive_mode
    <3>2. /\ hs' \in [input_en : SUBSET GpioPins, output_en : SUBSET GpioPins,
                      output_val : SUBSET GpioPins]
          /\ hs'.input_en = IF mode = "OUTPUT" THEN hs.input_en \ {pin}
                            ELSE hs.input_en \cup {pin}
          /\ hs'.output_en = IF mode = "OUTPUT" THEN hs.output_en \cup {pin}
                             ELSE hs.output_en \ {pin}
      <4>1. PICK in : in = IF mode = "OUTPUT" THEN hs.input_en \ {pin}
                           ELSE hs.input_en \cup {pin}
        OBVIOUS
      <4>2. PICK out : out = IF mode = "OUTPUT" THEN hs.output_en \cup {pin}
                             ELSE hs.output_en \ {pin}
        OBVIOUS
      <4>3. in \in SUBSET GpioPins /\ out \in SUBSET GpioPins
        BY <2>hs, <2>pin, <4>1, <4>2
      <4>4. hs' = [hs EXCEPT !.input_en = in, !.output_en = out]
        BY <2>2, <4>1, <4>2 DEF gpiohs_set_drive_mode
      <4>5. hs' = [input_en |-> in, output_en |-> out, output_val |-> hs.output_val]
        BY <2>hs, <4>4
      <4> QED BY <2>hs, <4>1, <4>2, <4>3, <4>5
    <3>3. pull \in {"NONE", "DOWN", "UP"} /\ (mode = "OUTPUT" => pull = "DOWN")
      BY DEF Modes
    <3>4. io[32].ch_sel = 31 /\ \A m \in IO : io[m].ch_sel = 31 => m = 32
      <4>1. {m \in IO : io[m].ch_sel = Wires[4][2]} = {Wires[4][1]}
        BY <3>1 DEF PinsInv, WiresApart
      <4> QED BY <4>1, FiveWires
    <3>5. /\ n \in IO => io[n].ch_sel = 24 + pin
          /\ pin = 7 => n = 32
      <4>1. /\ n \in IO => io[n].ch_sel = FUNC_GPIOHS0 + pin
            /\ (\E m \in IO : io[m].ch_sel = FUNC_GPIOHS0 + pin) => n \in IO
        BY PadFound
      <4> HIDE DEF n
      <4> QED BY <4>1, <3>4, <2>pads DEF FUNC_GPIOHS0
    <3>6. /\ io' \in [IO -> PadRegisters]
          /\ \A m \in IO : io'[m].ch_sel = io[m].ch_sel
          /\ \A m \in IO \ {n} : io'[m] = io[m]
          /\ n \in IO => io'[n].on = (io[n].on \ Pulls) \cup PullOf(pull)
      <4> HIDE DEF n, pull
      <4>1. CASE n \in IO
        BY <4>1, <3>1, <3>3, <2>io, PullSet
      <4>2. CASE n \notin IO
        BY <4>2, <3>1, <2>io DEF fpioa_set_io_pull
      <4> QED BY <4>1, <4>2
    <3> HIDE DEF n, pull
    <3>7. PinsTypeOK'
      BY <3>1, <3>2, <3>6, FiveWires DEF PinsTypeOK
    <3>8. WiresApart'
      BY <3>1, <3>6 DEF PinsInv, WiresApart
    <3>9. (hs.input_en \cap hs.output_en = {})'
      BY <3>2 DEF PinsInv
    <3>10. SelectPad(io, hs.input_en, hs.output_en)'
      <4>1. SelectPad(io, hs.input_en, hs.output_en)
        BY <3>1 DEF PinsInv
      <4>2. CASE pin = 6
        <5>1. n # 32
          BY <4>2, <3>4, <3>5, <2>pads
        <5>2. io'[32] = io[32]
          BY <5>1, <3>6, <2>pads
        <5>3. /\ 7 \in hs'.input_en <=> 7 \in hs.input_en
              /\ 7 \in hs'.output_en <=> 7 \in hs.output_en
          BY <4>2, <3>2
        <5> QED BY <4>1, <5>2, <5>3 DEF SelectPad
      <4>3. CASE pin = 7
        <5>1. io'[32].on = (io[32].on \ Pulls) \cup PullOf(pull)
          BY <4>3, <3>5, <3>6, <2>pads
        <5>2. PullOf(pull) \subseteq Pulls
          BY <3>3 DEF PullOf, Pulls
        <5>3. /\ 7 \in hs'.input_en \cup hs'.output_en
              /\ 7 \in hs'.output_en => mode = "OUTPUT"
          BY <4>3, <3>2
        <5>4. mode = "OUTPUT" => PullOf(pull) = {"pd"}
          BY <3>3 DEF PullOf
        <5>5. io'[32].on \ Pulls = InOut.on
          BY <4>1, <5>1, <5>2 DEF SelectPad
        <5>6. 7 \in hs'.output_en => io'[32].on \cap Pulls = {"pd"}
          BY <5>1, <5>2, <5>3, <5>4
        <5> QED BY <5>3, <5>5, <5>6 DEF SelectPad
      <4> QED BY <4>2, <4>3
    <3> QED BY <3>1, <3>7, <3>8, <3>9, <3>10 DEF PinsInv
  <2>3. ASSUME NEW pin \in {6, 7}, NEW value \in BOOLEAN,
               gpiohs_set_pin(pin, value)
        PROVE  PinsInv'
    <3>1. /\ hs' \in [input_en : SUBSET GpioPins, output_en : SUBSET GpioPins,
                      output_val : SUBSET GpioPins]
          /\ hs'.input_en = hs.input_en /\ hs'.output_en = hs.output_en
      <4>1. PICK val : val = IF value THEN hs.output_val \cup {pin}
                             ELSE hs.output_val \ {pin}
        OBVIOUS
      <4>2. val \in SUBSET GpioPins
        BY <2>hs, <2>pin, <4>1
      <4>3. hs' = [hs EXCEPT !.output_val = val]
        BY <2>3, <4>1 DEF gpiohs_set_pin
      <4> QED BY <2>hs, <4>2, <4>3
    <3>2. io' = io /\ wired' = wired
      BY <2>3 DEF gpiohs_set_pin
    <3> QED BY <3>1, <3>2 DEF PinsInv, PinsTypeOK, WiresApart, SelectPad
  <2>4. CASE UNCHANGED pinVars
    BY <2>4 DEF pinVars, PinsInv, PinsTypeOK, WiresApart, SelectPad
  <2> QED BY <2>1, <2>2, <2>3, <2>4 DEF PinsNext
<1>3. PinsInv => CardWired
  BY FiveWires DEF PinsInv, CardWired, SelectReachesCard, SelectPad
<1> QED BY <1>1, <1>2, <1>3, PTL DEF PinsSpec

-----------------------------------------------------------------------------
(* The SD card: SdCard, for every number of processes, sectors, contents,  *)
(* attempts and calls, and cards with and without high capacity.           *)

(* The inductive invariant. *)

CardStates == [mem : [Sectors -> Contents], mode : {"off", "idle", "ready"},
               sdhc : BOOLEAN, len : Nat, cmd : Sectors \cup {None}]
CallRecords == [write : BOOLEAN, sector : Sectors, end : 1 .. NSectors]

ShapeInv ==
    /\ card \in CardStates
    /\ dma \in Channels \cup {None}
    /\ call \in [Procs -> CallRecords \cup {None}]

\* No command, no transfer and no page.
Quiet == card.cmd = None /\ ~ssi.on /\ dma = None /\ page = None

\* What sd_init has found out about the card, phase by phase; nobody uses the
\* card before it is done.
BootInv ==
    /\ boot \in {"size", "block", "done"} => card.mode = "ready"
    /\ card.sdhc => card.len = BSIZE
    /\ boot # "done" => ~is_standard_sd
    /\ boot = "block" => ~card.sdhc
    /\ boot = "done" => card.len = BSIZE /\ is_standard_sd = ~card.sdhc
    /\ boot # "done" => lock = None /\ \A p \in Procs : pc[p] = "idle"

\* The lock is held from the command to the status, for a call.
LockInv ==
    /\ \A p \in Procs : pc[p] \notin {"idle", "lock"} <=> lock = p
    /\ \A p \in Procs : pc[p] # "idle" => call[p] \in CallRecords

\* The card works on the sector of p's call.
Commanded(p) == card.cmd = call[p].sector /\ cs = "low"

\* The page is on its way to or from the sector, or the same as the sector.
Transfer(p) ==
    /\ Commanded(p) /\ ssi.on /\ page \in Contents
    /\ call[p].write => page = buf[p]
    /\ IF dma = None THEN page = card.mem[call[p].sector]
       ELSE dma.proc = p /\ dma.flow = IF call[p].write THEN "MEM2PRF" ELSE "PRF2MEM"

\* The bus at each step of the process that holds the lock.
HolderInv(p) ==
    /\ pc[p] \in {"command", "status"} => Quiet
    /\ pc[p] \in {"token", "dma"} =>
           Commanded(p) /\ ~ssi.on /\ dma = None /\ page = None
    /\ pc[p] \in {"wait", "sleep", "asleep", "answer"} => Transfer(p)
    /\ pc[p] = "answer" => dma = None
    /\ pc[p] = "status" => buf[p] = card.mem[call[p].sector]

BusInv ==
    /\ lock = None => Quiet
    /\ \A p \in Procs : lock = p => HolderInv(p)

IndInv == SdTypeOK /\ ShapeInv /\ BootInv /\ LockInv /\ BusInv

-----------------------------------------------------------------------------
(* Addresses: the card takes the address the driver sends for the sector   *)
(* of the call.                                                            *)

LEMMA DivExact ==
    ASSUME NEW m \in Nat, m > 0, NEW s \in Nat
    PROVE  (s * m) \div m = s
<1> DEFINE x == s * m
           q == x \div m
           r == x % m
<1>1. x \in Nat /\ q \in Int /\ r \in 0 .. m - 1 /\ x = m * q + r
  OBVIOUS
<1>2. x = m * s
  OBVIOUS
<1> HIDE DEF x, q, r
<1>3. m * (s - q) = r
  BY <1>1, <1>2
<1>4. CASE s - q >= 1
  <2>1. m * (s - q) >= m
    BY <1>1, <1>4
  <2> QED
    BY <1>1, <1>3, <2>1
<1>5. CASE s - q <= -1
  <2>1. m * (s - q) <= -m
    BY <1>1, <1>5
  <2> QED
    BY <1>1, <1>3, <2>1
<1>6. CASE s = q
  BY <1>6 DEF q, x
<1> QED
  BY <1>1, <1>4, <1>5, <1>6

LEMMA Addressed ==
    ASSUME IndInv, boot = "done", NEW s \in Sectors
    PROVE  Decode(Address(s)) = s
<1>1. s \in Nat /\ BSIZE \in Nat /\ BSIZE > 0
  BY SdAssumption DEF Sectors
<1>2. card.len = BSIZE /\ is_standard_sd = ~card.sdhc /\ card.sdhc \in BOOLEAN
  BY DEF IndInv, BootInv, SdTypeOK
<1>3. (s * BSIZE) \div BSIZE = s
  BY <1>1, DivExact
<1> QED
  BY <1>2, <1>3 DEF Decode, Address

LEMMA NotNone ==
    /\ None \notin Procs /\ None \notin Contents /\ None \notin Channels
    /\ None \notin Sectors
BY SdNoneAssumption, SdAssumption DEF Sectors

\* The process that does something under the lock is the one that holds it.
LEMMA HolderFacts ==
    ASSUME IndInv, NEW p \in Procs, pc[p] \notin {"idle", "lock"}
    PROVE  /\ lock = p /\ HolderInv(p) /\ boot = "done"
           /\ call[p] \in CallRecords
           /\ \A q \in Procs : q # p => pc[q] \in {"idle", "lock"}
<1>1. lock = p
  BY DEF IndInv, LockInv
<1>2. HolderInv(p) /\ call[p] \in CallRecords
  BY <1>1 DEF IndInv, BusInv, LockInv
<1>3. \A q \in Procs : q # p => pc[q] \in {"idle", "lock"}
  BY <1>1 DEF IndInv, LockInv
<1>4. boot = "done"
  BY <1>1, NotNone DEF IndInv, BootInv
<1> QED
  BY <1>1, <1>2, <1>3, <1>4

-----------------------------------------------------------------------------
(* The invariant, action by action.                                        *)

LEMMA InitInv == SdInit => IndInv
<1> SUFFICES ASSUME SdInit PROVE IndInv
  OBVIOUS
<1> USE SdAssumption, NotNone
<1>1. PICK sdhc \in BOOLEAN, len \in {1, BSIZE} :
         card = [mem |-> [s \in Sectors |-> Zero], mode |-> "off", sdhc |-> sdhc,
                 len |-> IF sdhc THEN BSIZE ELSE len, cmd |-> None]
  BY DEF SdInit
<1>2. ShapeInv
  BY <1>1 DEF SdInit, ShapeInv, CardStates
<1>3. SdTypeOK
  <2>1. /\ card.mem \in [Sectors -> Contents] /\ card.mode \in {"off", "idle", "ready"}
        /\ card.sdhc \in BOOLEAN /\ card.len \in Nat /\ card.cmd \in Sectors \cup {None}
    BY <1>1
  <2>2. boot \in Phases /\ timeout \in 0 .. Tries /\ ops \in 0 .. MaxOps
    BY DEF SdInit, Phases
  <2>3. pc \in [Procs -> Steps] /\ buf \in [Procs -> Contents]
    BY DEF SdInit, Steps
  <2>4. ssi \in [on : BOOLEAN, tmod : {"TRANS_RECV", "TRANS", "RECV"},
                dmacr : SUBSET {"tx", "rx"}, ser : BOOLEAN]
    BY DEF SdInit
  <2> QED
    BY <2>1, <2>2, <2>3, <2>4 DEF SdInit, SdTypeOK
<1>4. BootInv /\ LockInv
  BY <1>1 DEF SdInit, BootInv, LockInv
<1>5. BusInv
  BY <1>1 DEF SdInit, BusInv, Quiet
<1> QED
  BY <1>2, <1>3, <1>4, <1>5 DEF IndInv

\* An attempt of sd_init that changes the card in what BootInv allows.
LEMMA BootStep ==
    ASSUME IndInv, boot # "done",
           UNCHANGED disk, cs' \in {"high", "low"}, timeout' \in 0 .. Tries,
           panicked' \in BOOLEAN, is_standard_sd' \in BOOLEAN, boot' \in Phases,
           card' \in CardStates, card'.mem = card.mem, card'.cmd = card.cmd,
           card'.sdhc = card.sdhc, card'.sdhc => card'.len = BSIZE,
           boot' \in {"size", "block", "done"} => card'.mode = "ready",
           boot' # "done" => ~is_standard_sd',
           boot' = "block" => ~card'.sdhc,
           boot' = "done" => card'.len = BSIZE /\ is_standard_sd' = ~card'.sdhc
    PROVE  IndInv'
<1> USE DEF disk
<1>1. SdTypeOK'
  BY DEF IndInv, SdTypeOK, CardStates
<1>2. ShapeInv'
  BY DEF IndInv, ShapeInv
<1>3. BootInv'
  BY DEF IndInv, BootInv
<1>4. LockInv'
  BY DEF IndInv, LockInv
<1>5. BusInv'
  <2>1. lock = None /\ lock' = None /\ Quiet
    BY DEF IndInv, BootInv, BusInv
  <2> QED
    BY <2>1, NotNone DEF BusInv, Quiet
<1> QED
  BY <1>1, <1>2, <1>3, <1>4, <1>5 DEF IndInv

LEMMA AttemptFacts ==
    ASSUME IndInv, NEW phase \in Phases, NEW next \in Phases, Attempt(phase, next)
    PROVE  /\ boot = phase /\ UNCHANGED <<disk, panicked>> /\ cs' = "high"
           /\ timeout' \in 0 .. Tries
           /\ \/ boot' = next
              \/ boot' = phase /\ UNCHANGED <<card, is_standard_sd>>
<1>1. timeout \in 0 .. Tries /\ timeout > 0 /\ Tries \in Nat
  BY SdAssumption DEF IndInv, SdTypeOK, Attempt, More
<1> QED
  BY <1>1 DEF Attempt

LEMMA StartUpStep ==
    ASSUME IndInv, StartUp
    PROVE  IndInv'
<1> USE DEF Phases
<1>0. /\ card \in CardStates /\ panicked \in BOOLEAN /\ is_standard_sd \in BOOLEAN
      /\ boot \in Phases /\ BSIZE \in Nat /\ card.sdhc \in BOOLEAN
  BY SdAssumption DEF IndInv, SdTypeOK, ShapeInv
<1>1. \A m \in {"off", "idle", "ready"} :
          /\ [card EXCEPT !.mode = m] \in CardStates
          /\ [card EXCEPT !.mode = m].mode = m
          /\ [card EXCEPT !.mode = m].mem = card.mem
          /\ [card EXCEPT !.mode = m].cmd = card.cmd
          /\ [card EXCEPT !.mode = m].sdhc = card.sdhc
          /\ [card EXCEPT !.mode = m].len = card.len
  BY <1>0 DEF CardStates
<1>2. /\ [card EXCEPT !.len = BSIZE] \in CardStates
      /\ [card EXCEPT !.len = BSIZE].len = BSIZE
      /\ [card EXCEPT !.len = BSIZE].mem = card.mem
      /\ [card EXCEPT !.len = BSIZE].cmd = card.cmd
      /\ [card EXCEPT !.len = BSIZE].sdhc = card.sdhc
      /\ [card EXCEPT !.len = BSIZE].mode = card.mode
  BY <1>0 DEF CardStates
<1>3. BootInv
  BY DEF IndInv
<1>4. CASE switch_to_SPI_mode
  <2>1. Attempt("spi", "condition") /\ "spi" \in Phases /\ "condition" \in Phases
    BY <1>4 DEF switch_to_SPI_mode
  <2>2. \/ boot' = "condition" /\ card' = [card EXCEPT !.mode = "idle"]
           /\ UNCHANGED is_standard_sd
        \/ boot' = "spi" /\ UNCHANGED <<card, is_standard_sd>>
    BY <2>1, <1>4, AttemptFacts DEF switch_to_SPI_mode
  <2>3. boot = "spi" /\ UNCHANGED <<disk, panicked>> /\ cs' = "high"
        /\ timeout' \in 0 .. Tries
    BY <2>1, AttemptFacts
  <2>4. CASE boot' = "spi" /\ UNCHANGED <<card, is_standard_sd>>
    BY <2>3, <2>4, <1>0, <1>3, BootStep DEF BootInv
  <2>5. CASE boot' = "condition" /\ card' = [card EXCEPT !.mode = "idle"] /\ UNCHANGED is_standard_sd
    <3>1. card' \in CardStates /\ card'.mem = card.mem /\ card'.cmd = card.cmd
          /\ card'.sdhc = card.sdhc /\ card'.len = card.len
      BY <2>5, <1>0, <1>1
    <3> QED
      BY <2>3, <2>5, <3>1, <1>0, <1>3, BootStep DEF BootInv
  <2> QED
    BY <2>2, <2>4, <2>5
<1>5. CASE verify_operation_condition
  <2>1. Tries \in 0 .. Tries
    BY SdAssumption
  <2> QED
    BY <2>1, <1>0, <1>3, <1>5, BootStep DEF verify_operation_condition, BootInv
<1>6. CASE read_OCR
  <2>1. Attempt("ocr", "capacity") /\ "ocr" \in Phases /\ "capacity" \in Phases
    BY <1>6 DEF read_OCR
  <2>2. boot' \in {"ocr", "capacity"} /\ UNCHANGED <<card, is_standard_sd>>
    BY <2>1, <1>6, AttemptFacts DEF read_OCR
  <2> QED
    BY <2>1, <2>2, <1>0, <1>3, AttemptFacts, BootStep DEF BootInv
<1>7. CASE set_SDXC_capacity
  <2>1. Attempt("capacity", "size") /\ "capacity" \in Phases /\ "size" \in Phases
    BY <1>7 DEF set_SDXC_capacity
  <2>2. \/ boot' = "size" /\ card' = [card EXCEPT !.mode = "ready"]
           /\ UNCHANGED is_standard_sd
        \/ boot' = "capacity" /\ UNCHANGED <<card, is_standard_sd>>
    BY <2>1, <1>7, AttemptFacts DEF set_SDXC_capacity
  <2>3. boot = "capacity" /\ UNCHANGED <<disk, panicked>> /\ cs' = "high"
        /\ timeout' \in 0 .. Tries
    BY <2>1, AttemptFacts
  <2>4. CASE boot' = "capacity" /\ UNCHANGED <<card, is_standard_sd>>
    BY <2>3, <2>4, <1>0, <1>3, BootStep DEF BootInv
  <2>5. CASE boot' = "size" /\ card' = [card EXCEPT !.mode = "ready"] /\ UNCHANGED is_standard_sd
    <3>1. card' \in CardStates /\ card'.mem = card.mem /\ card'.cmd = card.cmd
          /\ card'.sdhc = card.sdhc /\ card'.len = card.len /\ card'.mode = "ready"
      BY <2>5, <1>0, <1>1
    <3> QED
      BY <2>3, <2>5, <3>1, <1>0, <1>3, BootStep DEF BootInv
  <2> QED
    BY <2>2, <2>4, <2>5
<1>8. CASE check_block_size
  <2> DEFINE next == IF card.sdhc THEN "done" ELSE "block"
  <2>1. Attempt("size", next) /\ "size" \in Phases /\ next \in Phases
    BY <1>8 DEF check_block_size
  <2>2. \/ boot' = next /\ card' = card /\ is_standard_sd' = FALSE
        \/ boot' = "size" /\ UNCHANGED <<card, is_standard_sd>>
    BY <2>1, <1>8, AttemptFacts DEF check_block_size
  <2>3. boot = "size" /\ UNCHANGED <<disk, panicked>> /\ cs' = "high"
        /\ timeout' \in 0 .. Tries
    BY <2>1, AttemptFacts
  <2>4. CASE boot' = "size" /\ UNCHANGED <<card, is_standard_sd>>
    BY <2>3, <2>4, <1>0, <1>3, BootStep DEF BootInv
  <2>5. CASE boot' = next /\ card' = card /\ is_standard_sd' = FALSE
    BY <2>3, <2>5, <1>0, <1>3, BootStep DEF BootInv
  <2> QED
    BY <2>2, <2>4, <2>5
<1>9. CASE set_block_size
  <2>1. Attempt("block", "done") /\ "block" \in Phases /\ "done" \in Phases
    BY <1>9 DEF set_block_size
  <2>2. \/ boot' = "done" /\ card' = [card EXCEPT !.len = BSIZE] /\ is_standard_sd' = TRUE
        \/ boot' = "block" /\ UNCHANGED <<card, is_standard_sd>>
    BY <2>1, <1>9, AttemptFacts DEF set_block_size
  <2>3. boot = "block" /\ UNCHANGED <<disk, panicked>> /\ cs' = "high"
        /\ timeout' \in 0 .. Tries
    BY <2>1, AttemptFacts
  <2>4. CASE boot' = "block" /\ UNCHANGED <<card, is_standard_sd>>
    BY <2>3, <2>4, <1>0, <1>3, BootStep DEF BootInv
  <2>5. CASE boot' = "done" /\ card' = [card EXCEPT !.len = BSIZE] /\ is_standard_sd' = TRUE
    <3>1. card' \in CardStates /\ card'.mem = card.mem /\ card'.cmd = card.cmd
          /\ card'.sdhc = card.sdhc /\ card'.len = BSIZE /\ card'.mode = card.mode
      BY <2>5, <1>0, <1>2
    <3> QED
      BY <2>3, <2>5, <3>1, <1>0, <1>3, BootStep DEF BootInv
  <2> QED
    BY <2>2, <2>4, <2>5
<1> QED
  BY <1>4, <1>5, <1>6, <1>7, <1>8, <1>9 DEF StartUp

\* A panic stops the driver and leaves everything as it is.
LEMMA PanicStep ==
    ASSUME IndInv, UNCHANGED <<card, cs, started, disk>>, panicked' \in BOOLEAN
    PROVE  IndInv'
<1> USE DEF started, disk
<1>1. SdTypeOK'
  BY DEF IndInv, SdTypeOK
<1>2. ShapeInv' /\ BootInv' /\ LockInv'
  BY DEF IndInv, ShapeInv, BootInv, LockInv
<1>3. BusInv'
  BY DEF IndInv, BusInv, Quiet, HolderInv, Transfer, Commanded
<1> QED
  BY <1>1, <1>2, <1>3 DEF IndInv

\* The process that holds the lock goes on: what it must show.
LEMMA HolderStep ==
    ASSUME IndInv, SdTypeOK', ShapeInv', UNCHANGED <<started, lock, call>>,
           NEW p \in Procs, pc[p] \notin {"idle", "lock"},
           card'.mode = card.mode, card'.sdhc = card.sdhc, card'.len = card.len,
           pc' = [pc EXCEPT ![p] = pc'[p]], pc'[p] \notin {"idle", "lock"}, HolderInv(p)'
    PROVE  IndInv'
<1> USE DEF started
<1>1. /\ lock = p /\ boot = "done" /\ pc \in [Procs -> Steps]
      /\ \A q \in Procs : q # p => pc[q] \in {"idle", "lock"}
  BY HolderFacts DEF IndInv, SdTypeOK
<1>2. \A q \in Procs : q # p => pc'[q] = pc[q]
  BY <1>1
<1>3. BootInv'
  BY <1>1 DEF IndInv, BootInv
<1>4. LockInv'
  BY <1>1, <1>2 DEF IndInv, LockInv
<1>5. BusInv'
  BY <1>1, NotNone DEF BusInv
<1> QED
  BY <1>3, <1>4, <1>5 DEF IndInv

LEMMA CallStep ==
    ASSUME IndInv, NEW p \in Procs, NEW write \in BOOLEAN, NEW sector \in Sectors,
           NEW end \in 1 .. NSectors, NEW d \in Contents, Call(p, write, sector, end, d)
    PROVE  IndInv'
<1> USE DEF started, Up
<1> DEFINE c == [write |-> write, sector |-> sector, end |-> end]
<1>1. c \in CallRecords
  BY DEF CallRecords
<1>2. /\ boot = "done" /\ pc[p] = "idle" /\ ops' = ops + 1 /\ ops < MaxOps
      /\ call' = [call EXCEPT ![p] = c]
      /\ buf' = [buf EXCEPT ![p] = IF write THEN d ELSE Zero]
      /\ pc' = [pc EXCEPT ![p] = "lock"]
      /\ UNCHANGED <<card, cs, lock, page, ssi, dma, intr, started, panicked>>
  BY DEF Call
<1> HIDE DEF c
<1>3. ShapeInv'
  BY <1>1, <1>2 DEF IndInv, ShapeInv
<1>4. SdTypeOK'
  <2>1. ops' \in 0 .. MaxOps
    BY <1>2, SdAssumption DEF IndInv, SdTypeOK
  <2>2. buf' \in [Procs -> Contents] /\ pc' \in [Procs -> Steps]
    BY <1>2, SdAssumption DEF IndInv, SdTypeOK, Steps
  <2>3. \A q \in Procs : call'[q] = None \/ (call'[q].write \in BOOLEAN
            /\ call'[q].sector \in Sectors /\ call'[q].end \in 1 .. NSectors)
    BY <1>3 DEF ShapeInv, CallRecords
  <2> QED
    BY <2>1, <2>2, <2>3, <1>2 DEF IndInv, SdTypeOK
<1>5. \A q \in Procs : /\ q # p => pc'[q] = pc[q] /\ call'[q] = call[q] /\ buf'[q] = buf[q]
                       /\ q = p => pc'[q] = "lock" /\ call'[q] = c
  BY <1>2 DEF IndInv, SdTypeOK, ShapeInv
<1>6. BootInv'
  BY <1>2 DEF IndInv, BootInv
<1>7. LockInv'
  BY <1>1, <1>2, <1>5 DEF IndInv, LockInv
<1>8. BusInv'
  <2>1. \A q \in Procs : lock = q => q # p
    BY <1>2 DEF IndInv, LockInv
  <2> QED
    BY <2>1, <1>2, <1>5 DEF IndInv, BusInv, Quiet, HolderInv, Transfer, Commanded
<1> QED
  BY <1>3, <1>4, <1>6, <1>7, <1>8 DEF IndInv

LEMMA LockStep ==
    ASSUME IndInv, NEW p \in Procs, Lock(p)
    PROVE  IndInv'
<1> USE DEF started, Up
<1>1. /\ boot = "done" /\ pc[p] = "lock" /\ lock = None /\ lock' = p
      /\ pc' = [pc EXCEPT ![p] = "command"]
      /\ UNCHANGED <<card, cs, call, buf, page, ssi, dma, intr, ops, started, panicked>>
  BY DEF Lock
<1>2. ShapeInv' /\ BootInv'
  BY <1>1 DEF IndInv, ShapeInv, BootInv
<1>3. SdTypeOK'
  <2>1. pc' \in [Procs -> Steps]
    BY <1>1 DEF IndInv, SdTypeOK, Steps
  <2> QED
    BY <2>1, <1>1 DEF IndInv, SdTypeOK
<1>4. \A q \in Procs : pc'[q] = IF q = p THEN "command" ELSE pc[q]
  BY <1>1 DEF IndInv, SdTypeOK
<1>5. LockInv'
  BY <1>1, <1>4, NotNone DEF IndInv, LockInv
<1>6. Quiet'
  BY <1>1 DEF IndInv, BusInv, Quiet
<1>7. BusInv'
  BY <1>1, <1>4, <1>6 DEF BusInv, HolderInv
<1> QED
  BY <1>2, <1>3, <1>5, <1>7 DEF IndInv

LEMMA SendCmdStep ==
    ASSUME IndInv, NEW p \in Procs, sd_send_cmd(p)
    PROVE  IndInv'
<1> USE DEF started
<1>1. CASE Panic
  BY <1>1, PanicStep DEF Panic
<1>2. CASE ~Panic
  <2>1. /\ pc[p] = "command" /\ boot = "done" /\ cs' = "low"
        /\ card' = [card EXCEPT !.cmd = Decode(Address(call[p].sector))]
        /\ pc' = [pc EXCEPT ![p] = "token"]
        /\ UNCHANGED <<started, panicked, lock, call, buf, page, ssi, dma, intr, ops>>
    BY <1>2 DEF sd_send_cmd
  <2>2. lock = p /\ HolderInv(p) /\ call[p] \in CallRecords
    BY <2>1, HolderFacts
  <2>3. call[p].sector \in Sectors
    BY <2>2 DEF CallRecords
  <2>4. card' = [card EXCEPT !.cmd = call[p].sector]
    BY <2>1, <2>3, Addressed
  <2>5. /\ card' \in CardStates /\ card'.cmd = call[p].sector
        /\ card'.mode = card.mode /\ card'.sdhc = card.sdhc /\ card'.len = card.len
    BY <2>3, <2>4 DEF IndInv, ShapeInv, CardStates
  <2>6. pc'[p] = "token" /\ pc' \in [Procs -> Steps]
    BY <2>1 DEF IndInv, SdTypeOK, Steps
  <2>7. ShapeInv'
    BY <2>1, <2>5 DEF IndInv, ShapeInv
  <2>8. SdTypeOK'
    BY <2>1, <2>5, <2>6 DEF IndInv, SdTypeOK, CardStates
  <2>9. HolderInv(p)'
    BY <2>1, <2>2, <2>5, <2>6 DEF HolderInv, Quiet, Commanded
  <2> QED
    BY <2>1, <2>5, <2>6, <2>7, <2>8, <2>9, HolderStep
<1> QED
  BY <1>1, <1>2

LEMMA TokenStep ==
    ASSUME IndInv, NEW p \in Procs, Token(p)
    PROVE  IndInv'
<1> USE DEF started
<1>1. CASE Panic
  BY <1>1, PanicStep DEF Panic
<1>2. CASE ~Panic
  <2>1. /\ pc[p] = "token" /\ pc' = [pc EXCEPT ![p] = "dma"]
        /\ UNCHANGED <<card, cs, started, panicked, lock, call, buf, page, ssi, dma,
                       intr, ops>>
    BY <1>2 DEF Token
  <2>2. HolderInv(p)
    BY <2>1, HolderFacts
  <2>3. pc'[p] = "dma" /\ pc' \in [Procs -> Steps]
    BY <2>1 DEF IndInv, SdTypeOK, Steps
  <2>4. ShapeInv' /\ SdTypeOK'
    BY <2>1, <2>3 DEF IndInv, ShapeInv, SdTypeOK
  <2>5. HolderInv(p)'
    BY <2>1, <2>2, <2>3 DEF HolderInv, Commanded
  <2> QED
    BY <2>1, <2>3, <2>4, <2>5, HolderStep
<1> QED
  BY <1>1, <1>2

\* The channel as the two transfers set it.
LEMMA ChannelFacts ==
    ASSUME NEW p \in Procs, NEW src \in {"page", "dr"}, NEW dest \in {"page", "dr"},
           src # dest
    PROVE  LET c == dmac_channel_enable(dmac_set_channel_param(p, src, dest))
           IN  /\ c \in Channels /\ c.proc = p
               /\ c.flow = IF src = "page" THEN "MEM2PRF" ELSE "PRF2MEM"
<1> DEFINE flow == IF src = "page" THEN "MEM2PRF" ELSE "PRF2MEM"
           d == [proc |-> p, src |-> src, dest |-> dest, on |-> FALSE, flow |-> flow]
<1>1. dmac_set_channel_param(p, src, dest) = d
  <2>1. CASE src = "page"
    BY <2>1 DEF dmac_set_channel_param, is_memory
  <2>2. CASE src = "dr"
    BY <2>2 DEF dmac_set_channel_param, is_memory
  <2> QED
    BY <2>1, <2>2
<1>2. d \in Channels /\ d.proc = p /\ d.flow = flow
  BY DEF Channels
<1> HIDE DEF d
<1>3. [d EXCEPT !.on = TRUE] \in Channels /\ [d EXCEPT !.on = TRUE].proc = d.proc
      /\ [d EXCEPT !.on = TRUE].flow = d.flow
  BY <1>2 DEF Channels
<1> QED
  BY <1>1, <1>2, <1>3 DEF dmac_channel_enable

LEMMA TransferStep ==
    ASSUME IndInv, NEW p \in Procs,
           spi_send_data_standard_dma(p) \/ spi_receive_data_standard_dma(p)
    PROVE  IndInv'
<1> USE DEF started, Up
<1> DEFINE w == call[p].write
<1>1. /\ pc[p] = "dma" /\ pc' = [pc EXCEPT ![p] = "wait"] /\ intr' = FALSE
      /\ UNCHANGED <<card, cs, lock, call, buf, ops, started, panicked>>
  BY DEF spi_send_data_standard_dma, spi_receive_data_standard_dma, dmac_set_single_mode
<1>2. HolderInv(p) /\ call[p] \in CallRecords
  BY <1>1, HolderFacts
<1>3. /\ w \in BOOLEAN /\ buf[p] \in Contents
      /\ pc'[p] = "wait" /\ pc' \in [Procs -> Steps]
  BY <1>1, <1>2 DEF CallRecords, IndInv, SdTypeOK, Steps
<1>4. /\ dma' \in Channels /\ dma'.proc = p
      /\ dma'.flow = IF w THEN "MEM2PRF" ELSE "PRF2MEM"
  <2>1. CASE spi_send_data_standard_dma(p)
    <3>1. w /\ dma' = dmac_channel_enable(dmac_set_channel_param(p, "page", "dr"))
      BY <2>1 DEF spi_send_data_standard_dma, dmac_set_single_mode
    <3> QED
      BY <3>1, ChannelFacts
  <2>2. CASE spi_receive_data_standard_dma(p)
    <3>1. ~w /\ dma' = dmac_channel_enable(dmac_set_channel_param(p, "dr", "page"))
      BY <2>2 DEF spi_receive_data_standard_dma, dmac_set_single_mode
    <3> QED
      BY <3>1, ChannelFacts
  <2> QED
    BY <2>1, <2>2
<1>5. page' \in Contents /\ (w => page' = buf[p])
  BY <1>3 DEF spi_send_data_standard_dma, spi_receive_data_standard_dma
<1>6. /\ ssi' \in [on : BOOLEAN, tmod : {"TRANS_RECV", "TRANS", "RECV"},
                   dmacr : SUBSET {"tx", "rx"}, ser : BOOLEAN]
      /\ ssi'.on
  <2>1. CASE spi_send_data_standard_dma(p)
    <3>1. ssi' = [on |-> TRUE, tmod |-> "TRANS", dmacr |-> {"tx"}, ser |-> TRUE]
      BY <2>1 DEF spi_send_data_standard_dma, spi_set_tmod, spi_init
    <3> QED
      BY <3>1
  <2>2. CASE spi_receive_data_standard_dma(p)
    <3>1. ssi' = [on |-> TRUE, tmod |-> "RECV", dmacr |-> {"tx", "rx"}, ser |-> TRUE]
      BY <2>2 DEF spi_receive_data_standard_dma, spi_set_tmod, spi_init
    <3> QED
      BY <3>1
  <2> QED
    BY <2>1, <2>2
<1>7. ShapeInv'
  BY <1>1, <1>4 DEF IndInv, ShapeInv
<1>8. SdTypeOK'
  <2>1. dma' = None \/ (dma'.flow \in {"MEM2PRF", "PRF2MEM"} /\ dma'.proc \in Procs)
    BY <1>4
  <2> QED
    BY <2>1, <1>1, <1>3, <1>5, <1>6 DEF IndInv, SdTypeOK
<1>9. HolderInv(p)'
  <2>1. Commanded(p)
    BY <1>1, <1>2 DEF HolderInv
  <2>2. dma' # None
    BY <1>4, NotNone
  <2>3. Transfer(p)'
    BY <2>1, <2>2, <1>1, <1>4, <1>5, <1>6 DEF Transfer, Commanded
  <2> QED
    BY <2>3, <1>3 DEF HolderInv
<1> QED
  BY <1>1, <1>3, <1>7, <1>8, <1>9, HolderStep

\* The wait: the test of the channel, and the sleep.
LEMMA WaitStep ==
    ASSUME IndInv, NEW p \in Procs, dmac_wait_idle(p) \/ Sleep(p)
    PROVE  IndInv'
<1> USE DEF started, Up
<1>1. /\ pc[p] \in {"wait", "sleep"}
      /\ pc' = [pc EXCEPT ![p] = pc'[p]]
      /\ pc'[p] \in {"sleep", "asleep"} \/ (pc'[p] = "answer" /\ dma = None)
      /\ UNCHANGED <<card, cs, lock, call, buf, page, ssi, dma, intr, ops, started, panicked>>
  BY DEF dmac_wait_idle, Sleep, IndInv, SdTypeOK
<1>2. HolderInv(p)
  BY <1>1, HolderFacts
<1>3. pc' \in [Procs -> Steps]
  BY <1>1 DEF IndInv, SdTypeOK, Steps
<1>4. ShapeInv' /\ SdTypeOK'
  BY <1>1, <1>3 DEF IndInv, ShapeInv, SdTypeOK
<1>5. HolderInv(p)'
  <2>1. Transfer(p)
    BY <1>1, <1>2 DEF HolderInv
  <2>2. Transfer(p)'
    BY <2>1, <1>1 DEF Transfer, Commanded
  <2> QED
    BY <2>2, <1>1 DEF HolderInv
<1> QED
  BY <1>1, <1>4, <1>5, HolderStep

\* The channel moves the sector for the process that holds the lock and waits.
LEMMA DmaFinishStep ==
    ASSUME IndInv, DmaFinish
    PROVE  IndInv'
<1> USE DEF started
<1>1. /\ dma # None /\ dma' = None /\ intr' = TRUE
      /\ UNCHANGED <<cs, started, panicked, lock, pc, call, buf, ssi, ops>>
  BY DEF DmaFinish
<1>2. PICK p \in Procs : lock = p
  BY <1>1 DEF IndInv, BusInv, Quiet, SdTypeOK
<1>3. /\ pc[p] \notin {"idle", "lock"} /\ HolderInv(p) /\ boot = "done"
      /\ call[p] \in CallRecords /\ pc[p] \in Steps
  BY <1>2, HolderFacts DEF IndInv, LockInv, SdTypeOK
<1>4. pc[p] \in {"wait", "sleep", "asleep"} /\ Transfer(p)
  BY <1>1, <1>3 DEF HolderInv, Quiet, Steps
<1> DEFINE s == call[p].sector
<1>5. s \in Sectors /\ card.cmd = s /\ call[p].write \in BOOLEAN /\ page \in Contents
  BY <1>3, <1>4 DEF CallRecords, Transfer, Commanded
<1>6. dma.flow = IF call[p].write THEN "MEM2PRF" ELSE "PRF2MEM"
  BY <1>1, <1>4 DEF Transfer
<1>7. \/ call[p].write /\ card' = [card EXCEPT !.mem[s] = page] /\ page' = page
      \/ ~call[p].write /\ page' = card.mem[s] /\ card' = card
  BY <1>5, <1>6 DEF DmaFinish
<1>8. /\ card' \in CardStates /\ card'.mem[s] = page' /\ page' \in Contents
      /\ card'.mode = card.mode /\ card'.sdhc = card.sdhc /\ card'.len = card.len
      /\ card'.cmd = card.cmd
      /\ call[p].write => page' = page
  <2>1. CASE call[p].write /\ card' = [card EXCEPT !.mem[s] = page] /\ page' = page
    BY <2>1, <1>5 DEF IndInv, ShapeInv, CardStates
  <2>2. CASE ~call[p].write /\ page' = card.mem[s] /\ card' = card
    BY <2>2, <1>5 DEF IndInv, ShapeInv, CardStates
  <2> QED
    BY <2>1, <2>2, <1>7
<1>9. ShapeInv'
  BY <1>1, <1>8 DEF IndInv, ShapeInv
<1>10. SdTypeOK'
  BY <1>1, <1>8 DEF IndInv, SdTypeOK, CardStates
<1>11. Transfer(p)'
  BY <1>1, <1>4, <1>8 DEF Transfer, Commanded
<1>12. HolderInv(p)'
  BY <1>1, <1>4, <1>11 DEF HolderInv
<1>13. pc' = [pc EXCEPT ![p] = pc'[p]] /\ pc'[p] \notin {"idle", "lock"}
  BY <1>1, <1>3 DEF IndInv, SdTypeOK
<1> QED
  BY <1>1, <1>3, <1>8, <1>9, <1>10, <1>12, <1>13, HolderStep

LEMMA DmaIntrStep ==
    ASSUME IndInv, dmac_intr
    PROVE  IndInv'
<1> USE DEF started
<1>1. /\ intr' = FALSE
      /\ pc' = [p \in Procs |-> IF pc[p] = "asleep" THEN "wait" ELSE pc[p]]
      /\ UNCHANGED <<card, cs, started, panicked, lock, call, buf, page, ssi, dma, ops>>
  BY DEF dmac_intr
<1>2. pc' \in [Procs -> Steps]
  BY <1>1 DEF IndInv, SdTypeOK, Steps
<1>3. ShapeInv' /\ SdTypeOK'
  <2>1. ShapeInv'
    BY <1>1 DEF IndInv, ShapeInv
  <2>2. intr' \in BOOLEAN
    BY <1>1
  <2> QED
    BY <2>1, <2>2, <1>1, <1>2 DEF IndInv, SdTypeOK
<1>4. BootInv' /\ LockInv'
  BY <1>1 DEF IndInv, BootInv, LockInv
<1>5. BusInv'
  <2>1. lock' = None => Quiet'
    BY <1>1 DEF IndInv, BusInv, Quiet
  <2>2. ASSUME NEW p \in Procs, lock = p PROVE HolderInv(p)'
    <3>1. HolderInv(p)
      BY <2>2 DEF IndInv, BusInv
    <3>2. pc'[p] = IF pc[p] = "asleep" THEN "wait" ELSE pc[p]
      BY <1>1
    <3> QED
      BY <1>1, <3>1, <3>2 DEF HolderInv, Quiet, Transfer, Commanded
  <2> QED
    BY <2>1, <2>2, <1>1 DEF BusInv
<1> QED
  BY <1>3, <1>4, <1>5 DEF IndInv

LEMMA AnswerStep ==
    ASSUME IndInv, NEW p \in Procs, Answer(p)
    PROVE  IndInv'
<1> USE DEF started
<1>1. CASE Panic
  BY <1>1, PanicStep DEF Panic
<1>2. CASE ~Panic
  <2>1. /\ pc[p] = "answer" /\ ssi' = [ssi EXCEPT !.on = FALSE, !.ser = FALSE]
        /\ buf' = IF call[p].write THEN buf ELSE [buf EXCEPT ![p] = page]
        /\ page' = None /\ card' = [card EXCEPT !.cmd = None] /\ cs' = "high"
        /\ pc' = [pc EXCEPT ![p] = "status"]
        /\ UNCHANGED <<started, panicked, lock, call, dma, intr, ops>>
    BY <1>2 DEF Answer
  <2>2. HolderInv(p) /\ call[p] \in CallRecords
    BY <2>1, HolderFacts
  <2>3. /\ Transfer(p) /\ dma = None /\ page \in Contents
        /\ page = card.mem[call[p].sector] /\ (call[p].write => page = buf[p])
    BY <2>1, <2>2 DEF HolderInv, Transfer
  <2>4. /\ card' \in CardStates /\ card'.cmd = None /\ card'.mem = card.mem
        /\ card'.mode = card.mode /\ card'.sdhc = card.sdhc /\ card'.len = card.len
    BY <2>1 DEF IndInv, ShapeInv, CardStates
  <2>5. pc'[p] = "status" /\ pc' \in [Procs -> Steps]
    BY <2>1 DEF IndInv, SdTypeOK, Steps
  <2>6. buf' \in [Procs -> Contents] /\ buf'[p] = page
    BY <2>1, <2>3 DEF IndInv, SdTypeOK
  <2>7. /\ ssi' \in [on : BOOLEAN, tmod : {"TRANS_RECV", "TRANS", "RECV"},
                     dmacr : SUBSET {"tx", "rx"}, ser : BOOLEAN]
        /\ ~ssi'.on
    BY <2>1 DEF IndInv, SdTypeOK
  <2>8. ShapeInv'
    BY <2>1, <2>4 DEF IndInv, ShapeInv
  <2>9. SdTypeOK'
    BY <2>1, <2>4, <2>5, <2>6, <2>7 DEF IndInv, SdTypeOK, CardStates
  <2>10. HolderInv(p)'
    BY <2>1, <2>3, <2>4, <2>5, <2>6, <2>7 DEF HolderInv, Quiet
  <2> QED
    BY <2>1, <2>4, <2>5, <2>8, <2>9, <2>10, HolderStep
<1> QED
  BY <1>1, <1>2

LEMMA StatusStep ==
    ASSUME IndInv, NEW p \in Procs, Status(p)
    PROVE  IndInv'
<1> USE DEF started
<1>1. CASE Panic
  BY <1>1, PanicStep DEF Panic
<1>2. CASE ~Panic
  <2> DEFINE more == call[p].sector + 1 < call[p].end
             next == IF more THEN [call[p] EXCEPT !.sector = call[p].sector + 1] ELSE None
  <2>1. /\ pc[p] = "status" /\ boot = "done" /\ lock' = None
        /\ call' = [call EXCEPT ![p] = next]
        /\ buf' = [buf EXCEPT ![p] = IF more /\ call[p].write THEN buf[p] ELSE Zero]
        /\ pc' = [pc EXCEPT ![p] = IF more THEN "lock" ELSE "idle"]
        /\ UNCHANGED <<card, cs, started, panicked, page, ssi, dma, intr, ops>>
    <3>1. /\ pc[p] = "status" /\ boot = "done" /\ lock' = None
          /\ pc' = [pc EXCEPT ![p] = IF more THEN "lock" ELSE "idle"]
          /\ UNCHANGED <<card, cs, started, panicked, page, ssi, dma, intr, ops>>
      BY <1>2 DEF Status
    <3>2. call' = [call EXCEPT ![p] = next]
      BY <1>2 DEF Status
    <3>3. buf' = [buf EXCEPT ![p] = IF more /\ call[p].write THEN buf[p] ELSE Zero]
      BY <1>2 DEF Status
    <3> QED
      BY <3>1, <3>2, <3>3
  <2>2. /\ lock = p /\ HolderInv(p) /\ call[p] \in CallRecords
        /\ \A q \in Procs : q # p => pc[q] \in {"idle", "lock"}
    BY <2>1, HolderFacts
  <2>3. more => next \in CallRecords
    <3>1. ASSUME more PROVE call[p].sector + 1 \in Sectors
      BY <3>1, <2>2, SdAssumption DEF CallRecords, Sectors
    <3> QED
      BY <3>1, <2>2 DEF CallRecords
  <2>4. next \in CallRecords \cup {None}
    BY <2>3
  <2> HIDE DEF next, more
  <2>5. /\ pc' \in [Procs -> Steps]
        /\ \A q \in Procs : pc'[q] = IF q = p THEN IF more THEN "lock" ELSE "idle" ELSE pc[q]
        /\ buf' \in [Procs -> Contents]
    BY <2>1, SdAssumption DEF IndInv, SdTypeOK, Steps
  <2>6. ShapeInv' /\ \A q \in Procs : call'[q] = IF q = p THEN next ELSE call[q]
    BY <2>1, <2>4 DEF IndInv, ShapeInv
  <2>7. SdTypeOK'
    <3>1. \A q \in Procs : call'[q] = None \/ (call'[q].write \in BOOLEAN
              /\ call'[q].sector \in Sectors /\ call'[q].end \in 1 .. NSectors)
      BY <2>6 DEF ShapeInv, CallRecords
    <3> QED
      BY <3>1, <2>1, <2>5 DEF IndInv, SdTypeOK
  <2>8. BootInv'
    BY <2>1 DEF IndInv, BootInv
  <2>9. LockInv'
    BY <2>1, <2>2, <2>3, <2>5, <2>6, NotNone DEF IndInv, LockInv
  <2>10. BusInv'
    <3>1. Quiet
      BY <2>1, <2>2 DEF HolderInv
    <3> QED
      BY <3>1, <2>1, NotNone DEF BusInv, Quiet
  <2> QED
    BY <2>6, <2>7, <2>8, <2>9, <2>10 DEF IndInv
<1> QED
  BY <1>1, <1>2

-----------------------------------------------------------------------------
LEMMA NextInv == IndInv /\ [SdNext]_sdVars => IndInv'
<1> SUFFICES ASSUME IndInv, [SdNext]_sdVars PROVE IndInv'
  OBVIOUS
<1>1. CASE Fail
  BY <1>1, PanicStep DEF Fail, Panic
<1>2. ASSUME NEW p \in Procs, NEW write \in BOOLEAN, NEW s \in Sectors,
             NEW e \in 1 .. NSectors, NEW d \in Contents \ {Zero}, Call(p, write, s, e, d)
      PROVE  IndInv'
  BY <1>2, CallStep
<1>3. ASSUME NEW p \in Procs,
             \/ Lock(p) \/ sd_send_cmd(p) \/ Token(p)
             \/ spi_send_data_standard_dma(p) \/ spi_receive_data_standard_dma(p)
             \/ dmac_wait_idle(p) \/ Sleep(p) \/ Answer(p) \/ Status(p)
      PROVE  IndInv'
  BY <1>3, LockStep, SendCmdStep, TokenStep, TransferStep, WaitStep, AnswerStep, StatusStep
<1>4. CASE UNCHANGED sdVars
  BY <1>4, PanicStep DEF sdVars, started, disk, IndInv, SdTypeOK
<1> QED
  BY <1>1, <1>2, <1>3, <1>4, StartUpStep, DmaFinishStep, DmaIntrStep DEF SdNext

LEMMA Inductive == SdSpec => []IndInv
BY InitInv, NextInv, PTL DEF SdSpec

\* Once sd_init has returned 0 the card is as the driver takes it to be, and
\* the command, the chip select, the SPI controller and the DMA channel belong
\* to the process that holds sleepLock; none is left over when it is free.
THEOREM BusHeldAlways == SdSpec => []BusHeld
<1>1. IndInv => BusHeld
  <2> SUFFICES ASSUME IndInv PROVE BusHeld
    OBVIOUS
  <2>1. ASSUME boot = "done" PROVE CardStarted
    BY <2>1 DEF IndInv, BootInv, CardStarted
  <2>2. \A p \in Procs : pc[p] \notin {"idle", "lock"} => lock = p
    BY DEF IndInv, LockInv
  <2>3. CASE lock = None
    BY <2>1, <2>2, <2>3 DEF IndInv, BusInv, Quiet, BusHeld
  <2>4. CASE lock # None
    <3>1. PICK p \in Procs : lock = p
      BY <2>4 DEF IndInv, SdTypeOK
    <3>2. HolderInv(p) /\ pc[p] \in Steps \ {"idle", "lock"}
      BY <3>1 DEF IndInv, BusInv, LockInv, SdTypeOK
    <3>3. card.cmd # None => cs = "low" /\ card.cmd = call[p].sector
      BY <3>2 DEF HolderInv, Quiet, Transfer, Commanded, Steps
    <3>4. ssi.on => pc[p] \in {"wait", "sleep", "asleep", "answer"}
      BY <3>2 DEF HolderInv, Quiet, Steps
    <3>5. dma # None => dma.proc = p /\ ssi.on /\ page # None
      BY <3>2, NotNone DEF HolderInv, Quiet, Transfer, Steps
    <3> QED
      BY <2>1, <2>2, <3>1, <3>3, <3>4, <3>5, NotNone DEF IndInv, BusHeld
  <2> QED
    BY <2>3, <2>4
<1> QED
  BY <1>1, Inductive, PTL

\* When SdCard::read or write is about to release the lock after a sector, the
\* sector on the card and the caller's buffer are the same, whenever the
\* channel finished and whoever else called in between.
THEOREM SectorsMoved == SdSpec => []SectorMoved
<1>1. IndInv => SectorMoved
  BY HolderFacts DEF SectorMoved, HolderInv
<1> QED
  BY <1>1, Inductive, PTL

-----------------------------------------------------------------------------
(* The real-time clock.                                                     *)

LEMMA FirstOf ==
    ASSUME NEW S \in SUBSET Nat, S # {}
    PROVE  \E n \in S : \A m \in S : n <= m
<1>1. PICK n \in S : \A m \in S : ~ <<m, n>> \in OpToRel(<, Nat)
  BY NatLessThanWellFounded, WFMin
<1>2. \A m \in S : ~(m < n)
  BY <1>1 DEF OpToRel
<1> QED BY <1>2

\* The leap years up to y, and those from 1970 on.
Quarters(y) == (y \div 4) - (y \div 100) + (y \div 400)
Leaps(y) == Quarters(y) - 477

LEMMA QuarterStep ==
    ASSUME NEW y \in Nat, y > 0
    PROVE  Quarters(y) = Quarters(y - 1) + (IF Leap(y) THEN 1 ELSE 0)
<1>1. y \div 4 = ((y - 1) \div 4) + (IF y % 4 = 0 THEN 1 ELSE 0)
  OBVIOUS
<1>2. y \div 100 = ((y - 1) \div 100) + (IF y % 100 = 0 THEN 1 ELSE 0)
  OBVIOUS
<1>3. y \div 400 = ((y - 1) \div 400) + (IF y % 400 = 0 THEN 1 ELSE 0)
  OBVIOUS
<1>4. (y % 100 = 0 => y % 4 = 0) /\ (y % 400 = 0 => y % 100 = 0)
  OBVIOUS
<1> QED BY <1>1, <1>2, <1>3, <1>4 DEF Quarters, Leap

LEMMA LeapSame ==
    ASSUME NEW y \in Nat
    PROVE  rtc_year_is_leap(y) = Leap(y)
<1>1. (y % 100 = 0 => y % 4 = 0) /\ (y % 400 = 0 => y % 100 = 0)
  OBVIOUS
<1> QED BY <1>1 DEF rtc_year_is_leap, Leap

\* The days before each month.
DaysBefore(y) == IF Leap(y)
    THEN <<0, 31, 60, 91, 121, 152, 182, 213, 244, 274, 305, 335>>
    ELSE <<0, 31, 59, 90, 120, 151, 181, 212, 243, 273, 304, 334>>

LEMMA DayOfYearIs ==
    ASSUME NEW y \in Nat, NEW m \in 1 .. 12, NEW d \in Nat
    PROVE  DayOfYear(y, m, d) = DaysBefore(y)[m] + d
<1> DEFINE l[i \in 1 .. 12] == IF i = 1 THEN 0 ELSE l[i - 1] + MonthDays(y)[i - 1]
<1>1. DayOfYear(y, m, d) = l[m] + d
  BY DEF DayOfYear
<1> DEFINE v == [i \in 1 .. 12 |-> DaysBefore(y)[i]]
<1>2. \A i \in 1 .. 12 : DaysBefore(y)[i] =
          IF i = 1 THEN 0 ELSE DaysBefore(y)[i - 1] + MonthDays(y)[i - 1]
  BY DEF DaysBefore, MonthDays
<1>3. v = [i \in 1 .. 12 |-> IF i = 1 THEN 0 ELSE v[i - 1] + MonthDays(y)[i - 1]]
  BY <1>2
<1>4. \E u : u = [i \in 1 .. 12 |-> IF i = 1 THEN 0 ELSE u[i - 1] + MonthDays(y)[i - 1]]
  <2> HIDE DEF v
  <2> QED BY <1>3
<1>5. l = [i \in 1 .. 12 |-> IF i = 1 THEN 0 ELSE l[i - 1] + MonthDays(y)[i - 1]]
  BY <1>4
<1> HIDE DEF l, v
<1>6. l[1] = 0 /\ \A i \in 1 .. 11 : l[i + 1] = l[i] + MonthDays(y)[i]
  BY <1>5
<1>7. \A i \in 1 .. 12 : l[i] = DaysBefore(y)[i]
  BY <1>6 DEF DaysBefore, MonthDays
<1> QED BY <1>1, <1>7

LEMMA YdayIs ==
    ASSUME NEW y \in Nat, NEW m \in 1 .. 12, NEW d \in Nat
    PROVE  rtc_get_yday(y, m, d) = DayOfYear(y, m, d)
<1>1. DayOfYear(y, m, d) = DaysBefore(y)[m] + d
  BY DayOfYearIs
<1>2. rtc_year_is_leap(y) = Leap(y)
  BY LeapSame
<1>3. CASE Leap(y) = TRUE
  BY <1>1, <1>2, <1>3 DEF rtc_get_yday, DaysBefore
<1>4. CASE Leap(y) = FALSE
  BY <1>1, <1>2, <1>4 DEF rtc_get_yday, DaysBefore
<1>5. Leap(y) \in BOOLEAN
  BY DEF Leap
<1> QED BY <1>3, <1>4, <1>5

\* A date of the calendar is one of the year's days.
LEMMA YdayRange ==
    ASSUME NEW y \in Nat, NEW m \in 1 .. 12, NEW d \in Nat, d \in 1 .. MonthDays(y)[m]
    PROVE  rtc_get_yday(y, m, d) \in 1 .. 366
<1>1. rtc_get_yday(y, m, d) = DaysBefore(y)[m] + d
  BY YdayIs, DayOfYearIs
<1>2. PICK k \in 1 .. 12 : k = m
  OBVIOUS
<1>3. PICK b \in Nat, l \in Nat : b = DaysBefore(y)[k] /\ l = MonthDays(y)[k] /\ b + l <= 366
  <2>1. CASE Leap(y)
    BY <2>1 DEF DaysBefore, MonthDays
  <2>2. CASE ~Leap(y)
    BY <2>2 DEF DaysBefore, MonthDays
  <2> QED BY <2>1, <2>2
<1>4. rtc_get_yday(y, m, d) = b + d
  BY <1>1, <1>2, <1>3
<1>5. d \in 1 .. l
  BY <1>2, <1>3
<1>6. b + d \in 1 .. 366
  <2>1. b + l <= 366
    BY <1>3
  <2>2. d >= 1 /\ d <= l
    BY <1>5
  <2>3. b + d >= 1 /\ b + d <= 366
    BY <2>1, <2>2
  <2> QED BY <2>3
<1> QED BY <1>4, <1>6

\* The number of leap years, counted.
LeapYears(n) == {z \in 1970 .. n - 1 : Leap(z)}

LEMMA LeapsCounted ==
    ASSUME NEW n \in Nat, n >= 1970
    PROVE  Cardinality(LeapYears(n)) = Leaps(n - 1)
<1> DEFINE Good(k) == IsFiniteSet(LeapYears(k)) /\ Cardinality(LeapYears(k)) = Leaps(k - 1)
<1>1. Good(1970)
  <2>1. LeapYears(1970) = {}
    BY DEF LeapYears
  <2>2. Leaps(1970 - 1) = 0
    BY DEF Leaps, Quarters
  <2> QED BY <2>1, <2>2, FS_EmptySet
<1>2. ASSUME NEW k \in Nat, k >= 1970, Good(k) PROVE Good(k + 1)
  <2>1. Leaps(k) = Leaps(k - 1) + (IF Leap(k) THEN 1 ELSE 0)
    BY <1>2, QuarterStep DEF Leaps, Quarters
  <2>2. LeapYears(k + 1) = IF Leap(k) THEN LeapYears(k) \cup {k} ELSE LeapYears(k)
    BY <1>2 DEF LeapYears
  <2>3. k \notin LeapYears(k)
    BY DEF LeapYears
  <2>4. Leaps(k - 1) \in Int /\ (k + 1) - 1 = k
    BY <1>2 DEF Leaps, Quarters
  <2>5. CASE Leap(k)
    <3>1. LeapYears(k + 1) = LeapYears(k) \cup {k}
      BY <2>2, <2>5
    <3>2. /\ IsFiniteSet(LeapYears(k) \cup {k})
          /\ Cardinality(LeapYears(k) \cup {k}) = Cardinality(LeapYears(k)) + 1
      BY <1>2, <2>3, FS_AddElement
    <3> QED BY <3>1, <3>2, <2>1, <2>4, <2>5, <1>2
  <2>6. CASE ~Leap(k)
    <3>1. LeapYears(k + 1) = LeapYears(k)
      BY <2>2, <2>6
    <3> QED BY <3>1, <2>1, <2>4, <2>6, <1>2
  <2> QED BY <2>5, <2>6
<1> HIDE DEF Good
<1>3. SUFFICES ASSUME ~Good(n) PROVE FALSE
  BY DEF Good
<1> DEFINE Bad == {k \in Nat : k >= 1970 /\ ~Good(k)}
<1>4. Bad \in SUBSET Nat /\ Bad # {}
  BY <1>3
<1> HIDE DEF Bad
<1>4a. PICK k \in Bad : \A j \in Bad : k <= j
  BY <1>4, FirstOf
<1> USE DEF Bad
<1>5. k \in Nat /\ k >= 1970 /\ ~Good(k) /\ \A j \in Bad : ~(j < k)
  BY <1>4a
<1>6. k # 1970
  BY <1>1, <1>5
<1>7. k - 1 \in Nat /\ k - 1 >= 1970 /\ (k - 1) + 1 = k /\ k - 1 < k
  BY <1>5, <1>6
<1>8. Good(k - 1)
  BY <1>5, <1>7
<1> QED BY <1>2, <1>5, <1>7, <1>8

LEMMA DaysSince1970Is ==
    ASSUME NEW y \in Nat, y >= 1970, NEW m \in 1 .. 12, NEW d \in Nat
    PROVE  DaysSince1970(y, m, d) = (y - 1970) * 365 + Leaps(y - 1) + DaysBefore(y)[m] + d - 1
<1>1. Cardinality({z \in 1970 .. y - 1 : Leap(z)}) = Leaps(y - 1)
  BY LeapsCounted DEF LeapYears
<1>2. DayOfYear(y, m, d) = DaysBefore(y)[m] + d
  BY DayOfYearIs
<1> PICK p \in Int : p = Leaps(y - 1)
  BY DEF Leaps, Quarters
<1> PICK b \in Int : b = DaysBefore(y)[m]
  BY DEF DaysBefore
<1>3. DaysSince1970(y, m, d) = (y - 1970) * 365 + p + (b + d) - 1
  BY <1>1, <1>2 DEF DaysSince1970
<1> QED BY <1>3

\* Four formulas for the same day.
LEMMA MktimeIs ==
    ASSUME NEW y \in Nat, y >= 1970, NEW m \in 1 .. 12, NEW d \in Nat
    PROVE  mktime_Days(y, m, d) = DaysSince1970(y, m, d)
<1>1. DaysSince1970(y, m, d) = (y - 1970) * 365 + Leaps(y - 1) + DaysBefore(y)[m] + d - 1
  BY DaysSince1970Is
<1>2. Quarters(y) = Quarters(y - 1) + (IF Leap(y) THEN 1 ELSE 0)
  BY QuarterStep
<1> PICK q \in Int : q = Quarters(y)
  BY DEF Quarters
<1> PICK p \in Int : p = Quarters(y - 1)
  BY DEF Quarters
<1>3. mktime_Days(y, m, d) =
         (IF m <= 2 THEN p + (y - 1) * 365 ELSE q + y * 365)
           + ((367 * (IF m <= 2 THEN m + 10 ELSE m - 2)) \div 12) + d - 719499
  BY DEF mktime_Days, Quarters
<1>4. (367 * (IF m <= 2 THEN m + 10 ELSE m - 2)) \div 12
         = <<336, 367, 30, 61, 91, 122, 152, 183, 214, 244, 275, 305>>[m]
  OBVIOUS
<1>5. q = p + (IF Leap(y) THEN 1 ELSE 0) /\ Leaps(y - 1) = p - 477
  BY <1>2 DEF Leaps
<1> QED BY <1>1, <1>3, <1>4, <1>5 DEF DaysBefore

LEMMA WdayIs ==
    ASSUME NEW y \in Nat, y >= 1970, NEW m \in 1 .. 12, NEW d \in Nat
    PROVE  rtc_get_wday(y, m, d) = (DaysSince1970(y, m, d) + 4) % 7
<1>1. DaysSince1970(y, m, d) = (y - 1970) * 365 + Leaps(y - 1) + DaysBefore(y)[m] + d - 1
  BY DaysSince1970Is
<1>2. Quarters(y) = Quarters(y - 1) + (IF Leap(y) THEN 1 ELSE 0)
  BY QuarterStep
<1> PICK q \in Int : q = Quarters(y)
  BY DEF Quarters
<1> PICK p \in Int : p = Quarters(y - 1)
  BY DEF Quarters
<1>3. rtc_get_wday(y, m, d) =
         (((23 * m) \div 9) + (d + (IF m < 3 THEN y ELSE y - 2)) + 4
             + (IF m < 3 THEN p ELSE q)) % 7
  BY DEF rtc_get_wday, Quarters
<1>4. (23 * m) \div 9 = <<2, 5, 7, 10, 12, 15, 17, 20, 23, 25, 28, 30>>[m]
  OBVIOUS
<1>5. q = p + (IF Leap(y) THEN 1 ELSE 0) /\ Leaps(y - 1) = p - 477
  BY <1>2 DEF Leaps
<1> PICK a \in Int : a = DaysSince1970(y, m, d) + 4
  BY <1>1, <1>5 DEF DaysBefore
<1> PICK w \in Int :
        w = ((23 * m) \div 9) + (d + (IF m < 3 THEN y ELSE y - 2)) + 4
                + (IF m < 3 THEN p ELSE q)
  BY <1>4
<1> PICK k \in Int : k = 52 * y - 102790 + 4 * (m - 1)
  OBVIOUS
<1>6. a = w + 7 * k
  BY <1>1, <1>4, <1>5 DEF DaysBefore
<1>7. a % 7 = w % 7
  BY <1>6
<1> QED BY <1>3, <1>7

\* The table of clock.cpp.
LEMMA TableIs ==
    ASSUME NEW n \in 0 .. 99
    PROVE  leapYears[n] = Leaps(n + 1970)
<1> DEFINE OneIf(i) == IF rtc_year_is_leap(i + 1970) THEN 1 ELSE 0
           v == [i \in 0 .. 99 |-> Leaps(i + 1970)]
<1>1. \A i \in 0 .. 99 : Leaps(i + 1970) = IF i = 0 THEN 0 ELSE Leaps((i - 1) + 1970) + OneIf(i)
  <2> TAKE i \in 0 .. 99
  <2>1. Quarters(i + 1970) = Quarters((i + 1970) - 1) + (IF Leap(i + 1970) THEN 1 ELSE 0)
    BY QuarterStep
  <2>2. (i + 1970) - 1 = (i - 1) + 1970
    OBVIOUS
  <2>3. rtc_year_is_leap(i + 1970) = Leap(i + 1970)
    BY LeapSame
  <2>4. Quarters(1970) = 477 /\ Quarters((i - 1) + 1970) \in Int
    BY DEF Quarters
  <2> QED BY <2>1, <2>2, <2>3, <2>4 DEF Leaps
<1>3. leapYears = CHOOSE g : g = [i \in 0 .. 99 |-> IF i = 0 THEN 0 ELSE g[i - 1] + OneIf(i)]
  BY DEF leapYears
<1> HIDE DEF OneIf
<1>4. v = [i \in 0 .. 99 |-> IF i = 0 THEN 0 ELSE v[i - 1] + OneIf(i)]
  BY <1>1
<1>5. \E g : g = [i \in 0 .. 99 |-> IF i = 0 THEN 0 ELSE g[i - 1] + OneIf(i)]
  <2> HIDE DEF v
  <2> QED BY <1>4
<1>6. leapYears = [i \in 0 .. 99 |-> IF i = 0 THEN 0 ELSE leapYears[i - 1] + OneIf(i)]
  BY <1>3, <1>5
<1> SUFFICES ASSUME leapYears[n] # Leaps(n + 1970) PROVE FALSE
  OBVIOUS
<1> DEFINE Bad == {i \in 0 .. 99 : leapYears[i] # Leaps(i + 1970)}
<1>7. Bad \in SUBSET Nat /\ Bad # {}
  OBVIOUS
<1> HIDE DEF Bad
<1>8. PICK k \in Bad : \A j \in Bad : k <= j
  BY <1>7, FirstOf
<1> USE DEF Bad
<1>9. CASE k = 0
  BY <1>1, <1>6, <1>8, <1>9
<1>10. CASE k # 0
  <2>1. k - 1 \in 0 .. 99 /\ ~(k <= k - 1)
    BY <1>8, <1>10
  <2>2. leapYears[k - 1] = Leaps((k - 1) + 1970)
    BY <1>8, <2>1
  <2>3. leapYears[k] = leapYears[k - 1] + OneIf(k)
    BY <1>6, <1>8, <1>10
  <2>4. Leaps(k + 1970) = Leaps((k - 1) + 1970) + OneIf(k)
    BY <1>1, <1>8, <1>10
  <2> QED BY <1>8, <2>2, <2>3, <2>4
<1> QED BY <1>9, <1>10

\* The day after a day of the calendar.
MidnightTo(y, m, d, ny, nm, nd) ==
    /\ ny = IF d = MonthDays(y)[m] /\ m = 12 THEN y + 1 ELSE y
    /\ nm = IF d # MonthDays(y)[m] THEN m ELSE IF m = 12 THEN 1 ELSE m + 1
    /\ nd = IF d = MonthDays(y)[m] THEN 1 ELSE d + 1

LEMMA NextDayIs ==
    ASSUME NEW y \in Nat, y >= 1970, NEW m \in 1 .. 12, NEW d \in 1 .. MonthDays(y)[m],
           NEW ny, NEW nm, NEW nd, MidnightTo(y, m, d, ny, nm, nd)
    PROVE  /\ ny \in Nat /\ ny >= 1970 /\ nm \in 1 .. 12 /\ nd \in 1 .. MonthDays(ny)[nm]
           /\ DaysSince1970(ny, nm, nd) = DaysSince1970(y, m, d) + 1
<1>0. /\ ny = IF d = MonthDays(y)[m] /\ m = 12 THEN y + 1 ELSE y
      /\ nm = IF d # MonthDays(y)[m] THEN m ELSE IF m = 12 THEN 1 ELSE m + 1
      /\ nd = IF d = MonthDays(y)[m] THEN 1 ELSE d + 1
  BY DEF MidnightTo
<1>1. MonthDays(y)[m] \in 28 .. 31 /\ (m = 12 => MonthDays(y)[m] = 31)
  BY DEF MonthDays
<1> PICK l \in 28 .. 31 : l = MonthDays(y)[m] /\ (m = 12 => l = 31)
  BY <1>1
<1>2. d \in 1 .. l /\ d \in Nat
  OBVIOUS
<1>3. \A z \in Nat, k \in 1 .. 12 : 1 \in 1 .. MonthDays(z)[k]
  BY DEF MonthDays
<1>4. DaysSince1970(y, m, d) = (y - 1970) * 365 + Leaps(y - 1) + DaysBefore(y)[m] + d - 1
  BY <1>2, DaysSince1970Is
<1> PICK p \in Int : p = Leaps(y - 1)
  BY DEF Leaps, Quarters
<1>5. Leaps(y) = p + (IF Leap(y) THEN 1 ELSE 0)
  BY QuarterStep DEF Leaps, Quarters
<1> PICK b \in Nat : b = DaysBefore(y)[m]
  BY DEF DaysBefore
<1>6. CASE d # l
  <2>1. ny = y /\ nm = m /\ nd = d + 1 /\ nd \in 1 .. l /\ nd \in Nat
    BY <1>0, <1>2, <1>6
  <2>2. DaysSince1970(ny, nm, nd) = (y - 1970) * 365 + p + b + (d + 1) - 1
    BY <2>1, DaysSince1970Is
  <2> QED BY <2>1, <2>2, <1>2, <1>4
<1>7. CASE d = l /\ m # 12
  <2>1. ny = y /\ nm = m + 1 /\ nm \in 1 .. 12 /\ nd = 1
    BY <1>0, <1>7
  <2>2. DaysSince1970(ny, nm, nd) = (y - 1970) * 365 + p + DaysBefore(y)[m + 1] + 1 - 1
    BY <2>1, DaysSince1970Is
  <2>3. DaysBefore(y)[m + 1] = b + l
    BY <1>7 DEF DaysBefore, MonthDays
  <2> QED BY <2>1, <2>2, <2>3, <1>2, <1>3, <1>4, <1>7
<1>8. CASE d = l /\ m = 12
  <2>1. ny = y + 1 /\ ny \in Nat /\ ny >= 1970 /\ nm = 1 /\ nd = 1 /\ l = 31 /\ ny - 1 = y
    BY <1>0, <1>8
  <2>2. DaysBefore(ny)[1] = 0 /\ b = IF Leap(y) THEN 335 ELSE 334
    BY <1>8 DEF DaysBefore
  <2>3. DaysSince1970(ny, nm, nd) = (ny - 1970) * 365 + Leaps(ny - 1) + 0 + 1 - 1
    BY <2>1, <2>2, DaysSince1970Is
  <2>4. DaysSince1970(ny, nm, nd) = (y + 1 - 1970) * 365 + p + (IF Leap(y) THEN 1 ELSE 0)
    BY <2>1, <2>3, <1>5
  <2>5. DaysSince1970(y, m, d) = (y - 1970) * 365 + p + b + 30
    BY <2>1, <1>4, <1>8
  <2>6. DaysSince1970(ny, nm, nd) = DaysSince1970(y, m, d) + 1
    <3>1. CASE Leap(y)
      BY <3>1, <2>2, <2>4, <2>5
    <3>2. CASE ~Leap(y)
      BY <3>2, <2>2, <2>4, <2>5
    <3> QED BY <3>1, <3>2
  <2> QED BY <2>1, <2>6, <1>3
<1> QED BY <1>6, <1>7, <1>8

\* The day the chip shows.
Shown == FullYear(rtc.date, rtc.century)

\* The last day that the century register, of five bits, can hold.
LastDay == DaysSince1970(3199, 12, 31)

LEMMA LastDayIs == LastDay = 449247
<1>1. PICK y \in Nat, m \in 1 .. 12, d \in Nat : y = 3199 /\ m = 12 /\ d = 31
  OBVIOUS
<1>2. DaysSince1970(y, m, d) = (y - 1970) * 365 + Leaps(y - 1) + DaysBefore(y)[m] + d - 1
  BY <1>1, DaysSince1970Is
<1>3. Leaps(y - 1) = 298 /\ ~Leap(y)
  BY <1>1 DEF Leaps, Quarters, Leap
<1>4. DaysBefore(y)[m] = 334
  BY <1>1, <1>3 DEF DaysBefore
<1> QED BY <1>1, <1>2, <1>3, <1>4 DEF LastDay

LEMMA YearBound ==
    ASSUME NEW y \in Nat, y >= 1970, NEW m \in 1 .. 12, NEW d \in 1 .. 31,
           DaysSince1970(y, m, d) <= LastDay
    PROVE  y < 3200
<1>1. DaysSince1970(y, m, d) = (y - 1970) * 365 + Leaps(y - 1) + DaysBefore(y)[m] + d - 1
  BY DaysSince1970Is
<1>2. PICK b \in Nat : b = DaysBefore(y)[m]
  BY DEF DaysBefore
<1>3. PICK p \in Int : p = Leaps(y - 1)
  BY DEF Leaps, Quarters
<1>4. y >= 3200 => p >= 298
  BY <1>3 DEF Leaps, Quarters
<1>5. (y - 1970) * 365 + p + b + d - 1 <= 449247
  BY <1>1, <1>2, <1>3, LastDayIs
<1> QED BY <1>4, <1>5

\* What the registers hold once the date is set.
ShowsToday ==
    /\ rtc.mode = "running" /\ rtc.open
    /\ Shown >= 1970 /\ today + (MaxDays - midnights) <= LastDay
    /\ rtc.date.day \in 1 .. MonthDays(Shown)[rtc.date.month]
    /\ today = DaysSince1970(Shown, rtc.date.month, rtc.date.day)
    /\ rtc.date.week = (today + 4) % 7

\* A reader is a record of these fields, and so is what it copies.
ReaderFields == {"at", "call", "lag", "began", "date", "time", "century", "next",
                 "got", "ts"}
TmNames == {"sec", "min", "hour", "mday", "mon", "year", "yday"}

Shape(r) ==
    /\ r = [f \in ReaderFields |-> r[f]]
    /\ r.got = [f \in TmNames |-> r.got[f]]

ReadersShape ==
    /\ tm = [f \in TmNames |-> tm[f]]
    /\ rd = [p \in Readers |-> rd[p]]
    /\ \A p \in Readers : Shape(rd[p])

RtcInv ==
    /\ RtcTypeOK
    /\ setup # "done" => midnights = 0 /\ \A p \in Readers : rd[p].at = "idle"
    /\ ReadersShape
    /\ setup = "rtc_timer_set" => rtc.mode = "running" /\ rtc.open
    /\ setup = "done" => ShowsToday

Registers == [date : [year : 0 .. 99, month : 1 .. 12, day : 1 .. 31, week : 0 .. 6],
              century : 0 .. 31, time : Moments,
              mode : {"pause", "running", "setting"}, open : BOOLEAN]

\* The two digits of the year and the century make the year.
LEMMA YearOf ==
    ASSUME NEW y \in 0 .. 99, NEW c \in 0 .. 31
    PROVE  (y % 100) + c * 100 = y + c * 100 /\ y + c * 100 \in Nat
OBVIOUS

LEMMA FieldsAre ==
    ASSUME RtcTypeOK
    PROVE  /\ rtc \in Registers
           /\ rtc.date \in [year : 0 .. 99, month : 1 .. 12, day : 1 .. 31, week : 0 .. 6]
           /\ rtc.date.year \in 0 .. 99 /\ rtc.date.month \in 1 .. 12
           /\ rtc.date.day \in 1 .. 31 /\ rtc.date.week \in 0 .. 6
           /\ rtc.century \in 0 .. 31 /\ rtc.time \in Moments
           /\ Shown = rtc.date.year + rtc.century * 100 /\ Shown \in Nat
<1>1. rtc \in Registers
  BY DEF RtcTypeOK, Registers
<1>2. /\ rtc.date \in [year : 0 .. 99, month : 1 .. 12, day : 1 .. 31, week : 0 .. 6]
      /\ rtc.century \in 0 .. 31 /\ rtc.time \in Moments
  BY <1>1 DEF Registers
<1>3. /\ rtc.date.year \in 0 .. 99 /\ rtc.date.month \in 1 .. 12
      /\ rtc.date.day \in 1 .. 31 /\ rtc.date.week \in 0 .. 6
  BY <1>2
<1>4. /\ (rtc.date.year % 100) + rtc.century * 100 = rtc.date.year + rtc.century * 100
      /\ rtc.date.year + rtc.century * 100 \in Nat
  BY <1>2, <1>3, YearOf
<1>5. Shown = rtc.date.year + rtc.century * 100
  BY <1>4 DEF Shown, FullYear
<1> QED BY <1>1, <1>2, <1>3, <1>4, <1>5

LEMMA CalendarByInv == RtcInv => CalendarAgrees
<1> SUFFICES ASSUME RtcInv, setup = "done" PROVE
        LET y == FullYear(rtc.date, rtc.century)
            m == rtc.date.month
            d == rtc.date.day
        IN  /\ rtc.mode = "running" /\ rtc.open
            /\ mktime_Days(y, m, d) = today
            /\ rtc.date.week = (today + 4) % 7
            /\ rtc_get_wday(y, m, d) = rtc.date.week
            /\ rtc_get_yday(y, m, d) = DayOfYear(y, m, d)
            /\ y - 1970 \in 1 .. 100 =>
                   getTimeVal_Days(y - 1900, rtc_get_yday(y, m, d) % 366)
                       = IF rtc_get_yday(y, m, d) = 366 THEN today - 365 ELSE today + 1
  BY DEF RtcInv, CalendarAgrees
<1>0. RtcTypeOK
  BY DEF RtcInv
<1> PICK y : y = Shown
  OBVIOUS
<1> PICK m : m = rtc.date.month
  OBVIOUS
<1> PICK d : d = rtc.date.day
  OBVIOUS
<1>2. y \in Nat /\ m \in 1 .. 12 /\ d \in Nat
  BY <1>0, FieldsAre
<1>3. /\ rtc.mode = "running" /\ rtc.open /\ y >= 1970 /\ d \in 1 .. MonthDays(y)[m]
      /\ today = DaysSince1970(y, m, d) /\ rtc.date.week = (today + 4) % 7
  BY DEF RtcInv, ShowsToday
<1>4. mktime_Days(y, m, d) = today /\ rtc_get_wday(y, m, d) = rtc.date.week
  BY <1>2, <1>3, MktimeIs, WdayIs
<1>5. rtc_get_yday(y, m, d) = DayOfYear(y, m, d)
  BY <1>2, YdayIs
<1>6. ASSUME y - 1970 \in 1 .. 100
      PROVE  getTimeVal_Days(y - 1900, rtc_get_yday(y, m, d) % 366)
                 = IF rtc_get_yday(y, m, d) = 366 THEN today - 365 ELSE today + 1
  <2>1. y - 1971 \in 0 .. 99 /\ (y - 1971) + 1970 = y - 1
    BY <1>2, <1>6
  <2>2. leapYears[y - 1971] = Leaps(y - 1)
    BY <2>1, TableIs
  <2>3. Cardinality({z \in 1970 .. y - 1 : Leap(z)}) = Leaps(y - 1)
    <3>1. y \in Nat /\ y >= 1970
      BY <1>2, <1>3
    <3>2. Cardinality(LeapYears(y)) = Leaps(y - 1)
      BY <3>1, LeapsCounted
    <3> QED BY <3>2 DEF LeapYears
  <2>4. PICK l \in Int : l = leapYears[y - 1971]
    BY <1>2, <2>2 DEF Leaps, Quarters
  <2>5. PICK j \in 1 .. 366 : j = rtc_get_yday(y, m, d)
    <3>1. d \in 1 .. MonthDays(y)[m]
      BY <1>3
    <3>2. rtc_get_yday(y, m, d) \in 1 .. 366
      BY <1>2, <3>1, YdayRange
    <3> QED BY <3>2
  <2>6. today = (y - 1970) * 365 + l + j - 1
    BY <2>2, <2>3, <2>4, <2>5, <1>3, <1>5 DEF DaysSince1970
  <2>7. (y - 1900) - 70 = y - 1970 /\ (y - 1970) - 1 = y - 1971
    BY <1>2
  <2>8. getTimeVal_Days(y - 1900, j % 366) = l * 366 + ((y - 1970) - l) * 365 + (j % 366)
    BY <2>4, <2>7 DEF getTimeVal_Days
  <2>9. j % 366 = IF j = 366 THEN 0 ELSE j
    OBVIOUS
  <2>10. l * 366 + ((y - 1970) - l) * 365 = (y - 1970) * 365 + l
    BY <1>2
  <2> QED BY <1>2, <2>5, <2>6, <2>8, <2>9, <2>10
<1> QED BY <1>3, <1>4, <1>5, <1>6 DEF Shown

\* A legal moment, in seconds of the day; the earliest later one exists.
LEMMA SecondsAre ==
    ASSUME NEW t \in Moments, NEW u \in Moments
    PROVE  /\ Seconds(t) \in Nat
           /\ Seconds(t) = Seconds(u) => t = u
<1>1. /\ t \in (0 .. 23) \X (0 .. 59) \X (0 .. 59)
      /\ u \in (0 .. 23) \X (0 .. 59) \X (0 .. 59)
  BY RtcAssumption
<1>a. \A x \in (0 .. 23) \X (0 .. 59) \X (0 .. 59) :
          \E h \in 0 .. 23, m \in 0 .. 59, s \in 0 .. 59 : x = <<h, m, s>>
  <2> SUFFICES ASSUME NEW x \in (0 .. 23) \X (0 .. 59) \X (0 .. 59)
      PROVE  \E h \in 0 .. 23, m \in 0 .. 59, s \in 0 .. 59 : x = <<h, m, s>>
    OBVIOUS
  <2>1. x = <<x[1], x[2], x[3]>>
    OBVIOUS
  <2>2. x[1] \in 0 .. 23 /\ x[2] \in 0 .. 59 /\ x[3] \in 0 .. 59
    OBVIOUS
  <2> QED BY <2>1, <2>2, Zenon
<1> PICK h \in 0 .. 23, m \in 0 .. 59, s \in 0 .. 59 : t = <<h, m, s>>
  BY <1>1, <1>a, Zenon
<1> PICK h2 \in 0 .. 23, m2 \in 0 .. 59, s2 \in 0 .. 59 : u = <<h2, m2, s2>>
  BY <1>1, <1>a, Zenon
<1>2. Seconds(t) = (h * 60 + m) * 60 + s /\ Seconds(u) = (h2 * 60 + m2) * 60 + s2
  BY DEF Seconds
<1>3. (h * 60 + m) * 60 + s = (h2 * 60 + m2) * 60 + s2 => h = h2 /\ m = m2 /\ s = s2
  OBVIOUS
<1> QED BY <1>2, <1>3

LEMMA EarliestLater ==
    ASSUME RtcTypeOK, Later # {}
    PROVE  LET t == CHOOSE x \in Later : \A u \in Later : Seconds(x) <= Seconds(u)
           IN  t \in Later /\ \A u \in Later : Seconds(t) <= Seconds(u)
<1>1. Later \subseteq Moments
  BY DEF Later
<1> DEFINE S == {Seconds(t) : t \in Later}
<1>2. S \in SUBSET Nat /\ S # {}
  BY <1>1, SecondsAre
<1> HIDE DEF S
<1>3. PICK n \in S : \A m \in S : n <= m
  BY <1>2, FirstOf
<1> USE DEF S
<1>4. \E t \in Later : \A u \in Later : Seconds(t) <= Seconds(u)
  BY <1>3
<1> QED BY <1>4

\* The registers as a record, and the writes to them.
Chip(a, b, c, d, e) == [date |-> a, century |-> b, time |-> c, mode |-> d, open |-> e]
PutDate(r, a, b, c) == [r EXCEPT !.date = a, !.century = b, !.time = c]
PutMidnight(r, a, b, c) == [r EXCEPT !.time = c, !.century = b, !.date = a]
PutMode(r, d) == [r EXCEPT !.mode = d]
PutTime(r, c) == [r EXCEPT !.time = c]

LEMMA PutDateIs ==
    ASSUME NEW a, NEW b, NEW c, NEW d, NEW e, NEW a2, NEW b2, NEW c2
    PROVE  PutDate(Chip(a, b, c, d, e), a2, b2, c2) = Chip(a2, b2, c2, d, e)
<1> DEFINE s == PutDate(Chip(a, b, c, d, e), a2, b2, c2)
<1>1. DOMAIN s = {"date", "century", "time", "mode", "open"}
  BY DEF Chip, PutDate
<1>2. s["date"] = a2 /\ s["century"] = b2 /\ s["time"] = c2 /\ s["mode"] = d /\ s["open"] = e
  BY DEF Chip, PutDate
<1>3. s = [x \in DOMAIN s |-> s[x]]
  BY DEF Chip, PutDate
<1> HIDE DEF s
<1>4. s = Chip(a2, b2, c2, d, e)
  BY <1>1, <1>2, <1>3 DEF Chip
<1> QED BY <1>4 DEF s

LEMMA PutMidnightIs ==
    ASSUME NEW a, NEW b, NEW c, NEW d, NEW e, NEW a2, NEW b2, NEW c2
    PROVE  PutMidnight(Chip(a, b, c, d, e), a2, b2, c2) = Chip(a2, b2, c2, d, e)
<1> DEFINE s == PutMidnight(Chip(a, b, c, d, e), a2, b2, c2)
<1>1. DOMAIN s = {"date", "century", "time", "mode", "open"}
  BY DEF Chip, PutMidnight
<1>2. s["date"] = a2 /\ s["century"] = b2 /\ s["time"] = c2 /\ s["mode"] = d /\ s["open"] = e
  BY DEF Chip, PutMidnight
<1>3. s = [x \in DOMAIN s |-> s[x]]
  BY DEF Chip, PutMidnight
<1> HIDE DEF s
<1>4. s = Chip(a2, b2, c2, d, e)
  BY <1>1, <1>2, <1>3 DEF Chip
<1> QED BY <1>4 DEF s

LEMMA PutModeIs ==
    ASSUME NEW a, NEW b, NEW c, NEW d, NEW e, NEW d2
    PROVE  PutMode(Chip(a, b, c, d, e), d2) = Chip(a, b, c, d2, e)
BY DEF Chip, PutMode

LEMMA PutTimeIs ==
    ASSUME NEW a, NEW b, NEW c, NEW d, NEW e, NEW c2
    PROVE  PutTime(Chip(a, b, c, d, e), c2) = Chip(a, b, c2, d, e)
BY DEF Chip, PutTime

\* What an accepted date leaves in the registers.
LEMMA SetIs ==
    ASSUME RtcTypeOK, NEW start \in Starts, NEW t \in {<<23, 59, 59>>, <<23, 60, 0>>}
    PROVE  IF Accepted(start, t)
           THEN /\ t = <<23, 59, 59>>
                /\ rtc.open =>
                     rtc_timer_set(rtc, start, t) =
                       [date |-> [year |-> start.year % 100, month |-> start.month,
                                  day |-> start.day,
                                  week |-> rtc_get_wday(start.year, start.month, start.day)],
                        century |-> start.year \div 100, time |-> t,
                        mode |-> "running", open |-> TRUE]
           ELSE rtc_timer_set(rtc, start, t) = rtc
<1>1. rtc \in Registers
  BY FieldsAre
<1>2. CASE ~Accepted(start, t)
  BY <1>2 DEF rtc_timer_set
<1>3. CASE Accepted(start, t)
  <2>1. t = <<23, 59, 59>>
    BY <1>3 DEF Accepted, rtc_in_range
  <2> PICK w : w = rtc_get_wday(start.year, start.month, start.day)
    OBVIOUS
  <2>2. rtc_timer_set(rtc, start, t) =
          rtc_timer_set_mode(Written(rtc_timer_set_mode(rtc, "setting"), start, t), "running")
    BY <1>3 DEF rtc_timer_set
  <2>3. ASSUME rtc.open
        PROVE  rtc_timer_set(rtc, start, t) =
                 [date |-> [year |-> start.year % 100, month |-> start.month,
                            day |-> start.day, week |-> w],
                  century |-> start.year \div 100, time |-> t,
                  mode |-> "running", open |-> TRUE]
    <3> PICK r : r = rtc_timer_set_mode(rtc, "setting")
      OBVIOUS
    <3>1. r \in Registers /\ r.mode = "setting" /\ r.open = TRUE
      BY <1>1, <2>3 DEF rtc_timer_set_mode, Registers
    <3> PICK y, c, mo, da : y = start.year % 100 /\ c = start.year \div 100
                            /\ mo = start.month /\ da = start.day
      OBVIOUS
    <3> PICK dt : dt = [year |-> y, month |-> mo, day |-> da, week |-> w]
      OBVIOUS
    <3> PICK a, b, e, z : a = r.date /\ b = r.century /\ z = r.time /\ e = r.open
      OBVIOUS
    <3>2. r = Chip(a, b, z, "setting", e)
      BY <3>1 DEF Registers, Chip
    <3>3. PutDate(r, dt, c, t) = Chip(dt, c, t, "setting", e)
      BY <3>2, PutDateIs
    <3>4. Written(r, start, t) = PutDate(r, dt, c, t)
      BY <3>1 DEF Written, PutDate
    <3>5. PutMode(Written(r, start, t), "running") = Chip(dt, c, t, "running", e)
      BY <3>3, <3>4, PutModeIs
    <3>6. rtc_timer_set(rtc, start, t) = PutMode(Written(r, start, t), "running")
      BY <2>2 DEF rtc_timer_set_mode, PutMode
    <3> QED BY <3>1, <3>5, <3>6 DEF Chip
  <2> QED BY <1>3, <2>1, <2>3
<1> QED BY <1>2, <1>3

Dated(u, m, d, w) == [year |-> u, month |-> m, day |-> d, week |-> w]

LEMMA CenturyOf ==
    ASSUME NEW y \in Nat, y < 3200
    PROVE  /\ y % 100 \in 0 .. 99 /\ y \div 100 \in 0 .. 31
           /\ ((y % 100) % 100) + (y \div 100) * 100 = y
OBVIOUS

LEMMA ChipIs ==
    ASSUME RtcTypeOK
    PROVE  rtc = Chip(rtc.date, rtc.century, rtc.time, rtc.mode, rtc.open)
<1>1. rtc \in Registers
  BY FieldsAre
<1> QED BY <1>1 DEF Registers, Chip

LEMMA MidnightIs ==
    ASSUME RtcTypeOK, Midnight
    PROVE  \E ny, nm, nd :
              /\ MidnightTo(Shown, rtc.date.month, rtc.date.day, ny, nm, nd)
              /\ rtc' = Chip(Dated(ny % 100, nm, nd, (rtc.date.week + 1) % 7),
                             ny \div 100, <<0, 0, 0>>, rtc.mode, rtc.open)
<1> PICK y, m, d, l : y = Shown /\ m = rtc.date.month /\ d = rtc.date.day
                   /\ l = MonthDays(Shown)[rtc.date.month]
  OBVIOUS
<1> PICK ny : ny = IF d = l /\ m = 12 THEN y + 1 ELSE y
  OBVIOUS
<1> PICK nm : nm = IF d # l THEN m ELSE IF m = 12 THEN 1 ELSE m + 1
  OBVIOUS
<1> PICK nd : nd = IF d = l THEN 1 ELSE d + 1
  OBVIOUS
<1> PICK dt : dt = Dated(ny % 100, nm, nd, (rtc.date.week + 1) % 7)
  OBVIOUS
<1> PICK c : c = ny \div 100
  OBVIOUS
<1>1. y = FullYear(rtc.date, rtc.century)
  BY DEF Shown
<1>2. rtc' = PutMidnight(rtc, dt, c, <<0, 0, 0>>)
  BY <1>1 DEF Midnight, PutMidnight, Dated
<1>3. rtc' = Chip(dt, c, <<0, 0, 0>>, rtc.mode, rtc.open)
  BY <1>2, ChipIs, PutMidnightIs
<1>4. MidnightTo(y, m, d, ny, nm, nd)
  BY DEF MidnightTo
<1> QED BY <1>3, <1>4

LEMMA DayRange ==
    ASSUME NEW y \in Nat, NEW m \in 1 .. 12, NEW d \in 1 .. MonthDays(y)[m]
    PROVE  d \in 1 .. 31
<1>1. MonthDays(y)[m] \in 28 .. 31
  BY DEF MonthDays
<1> QED BY <1>1

\* A day of the calendar in the registers.
IsDay(y, m, d) ==
    /\ y \in Nat /\ y >= 1970 /\ y < 3200
    /\ m \in 1 .. 12 /\ d \in 1 .. MonthDays(y)[m]

Holds(r, y, m, d, n, t) ==
    /\ r \in Registers /\ FullYear(r.date, r.century) = y
    /\ r.date.month = m /\ r.date.day = d /\ r.date.week = (n + 4) % 7
    /\ r.date.year = y % 100 /\ r.century = y \div 100
    /\ r.time = t /\ r.mode = "running" /\ r.open = TRUE

SetTo(r, y, m, d, n, t) ==
    r = Chip(Dated(y % 100, m, d, (n + 4) % 7), y \div 100, t, "running", TRUE)

LEMMA IsDayTyped ==
    ASSUME NEW y, NEW m, NEW d, IsDay(y, m, d)
    PROVE  y \in Nat /\ y >= 1970 /\ y < 3200 /\ m \in 1 .. 12 /\ d \in 1 .. 31
<1>1. y \in Nat /\ y >= 1970 /\ y < 3200 /\ m \in 1 .. 12 /\ d \in 1 .. MonthDays(y)[m]
  BY DEF IsDay
<1> QED BY <1>1, DayRange

LEMMA HoldsDay ==
    ASSUME NEW y, NEW m, NEW d, NEW n, NEW t, NEW r
    PROVE  SetTo(r, y, m, d, n, t) /\ IsDay(y, m, d) /\ n \in Nat /\ t \in Moments
               => Holds(r, y, m, d, n, t)
<1>0. SUFFICES ASSUME SetTo(r, y, m, d, n, t), IsDay(y, m, d), n \in Nat, t \in Moments
               PROVE  Holds(r, y, m, d, n, t)
  OBVIOUS
<1>1. y \in Nat /\ y < 3200 /\ m \in 1 .. 12 /\ d \in 1 .. 31
  BY <1>0, IsDayTyped
<1>2. PICK y2 \in Nat, m2 \in 1 .. 12, d2 \in 1 .. 31, n2 \in Nat, t2 \in Moments :
          y2 = y /\ m2 = m /\ d2 = d /\ n2 = n /\ t2 = t
  BY <1>0, <1>1
<1>3. SetTo(r, y2, m2, d2, n2, t2) /\ y2 < 3200
  BY <1>0, <1>1, <1>2
<1>4. Holds(r, y2, m2, d2, n2, t2)
  <2>1. PICK u \in 0 .. 99, c \in 0 .. 31 :
            u = y2 % 100 /\ c = y2 \div 100 /\ (u % 100) + c * 100 = y2
    BY <1>3, CenturyOf
  <2>2. PICK w \in 0 .. 6 : w = (n2 + 4) % 7
    OBVIOUS
  <2>3. r = Chip(Dated(y2 % 100, m2, d2, (n2 + 4) % 7), y2 \div 100, t2, "running", TRUE)
    BY <1>3 DEF SetTo
  <2>4. r = Chip(Dated(u, m2, d2, w), c, t2, "running", TRUE)
    BY <2>1, <2>2, <2>3
  <2>5. SUFFICES ASSUME NEW dt, dt = Dated(u, m2, d2, w)
        PROVE  Holds(r, y2, m2, d2, n2, t2)
    OBVIOUS
  <2>6. /\ dt \in [year : 0 .. 99, month : 1 .. 12, day : 1 .. 31, week : 0 .. 6]
        /\ dt.year = u /\ dt.month = m2 /\ dt.day = d2 /\ dt.week = w
    BY <2>5 DEF Dated
  <2>7. r = Chip(dt, c, t2, "running", TRUE)
    BY <2>4, <2>5
  <2>8. /\ r \in Registers
        /\ r.date = dt /\ r.century = c /\ r.time = t2 /\ r.mode = "running" /\ r.open = TRUE
    BY <2>6, <2>7 DEF Chip, Registers
  <2>9. FullYear(dt, c) = y2
    BY <2>1, <2>6 DEF FullYear
  <2>10. FullYear(r.date, r.century) = y2
    BY <2>8, <2>9
  <2>11. r.date.month = m2 /\ r.date.day = d2 /\ r.date.week = (n2 + 4) % 7
         /\ r.date.year = y2 % 100 /\ r.century = y2 \div 100
    BY <2>1, <2>2, <2>6, <2>8
  <2> QED BY <2>8, <2>10, <2>11 DEF Holds
<1> QED BY <1>2, <1>4

LEMMA DayIsNat ==
    ASSUME NEW y, NEW m, NEW d, IsDay(y, m, d)
    PROVE  DaysSince1970(y, m, d) \in Nat
<1>1. y \in Nat /\ y >= 1970 /\ m \in 1 .. 12 /\ d \in 1 .. 31
  BY DayRange DEF IsDay
<1>2. DaysSince1970(y, m, d) = (y - 1970) * 365 + Leaps(y - 1) + DaysBefore(y)[m] + d - 1
  BY <1>1, DaysSince1970Is
<1>3. PICK p \in Nat : p = Leaps(y - 1)
  BY <1>1 DEF Leaps, Quarters
<1>4. PICK b \in Nat : b = DaysBefore(y)[m]
  BY <1>1 DEF DaysBefore
<1> QED BY <1>1, <1>2, <1>3, <1>4

LEMMA NextDay ==
    ASSUME NEW y \in Nat, y >= 1970, NEW m \in 1 .. 12,
           NEW d \in 1 .. MonthDays(y)[m], DaysSince1970(y, m, d) + 1 <= LastDay,
           NEW ny, NEW nm, NEW nd, MidnightTo(y, m, d, ny, nm, nd)
    PROVE  /\ IsDay(ny, nm, nd)
           /\ DaysSince1970(ny, nm, nd) = DaysSince1970(y, m, d) + 1
<1>1. /\ ny \in Nat /\ ny >= 1970 /\ nm \in 1 .. 12 /\ nd \in 1 .. MonthDays(ny)[nm]
      /\ DaysSince1970(ny, nm, nd) = DaysSince1970(y, m, d) + 1
  BY NextDayIs
<1>2. PICK y2 \in Nat, m2 \in 1 .. 12 : y2 = ny /\ m2 = nm
  BY <1>1
<1>3. PICK d2 \in 1 .. MonthDays(y2)[m2] : d2 = nd
  BY <1>1, <1>2
<1>4. d2 \in 1 .. 31
  BY DayRange
<1>5. y2 < 3200
  BY <1>1, <1>2, <1>3, <1>4, YearBound
<1> QED BY <1>1, <1>2, <1>5 DEF IsDay

LEMMA ShowsIsDay ==
    ASSUME RtcTypeOK, ShowsToday
    PROVE  /\ IsDay(Shown, rtc.date.month, rtc.date.day)
           /\ Shown \in Nat /\ midnights \in 0 .. MaxDays /\ MaxDays \in Nat
<1>1. Shown \in Nat /\ midnights \in 0 .. MaxDays /\ MaxDays \in Nat
      /\ rtc.date.month \in 1 .. 12 /\ rtc.date.day \in 1 .. 31 /\ today \in Nat
  BY FieldsAre, RtcAssumption DEF RtcTypeOK
<1>2. /\ Shown >= 1970 /\ today + (MaxDays - midnights) <= LastDay
      /\ rtc.date.day \in 1 .. MonthDays(Shown)[rtc.date.month]
      /\ today = DaysSince1970(Shown, rtc.date.month, rtc.date.day)
  BY DEF ShowsToday
<1>3. PICK y \in Nat, m \in 1 .. 12, d \in 1 .. 31 :
          y = Shown /\ m = rtc.date.month /\ d = rtc.date.day
  BY <1>1
<1>4. today <= LastDay
  BY <1>1, <1>2, LastDayIs
<1>5. y < 3200
  BY <1>2, <1>3, <1>4, YearBound
<1> QED BY <1>1, <1>2, <1>3, <1>5 DEF IsDay

\* The records that the steps make.
PutRead(p, s) == [rd EXCEPT ![p] = s]
WithTime(r, t) == [r EXCEPT !.at = "extended", !.time = t]
WithCentury(r, c) == [r EXCEPT !.at = "store", !.century = c]
WithStep(r, a, n) == [r EXCEPT !.at = a, !.next = n]
WithNext(r, n) == [r EXCEPT !.next = n]
WithCopy(r, k, v, n, a) == [r EXCEPT !.got[k] = v, !.next = n, !.at = a]
WithField(g, k, v) == [g EXCEPT ![k] = v]
CopyChanges == {"got", "next", "at"}
TmRecord(h) == h = [f \in TmNames |-> h[f]]

\* What a step of a reader leaves in its record.  All the fields but those that
\* the step assigns, ...
Kept(r, s, F) == \A f \in ReaderFields \ F : s[f] = r[f]

LEMMA LagShape ==
    ASSUME NEW r, Shape(r)
    PROVE  /\ Shape(Lag(r)) /\ Kept(r, Lag(r), {"lag"})
           /\ r.at = "idle" => Lag(r) = r
           /\ r.at # "idle" => Lag(r).lag = r.lag + 1
<1>1. CASE r.at = "idle"
  BY <1>1 DEF Lag, Kept
<1>2. CASE r.at # "idle"
  <2> PICK l : l = r.lag + 1
    OBVIOUS
  <2> PICK s : s = [r EXCEPT !.lag = l]
    OBVIOUS
  <2>1. Lag(r) = s
    BY <1>2 DEF Lag
  <2>2. /\ s = [f \in ReaderFields |-> s[f]] /\ s.lag = l
        /\ \A f \in ReaderFields : f # "lag" => s[f] = r[f]
    BY DEF Shape, ReaderFields
  <2>3. s.got = r.got
    BY <2>2 DEF ReaderFields
  <2> QED BY <1>2, <2>1, <2>2, <2>3 DEF Shape, Kept
<1> QED BY <1>1, <1>2

LEMMA TimeShape ==
    ASSUME NEW r, Shape(r), NEW t, NEW s, s = WithTime(r, t)
    PROVE  Shape(s) /\ Kept(r, s, {"at", "time"}) /\ s.at = "extended" /\ s.time = t
<1>1. /\ s = [f \in ReaderFields |-> s[f]] /\ s.at = "extended" /\ s.time = t
      /\ \A f \in ReaderFields : f # "at" /\ f # "time" => s[f] = r[f]
  BY DEF Shape, ReaderFields, WithTime
<1>2. s.got = r.got
  BY <1>1 DEF ReaderFields
<1> QED BY <1>1, <1>2 DEF Shape, Kept

LEMMA CenturyShape ==
    ASSUME NEW r, Shape(r), NEW c, NEW s, s = WithCentury(r, c)
    PROVE  Shape(s) /\ Kept(r, s, {"at", "century"}) /\ s.at = "store" /\ s.century = c
<1>1. /\ s = [f \in ReaderFields |-> s[f]] /\ s.at = "store" /\ s.century = c
      /\ \A f \in ReaderFields : f # "at" /\ f # "century" => s[f] = r[f]
  BY DEF Shape, ReaderFields, WithCentury
<1>2. s.got = r.got
  BY <1>1 DEF ReaderFields
<1> QED BY <1>1, <1>2 DEF Shape, Kept

LEMMA StepShape ==
    ASSUME NEW r, Shape(r), NEW a, NEW n, NEW s, s = WithStep(r, a, n)
    PROVE  Shape(s) /\ Kept(r, s, {"at", "next"}) /\ s.at = a /\ s.next = n
<1>1. /\ s = [f \in ReaderFields |-> s[f]] /\ s.at = a /\ s.next = n
      /\ \A f \in ReaderFields : f # "at" /\ f # "next" => s[f] = r[f]
  BY DEF Shape, ReaderFields, WithStep
<1>2. s.got = r.got
  BY <1>1 DEF ReaderFields
<1> QED BY <1>1, <1>2 DEF Shape, Kept

LEMMA NextShape ==
    ASSUME NEW r, Shape(r), NEW n, NEW s, s = WithNext(r, n)
    PROVE  Shape(s) /\ Kept(r, s, {"next"}) /\ s.next = n
<1>1. /\ s = [f \in ReaderFields |-> s[f]] /\ s.next = n
      /\ \A f \in ReaderFields : f # "next" => s[f] = r[f]
  BY DEF Shape, ReaderFields, WithNext
<1>2. s.got = r.got
  BY <1>1 DEF ReaderFields
<1> QED BY <1>1, <1>2 DEF Shape, Kept

LEMMA CopyShape ==
    ASSUME NEW r, Shape(r), NEW k, NEW v, NEW n, NEW a, NEW s,
           s = WithCopy(r, k, v, n, a)
    PROVE  /\ Shape(s) /\ Kept(r, s, CopyChanges)
           /\ s.at = a /\ s.next = n
           /\ k \in TmNames => s.got[k] = v
           /\ \A f \in TmNames : f # k => s.got[f] = r.got[f]
<1> PICK g : g = [r.got EXCEPT ![k] = v]
  OBVIOUS
<1>1. s = [r EXCEPT !.got = g, !.next = n, !.at = a]
  BY DEF WithCopy
<1>2. /\ s = [f \in ReaderFields |-> s[f]] /\ s.at = a /\ s.next = n /\ s.got = g
      /\ \A f \in ReaderFields : f # "got" /\ f # "next" /\ f # "at" => s[f] = r[f]
  BY <1>1 DEF Shape, ReaderFields
<1>3. /\ g = [f \in TmNames |-> g[f]]
      /\ k \in TmNames => g[k] = v
      /\ \A f \in TmNames : f # k => g[f] = r.got[f]
  BY DEF Shape
<1> QED BY <1>2, <1>3 DEF Shape, Kept, CopyChanges

LEMMA TmShape ==
    ASSUME NEW g, TmRecord(g), NEW k, NEW v, NEW h, h = WithField(g, k, v)
    PROVE  /\ TmRecord(h)
           /\ k \in TmNames => h[k] = v
           /\ \A f \in TmNames : f # k => h[f] = g[f]
  BY DEF TmRecord, WithField

\* ... and no read at all.
LEMMA NamesAre == {StoreOrder[i] : i \in 1 .. 7} = TmNames
<1>1. \A i \in 1 .. 7 : StoreOrder[i] \in TmNames
  BY DEF StoreOrder, TmNames
<1>2. \A f \in TmNames : \E i \in 1 .. 7 : StoreOrder[i] = f
  <2>1. /\ StoreOrder[1] = "sec" /\ StoreOrder[2] = "min" /\ StoreOrder[3] = "hour"
        /\ StoreOrder[4] = "mday" /\ StoreOrder[5] = "mon" /\ StoreOrder[6] = "year"
        /\ StoreOrder[7] = "yday"
    BY DEF StoreOrder
  <2> QED BY <2>1 DEF TmNames
<1> QED BY <1>1, <1>2

LEMMA NoTmShape == TmRecord(NoTm)
  BY NamesAre DEF NoTm, TmRecord

LEMMA IdleShape ==
    /\ Shape(Idle) /\ Idle.at = "idle" /\ Idle.call = "CurrentTimeSpec" /\ Idle.next = 1
    /\ Idle.date = [year |-> 0, month |-> 1, day |-> 1, week |-> 0]
    /\ Idle.time = <<0, 0, 0>> /\ Idle.century = 0
<1>1. /\ Idle = [f \in ReaderFields |-> Idle[f]] /\ Idle.got = NoTm
      /\ Idle.at = "idle" /\ Idle.call = "CurrentTimeSpec" /\ Idle.next = 1
      /\ Idle.date = [year |-> 0, month |-> 1, day |-> 1, week |-> 0]
      /\ Idle.time = <<0, 0, 0>> /\ Idle.century = 0
  BY DEF Idle, ReaderFields
<1> QED BY <1>1, NoTmShape DEF Shape, TmRecord

LEMMA LagSteps ==
    ASSUME ReadersShape, rd' = Lagged, UNCHANGED tm
    PROVE  /\ ReadersShape'
           /\ \A p \in Readers : /\ Kept(rd[p], rd'[p], {"lag"})
                                 /\ rd[p].at = "idle" => rd'[p] = rd[p]
                                 /\ rd[p].at # "idle" => rd'[p].lag = rd[p].lag + 1
<1>1. /\ tm = [f \in TmNames |-> tm[f]] /\ rd = [p \in Readers |-> rd[p]]
      /\ \A p \in Readers : Shape(rd[p])
  BY DEF ReadersShape
<1>2. rd' = [p \in Readers |-> rd'[p]] /\ \A p \in Readers : rd'[p] = Lag(rd[p])
  BY DEF Lagged
<1>3. \A p \in Readers : /\ Shape(rd'[p]) /\ Kept(rd[p], rd'[p], {"lag"})
                         /\ rd[p].at = "idle" => rd'[p] = rd[p]
                         /\ rd[p].at # "idle" => rd'[p].lag = rd[p].lag + 1
  <2> SUFFICES ASSUME NEW p \in Readers
      PROVE  /\ Shape(rd'[p]) /\ Kept(rd[p], rd'[p], {"lag"})
             /\ rd[p].at = "idle" => rd'[p] = rd[p]
             /\ rd[p].at # "idle" => rd'[p].lag = rd[p].lag + 1
    OBVIOUS
  <2> PICK r : r = rd[p]
    OBVIOUS
  <2>1. Shape(r) /\ rd'[p] = Lag(r)
    BY <1>1, <1>2
  <2> QED BY <2>1, LagShape
<1>4. \A p \in Readers : Shape(rd[p])'
  BY <1>3 DEF Shape
<1>5. (tm = [f \in TmNames |-> tm[f]])' /\ (rd = [p \in Readers |-> rd[p]])'
  BY <1>1, <1>2
<1> QED BY <1>3, <1>4, <1>5 DEF ReadersShape

\* A step of one reader changes its record only.
Others(p) == \A q \in Readers : q # p => rd'[q] = rd[q]

LEMMA PutReader ==
    ASSUME ReadersShape, NEW p \in Readers, NEW s, Shape(s), rd' = PutRead(p, s),
           NEW h, TmRecord(h), tm' = h
    PROVE  ReadersShape' /\ rd'[p] = s /\ Others(p)
<1>1. rd = [q \in Readers |-> rd[q]] /\ \A q \in Readers : Shape(rd[q])
  BY DEF ReadersShape
<1>2. rd' = [q \in Readers |-> rd'[q]] /\ rd'[p] = s /\ \A q \in Readers : q # p => rd'[q] = rd[q]
  BY <1>1 DEF PutRead
<1>3. \A q \in Readers : Shape(rd'[q])
  BY <1>1, <1>2
<1>4. \A q \in Readers : Shape(rd[q])'
  BY <1>3 DEF Shape
<1>5. (tm = [f \in TmNames |-> tm[f]])' /\ (rd = [q \in Readers |-> rd[q]])'
  BY <1>2 DEF TmRecord
<1> QED BY <1>2, <1>4, <1>5 DEF ReadersShape, Others

LEMMA SameTm ==
    ASSUME ReadersShape, NEW p \in Readers
    PROVE  TmRecord(tm) /\ Shape(rd[p])
  BY DEF ReadersShape, TmRecord

LEMMA DateFields ==
    ASSUME ReadersShape, NEW p \in Readers, NEW c, ReadDate(p, c)
    PROVE  /\ ReadersShape' /\ Others(p)
           /\ rd'[p].at = "time" /\ rd'[p].call = c /\ rd'[p].lag = 0
           /\ rd'[p].began = Now /\ rd'[p].date = rtc.date /\ rd'[p].next = 1
           /\ rd'[p].time = Idle.time /\ rd'[p].century = Idle.century
<1> PICK r : r = Idle
  OBVIOUS
<1> PICK b, d : b = Now /\ d = rtc.date
  OBVIOUS
<1>1. Shape(r) /\ r.next = 1
  BY IdleShape
<1> PICK s : s = [r EXCEPT !.at = "time", !.call = c, !.began = b, !.date = d]
  OBVIOUS
<1>2. /\ s = [f \in ReaderFields |-> s[f]] /\ s.at = "time" /\ s.call = c /\ s.lag = r.lag
      /\ s.began = b /\ s.date = d
      /\ s.next = r.next /\ s.time = r.time /\ s.century = r.century /\ s.got = r.got
  BY <1>1 DEF Shape, ReaderFields
<1>3. Shape(s) /\ r.lag = 0
  BY <1>1, <1>2 DEF Shape, Idle
<1>4. rd' = PutRead(p, s) /\ tm' = tm
  BY DEF ReadDate, PutRead
<1>5. ReadersShape' /\ rd'[p] = s /\ Others(p)
  BY <1>3, <1>4, PutReader, SameTm
<1> QED BY <1>1, <1>2, <1>3, <1>5

LEMMA TimeFields ==
    ASSUME ReadersShape, NEW p \in Readers, ReadTime(p)
    PROVE  /\ ReadersShape' /\ Others(p) /\ Kept(rd[p], rd'[p], {"at", "time"})
           /\ rd'[p].at = "extended" /\ rd'[p].time = rtc.time
<1> PICK r, t : r = rd[p] /\ t = rtc.time
  OBVIOUS
<1> PICK s : s = WithTime(r, t)
  OBVIOUS
<1>1. Shape(r)
  BY SameTm
<1>2. Shape(s) /\ Kept(r, s, {"at", "time"}) /\ s.at = "extended" /\ s.time = t
  BY <1>1, TimeShape
<1>3. rd' = PutRead(p, s) /\ tm' = tm
  <2>1. rd' = [rd EXCEPT ![p] = [@ EXCEPT !.at = "extended", !.time = rtc.time]] /\ tm' = tm
    BY DEF ReadTime
  <2>2. rd = [q \in Readers |-> rd[q]]
    BY DEF ReadersShape
  <2> QED BY <2>1, <2>2 DEF PutRead, WithTime
<1>4. ReadersShape' /\ rd'[p] = s /\ Others(p)
  BY <1>2, <1>3, PutReader, SameTm
<1> QED BY <1>2, <1>4

LEMMA CenturyFields ==
    ASSUME ReadersShape, NEW p \in Readers, ReadExtended(p)
    PROVE  /\ ReadersShape' /\ Others(p) /\ Kept(rd[p], rd'[p], {"at", "century"})
           /\ rd'[p].at = "store" /\ rd'[p].century = rtc.century
<1> PICK r, c : r = rd[p] /\ c = rtc.century
  OBVIOUS
<1> PICK s : s = WithCentury(r, c)
  OBVIOUS
<1>1. Shape(r)
  BY SameTm
<1>2. Shape(s) /\ Kept(r, s, {"at", "century"}) /\ s.at = "store" /\ s.century = c
  BY <1>1, CenturyShape
<1>3. rd' = PutRead(p, s) /\ tm' = tm
  <2>1. rd' = [rd EXCEPT ![p] = [@ EXCEPT !.at = "store", !.century = rtc.century]] /\ tm' = tm
    BY DEF ReadExtended
  <2>2. rd = [q \in Readers |-> rd[q]]
    BY DEF ReadersShape
  <2> QED BY <2>1, <2>2 DEF PutRead, WithCentury
<1>4. ReadersShape' /\ rd'[p] = s /\ Others(p)
  BY <1>2, <1>3, PutReader, SameTm
<1> QED BY <1>2, <1>4

LEMMA StoreFields ==
    ASSUME ReadersShape, NEW p \in Readers, StoreField(p)
    PROVE  /\ ReadersShape' /\ Others(p) /\ Kept(rd[p], rd'[p], {"at", "next"})
           /\ IF rd[p].next = 7 THEN rd'[p].at = "copy" /\ rd'[p].next = 1
                                ELSE rd'[p].at = "store" /\ rd'[p].next = rd[p].next + 1
           /\ \A f \in TmNames : tm'[f] = IF f # StoreOrder[rd[p].next] THEN tm[f]
                                          ELSE IF f = "yday" THEN tm'[f]
                                          ELSE Broken(rd[p])[f]
<1> PICK r, n : r = rd[p] /\ n = r.next
  OBVIOUS
<1> PICK s : s = IF n = 7 THEN WithStep(r, "copy", 1) ELSE WithNext(r, n + 1)
  OBVIOUS
<1> PICK k, v : /\ k = StoreOrder[n]
                /\ v = IF k = "yday"
                       THEN rtc_get_yday(tm.year + 1900, tm.mon + 1, tm.mday) % 366
                       ELSE Broken(r)[k]
  OBVIOUS
<1> PICK h : h = WithField(tm, k, v)
  OBVIOUS
<1>1. Shape(r) /\ TmRecord(tm) /\ r.at = "store"
  BY SameTm DEF StoreField
<1>2. Shape(s) /\ Kept(r, s, {"at", "next"})
      /\ IF n = 7 THEN s.at = "copy" /\ s.next = 1 ELSE s.at = "store" /\ s.next = n + 1
  <2>1. CASE n = 7
    <3>1. s = WithStep(r, "copy", 1)
      BY <2>1
    <3> QED BY <1>1, <2>1, <3>1, StepShape
  <2>2. CASE n # 7
    <3> PICK m : m = n + 1
      OBVIOUS
    <3>2. s = WithNext(r, m)
      BY <2>2
    <3>1. Shape(s) /\ Kept(r, s, {"next"}) /\ s.next = m
      BY <1>1, <3>2, NextShape
    <3> QED BY <1>1, <2>2, <3>1 DEF Kept, ReaderFields
  <2> QED BY <2>1, <2>2
<1>3. rd' = PutRead(p, s) /\ tm' = h
  BY DEF StoreField, PutRead, WithStep, WithNext, WithField
<1>4. /\ TmRecord(h)
      /\ k \in TmNames => h[k] = v
      /\ \A f \in TmNames : f # k => h[f] = tm[f]
  BY <1>1, TmShape
<1>5. ReadersShape' /\ rd'[p] = s /\ Others(p)
  BY <1>2, <1>3, <1>4, PutReader, SameTm
<1>6. \A f \in TmNames : tm'[f] = IF f # k THEN tm[f]
                                  ELSE IF f = "yday" THEN tm'[f] ELSE Broken(r)[f]
  <2> SUFFICES ASSUME NEW f \in TmNames
      PROVE  h[f] = IF f # k THEN tm[f] ELSE IF f = "yday" THEN h[f] ELSE Broken(r)[f]
    BY <1>3
  <2>1. CASE f # k
    BY <1>4, <2>1
  <2>2. CASE f = k
    <3>1. h[f] = v
      BY <1>4, <2>2
    <3> QED BY <2>2, <3>1
  <2> QED BY <2>1, <2>2
<1> QED BY <1>2, <1>5, <1>6

CopiedTo(p, k, v) ==
    \A f \in TmNames : rd'[p].got[f] = IF f = k THEN v ELSE rd[p].got[f]

LEMMA CopyPut ==
    ASSUME ReadersShape, NEW p \in Readers, NEW k, NEW v, NEW m, NEW a,
           rd' = PutRead(p, WithCopy(rd[p], k, v, m, a)), tm' = tm
    PROVE  /\ ReadersShape' /\ Others(p) /\ Kept(rd[p], rd'[p], CopyChanges)
           /\ rd'[p].next = m /\ rd'[p].at = a
           /\ CopiedTo(p, k, v)
<1> PICK r : r = rd[p]
  OBVIOUS
<1> PICK s : s = WithCopy(r, k, v, m, a)
  OBVIOUS
<1>1. Shape(r)
  BY SameTm
<1>2. /\ Shape(s) /\ Kept(r, s, CopyChanges)
      /\ s.at = a /\ s.next = m
      /\ k \in TmNames => s.got[k] = v
      /\ \A f \in TmNames : f # k => s.got[f] = r.got[f]
  BY <1>1, CopyShape
<1>3. rd' = PutRead(p, s)
  OBVIOUS
<1>4. ReadersShape' /\ rd'[p] = s /\ Others(p)
  BY <1>2, <1>3, PutReader, SameTm
<1>5. \A f \in TmNames : s.got[f] = IF f = k THEN v ELSE r.got[f]
  BY <1>2
<1> QED BY <1>2, <1>4, <1>5 DEF CopiedTo

LEMMA CopyFields ==
    ASSUME ReadersShape, NEW p \in Readers, CopyField(p)
    PROVE  /\ ReadersShape' /\ Others(p) /\ Kept(rd[p], rd'[p], CopyChanges)
           /\ rd'[p].next = rd[p].next + 1
           /\ rd'[p].at = IF rd[p].next = Len(CopyOrder[rd[p].call]) THEN "got" ELSE "copy"
           /\ \A f \in TmNames : rd'[p].got[f] = IF f = CopyOrder[rd[p].call][rd[p].next]
                                                 THEN tm[f] ELSE rd[p].got[f]
<1> PICK k, v : k = CopyOrder[rd[p].call][rd[p].next] /\ v = tm[k]
  OBVIOUS
<1> PICK m, a : /\ m = rd[p].next + 1
                /\ a = IF rd[p].next = Len(CopyOrder[rd[p].call]) THEN "got" ELSE "copy"
  OBVIOUS
<1>1. rd' = PutRead(p, WithCopy(rd[p], k, v, m, a)) /\ tm' = tm
  BY DEF CopyField, PutRead, WithCopy
<1>2. /\ ReadersShape' /\ Others(p) /\ Kept(rd[p], rd'[p], CopyChanges)
      /\ rd'[p].next = m /\ rd'[p].at = a
      /\ CopiedTo(p, k, v)
  <2>1. ReadersShape
    OBVIOUS
  <2> HIDE DEF WithCopy, PutRead
  <2> QED BY ONLY p \in Readers, <1>1, <2>1, CopyPut
<1> QED BY <1>2 DEF CopiedTo

LEMMA ReplyFields ==
    ASSUME ReadersShape, NEW p \in Readers, NEW ts, Reply(p, ts)
    PROVE  /\ ReadersShape' /\ Others(p)
           /\ rd'[p].at = "answered" /\ rd'[p].call = rd[p].call /\ rd'[p].lag = rd[p].lag
           /\ rd'[p].began = rd[p].began /\ rd'[p].ts = ts /\ rd'[p].next = 1
           /\ rd'[p].date = Idle.date /\ rd'[p].time = Idle.time
           /\ rd'[p].century = Idle.century
<1> PICK r : r = Idle
  OBVIOUS
<1> PICK c, l, b : c = rd[p].call /\ l = rd[p].lag /\ b = rd[p].began
  OBVIOUS
<1>1. Shape(r) /\ r.next = 1
  BY IdleShape
<1> PICK s : s = [r EXCEPT !.at = "answered", !.call = c, !.lag = l, !.began = b, !.ts = ts]
  OBVIOUS
<1>2. /\ s = [f \in ReaderFields |-> s[f]] /\ s.at = "answered" /\ s.call = c /\ s.lag = l
      /\ s.began = b /\ s.ts = ts /\ s.date = r.date
      /\ s.next = r.next /\ s.time = r.time /\ s.century = r.century /\ s.got = r.got
  BY <1>1 DEF Shape, ReaderFields
<1>3. Shape(s)
  <2>1. s.got = [f \in TmNames |-> s.got[f]]
    BY <1>1, <1>2 DEF Shape
  <2> QED BY <1>2, <2>1 DEF Shape
<1> PICK h : h = IF \A q \in Readers \ {p} : ~Reading(q) THEN NoTm ELSE tm
  OBVIOUS
<1>4. rd' = PutRead(p, s) /\ tm' = h
  BY DEF Reply, PutRead
<1>5. TmRecord(h)
  BY NoTmShape, SameTm
<1>6. ReadersShape' /\ rd'[p] = s /\ Others(p)
  BY <1>3, <1>4, <1>5, PutReader
<1> QED BY <1>1, <1>2, <1>6

LEMMA DoneFields ==
    ASSUME ReadersShape, NEW p \in Readers, ReadDone(p)
    PROVE  ReadersShape' /\ Others(p) /\ rd'[p] = Idle
<1>1. rd' = PutRead(p, Idle) /\ tm' = tm
  BY DEF ReadDone, PutRead
<1> QED BY <1>1, IdleShape, PutReader, SameTm

LEMMA RtcInitInv == RtcInit => RtcInv
<1>1. <<0, 0, 0>> \in Moments /\ MaxDays \in Nat
  BY RtcAssumption
<1> QED BY <1>1, IdleShape, NoTmShape
       DEF RtcInit, RtcInv, RtcTypeOK, ReadersShape, TmRecord, CopyOrder

LEMMA InitStep ==
    ASSUME RtcInv, rtc_init
    PROVE  RtcInv'
<1>1. rtc \in Registers
  BY FieldsAre DEF RtcInv
<1>2. rtc' = [[rtc EXCEPT !.open = TRUE] EXCEPT !.mode = "running"]
  BY DEF rtc_init, rtc_timer_set_mode, rtc_protect_set
<1>3. rtc' \in Registers /\ rtc'.mode = "running" /\ rtc'.open = TRUE
  BY <1>1, <1>2 DEF Registers
<1> QED BY <1>3 DEF rtc_init, RtcInv, RtcTypeOK, Registers, ReadersShape, Shape

LEMMA HoldsShows ==
    ASSUME NEW y \in Nat, NEW m \in 1 .. 12, NEW d \in 1 .. MonthDays(y)[m], NEW n \in Nat,
           NEW t \in Moments, NEW k \in 0 .. MaxDays, MaxDays \in Nat,
           IsDay(y, m, d), n = DaysSince1970(y, m, d), n + (MaxDays - k) <= LastDay,
           Holds(rtc', y, m, d, n, t), today' = n, midnights' = k
    PROVE  ShowsToday' /\ rtc' \in Registers
<1>1. PICK r : r = rtc'
  OBVIOUS
<1>2. /\ r \in Registers /\ FullYear(r.date, r.century) = y
      /\ r.date.month = m /\ r.date.day = d /\ r.date.week = (n + 4) % 7
      /\ r.mode = "running" /\ r.open = TRUE
  BY <1>1 DEF Holds
<1>3. Shown' = FullYear(r.date, r.century)
  BY <1>1 DEF Shown
<1>4. Shown' = y
  BY <1>2, <1>3
<1>5. y >= 1970
  BY DEF IsDay
<1>6. /\ rtc'.mode = "running" /\ rtc'.open
      /\ rtc'.date.day = d /\ rtc'.date.month = m /\ rtc'.date.week = (n + 4) % 7
  BY <1>1, <1>2
<1> QED BY <1>1, <1>2, <1>4, <1>5, <1>6 DEF ShowsToday

LEMMA SetStep ==
    ASSUME RtcInv, NEW start \in Starts, NEW t \in {<<23, 59, 59>>, <<23, 60, 0>>},
           setDateTime(start, t)
    PROVE  RtcInv'
<1>0. RtcTypeOK /\ MaxDays \in Nat
  BY RtcAssumption DEF RtcInv
<1>1. CASE ~Accepted(start, t)
  <2>1. UNCHANGED rtcVars
    BY <1>0, <1>1, SetIs DEF setDateTime, rtcVars
  <2> QED BY <2>1 DEF rtcVars, RtcInv, RtcTypeOK, ShowsToday, Shown, ReadersShape, Shape
<1>2. CASE Accepted(start, t)
  <2>1. PICK y \in Nat : y = start.year /\ y >= 1970
    BY StartsAssumption
  <2>2. PICK m \in 1 .. 12 : m = start.month
    BY StartsAssumption
  <2>3. PICK d \in 1 .. MonthDays(y)[m] : d = start.day
    BY StartsAssumption, <2>1, <2>2
  <2>6. d \in 1 .. 31
    BY DayRange
  <2>5a. start.today = DaysSince1970(y, m, d) /\ start.today + MaxDays <= LastDay
    BY <2>1, <2>2, <2>3, StartsAssumption DEF LastDay
  <2>5b. DaysSince1970(y, m, d) \in Int
    <3>1. DaysSince1970(y, m, d) = (y - 1970) * 365 + Leaps(y - 1) + DaysBefore(y)[m] + d - 1
      BY <2>1, <2>6, DaysSince1970Is
    <3>2. PICK b \in Nat : b = DaysBefore(y)[m]
      BY DEF DaysBefore
    <3>3. PICK p \in Int : p = Leaps(y - 1)
      BY DEF Leaps, Quarters
    <3> QED BY <2>6, <3>1, <3>2, <3>3
  <2>5c. y < 3200
    <3>1. DaysSince1970(y, m, d) <= LastDay
      BY <1>0, <2>5a, <2>5b, LastDayIs
    <3> QED BY <2>1, <2>6, <3>1, YearBound
  <2>5. IsDay(y, m, d) /\ y < 3200
    BY <2>1, <2>5c DEF IsDay
  <2>7. DaysSince1970(y, m, d) \in Nat
    BY <2>5, DayIsNat
  <2>4. PICK n \in Nat : n = start.today /\ n = DaysSince1970(y, m, d)
    BY <2>5a, <2>7
  <2>8. rtc_get_wday(y, m, d) = (n + 4) % 7
    BY <2>1, <2>4, <2>6, WdayIs
  <2>9. /\ setup = "rtc_timer_set" /\ setup' = "done" /\ today' = n
        /\ UNCHANGED <<midnights, tm, rd>> /\ rtc' = rtc_timer_set(rtc, start, t)
    BY <1>2, <2>4 DEF setDateTime
  <2>10. rtc.open /\ <<23, 59, 59>> \in Moments
    BY <2>9, RtcAssumption DEF RtcInv
  <2>11. t = <<23, 59, 59>> /\ rtc_timer_set(rtc, start, t) =
             [date |-> [year |-> start.year % 100, month |-> start.month,
                        day |-> start.day,
                        week |-> rtc_get_wday(start.year, start.month, start.day)],
              century |-> start.year \div 100, time |-> t,
              mode |-> "running", open |-> TRUE]
    BY <1>0, <1>2, <2>10, SetIs
  <2>12. rtc' = Chip(Dated(y % 100, m, d, (n + 4) % 7), y \div 100, t, "running", TRUE)
    <3>1. PICK w : w = rtc_get_wday(y, m, d)
      OBVIOUS
    <3>2. PICK u, c : u = y % 100 /\ c = y \div 100
      OBVIOUS
    <3>3. rtc' = [date |-> [year |-> u, month |-> m, day |-> d, week |-> w],
                  century |-> c, time |-> t, mode |-> "running", open |-> TRUE]
      BY <2>1, <2>2, <2>3, <2>9, <2>11, <3>1, <3>2
    <3>4. rtc' = Chip(Dated(u, m, d, w), c, t, "running", TRUE)
      BY <3>3 DEF Chip, Dated
    <3> QED BY <2>8, <3>1, <3>2, <3>4
  <2>13. Holds(rtc', y, m, d, n, t)
    <3>1. t \in Moments
      BY <2>10, <2>11
    <3>2. SetTo(rtc', y, m, d, n, t)
      BY <2>12 DEF SetTo
    <3> QED BY <2>5, <3>1, <3>2, HoldsDay
  <2>14. midnights = 0
    BY <2>9 DEF RtcInv
  <2>15. ShowsToday' /\ rtc' \in Registers
    <3>1. 0 \in 0 .. MaxDays /\ n + (MaxDays - 0) <= LastDay /\ midnights' = 0
      BY <1>0, <2>4, <2>5a, <2>9, <2>14
    <3> QED BY <1>0, <2>4, <2>5, <2>7, <2>9, <2>10, <2>11, <2>13, <3>1, HoldsShows
  <2>16. RtcTypeOK'
    <3>1. /\ setup' = "done" /\ today' \in Nat /\ midnights' \in 0 .. MaxDays
      BY <1>0, <2>7, <2>9, <2>14
    <3> QED BY <1>0, <2>9, <2>15, <3>1 DEF RtcTypeOK, Registers
  <2>17. ReadersShape'
    BY <2>9 DEF RtcInv, ReadersShape, Shape
  <2> QED BY <2>9, <2>15, <2>16, <2>17 DEF RtcInv
<1> QED BY <1>1, <1>2

LEMMA AdvanceTo ==
    ASSUME RtcTypeOK, Advance
    PROVE  \E t \in Later :
              /\ \A u \in Later : Seconds(t) <= Seconds(u)
              /\ rtc' \in Registers /\ rtc'.time = t
              /\ rtc'.date = rtc.date /\ rtc'.century = rtc.century
              /\ rtc'.mode = rtc.mode /\ rtc'.open = rtc.open
<1>1. PICK t : t = CHOOSE x \in Later : \A u \in Later : Seconds(x) <= Seconds(u)
  OBVIOUS
<1>2. t \in Later /\ (\A u \in Later : Seconds(t) <= Seconds(u)) /\ Later \subseteq Moments
  BY <1>1, EarliestLater DEF Advance, Later
<1>3. rtc' = PutTime(rtc, t)
  BY <1>1 DEF Advance, PutTime
<1>4. rtc' = Chip(rtc.date, rtc.century, t, rtc.mode, rtc.open)
  BY <1>3, ChipIs, PutTimeIs
<1>5. rtc'.date = rtc.date /\ rtc'.century = rtc.century
      /\ rtc'.mode = rtc.mode /\ rtc'.open = rtc.open /\ rtc'.time = t
  BY <1>4 DEF Chip
<1>6. rtc' \in Registers
  BY <1>2, <1>4, FieldsAre DEF Chip, Registers
<1> QED BY <1>2, <1>5, <1>6

LEMMA AdvanceStep ==
    ASSUME RtcInv, Advance
    PROVE  RtcInv'
<1>0. RtcTypeOK
  BY DEF RtcInv
<1>1. /\ rtc' \in Registers
      /\ rtc'.date = rtc.date /\ rtc'.century = rtc.century
      /\ rtc'.mode = rtc.mode /\ rtc'.open = rtc.open
  BY <1>0, AdvanceTo
<1>2. ReadersShape' /\ \A p \in Readers : Kept(rd[p], rd'[p], {"lag"})
  BY LagSteps DEF Advance, RtcInv
<1>7. \A p \in Readers : rd'[p].at = rd[p].at /\ rd'[p].call = rd[p].call
  BY <1>2 DEF Kept, ReaderFields
<1>3. UNCHANGED <<setup, today, midnights>> /\ setup = "done"
  BY DEF Advance
<1>4. Shown' = Shown
  BY <1>1 DEF Shown
<1>5. RtcTypeOK'
  BY <1>0, <1>1, <1>3, <1>7 DEF RtcTypeOK, Registers
<1>6. ShowsToday'
  BY <1>1, <1>3, <1>4 DEF RtcInv, ShowsToday
<1> QED BY <1>2, <1>3, <1>5, <1>6 DEF RtcInv

LEMMA MidnightHolds ==
    ASSUME RtcInv, Midnight
    PROVE  \E ny \in Nat, nm \in 1 .. 12, nd \in 1 .. 31, k \in Nat :
              /\ MidnightTo(Shown, rtc.date.month, rtc.date.day, ny, nm, nd)
              /\ IsDay(ny, nm, nd)
              /\ k = today + 1 /\ DaysSince1970(ny, nm, nd) = k
              /\ Holds(rtc', ny, nm, nd, k, <<0, 0, 0>>)
<1>0. RtcTypeOK /\ ShowsToday
  BY DEF Midnight, RtcInv
<1>1. /\ midnights < MaxDays /\ midnights \in 0 .. MaxDays /\ MaxDays \in Nat
      /\ today \in Nat
  BY <1>0, ShowsIsDay DEF Midnight, RtcTypeOK
<1>2. PICK y \in Nat : y = Shown
  BY <1>0, FieldsAre
<1>3. PICK m \in 1 .. 12 : m = rtc.date.month
  BY <1>0, FieldsAre
<1>4. PICK d \in 1 .. MonthDays(y)[m] : d = rtc.date.day
  BY <1>0, <1>2, <1>3 DEF ShowsToday
<1>5. /\ y >= 1970 /\ today + (MaxDays - midnights) <= LastDay
      /\ today = DaysSince1970(y, m, d) /\ rtc.date.week = (today + 4) % 7
      /\ rtc.mode = "running" /\ rtc.open
  BY <1>0, <1>2, <1>3, <1>4 DEF ShowsToday
<1>6. rtc.open = TRUE
  BY <1>0, <1>5 DEF RtcTypeOK
<1>7. DaysSince1970(y, m, d) + 1 <= LastDay
  BY <1>1, <1>5, LastDayIs
<1>8. PICK ny, nm, nd :
          /\ MidnightTo(y, m, d, ny, nm, nd)
          /\ rtc' = Chip(Dated(ny % 100, nm, nd, (rtc.date.week + 1) % 7),
                         ny \div 100, <<0, 0, 0>>, rtc.mode, rtc.open)
  BY <1>0, <1>2, <1>3, <1>4, MidnightIs
<1>9. /\ IsDay(ny, nm, nd)
      /\ DaysSince1970(ny, nm, nd) = today + 1
  BY <1>5, <1>7, <1>8, NextDay
<1>10. ny \in Nat /\ ny < 3200 /\ nm \in 1 .. 12 /\ nd \in 1 .. 31
       /\ <<0, 0, 0>> \in Moments
  BY <1>9, DayRange, RtcAssumption DEF IsDay
<1>11. PICK k \in Nat : k = today + 1
  BY <1>1
<1>12. (rtc.date.week + 1) % 7 = (k + 4) % 7
  <2>1. PICK n \in Nat : n = today
    BY <1>1
  <2>2. (((n + 4) % 7) + 1) % 7 = ((n + 1) + 4) % 7
    OBVIOUS
  <2> QED BY <2>1, <2>2, <1>5, <1>11
<1>13. SetTo(rtc', ny, nm, nd, k, <<0, 0, 0>>)
  <2>1. PICK w : w = (rtc.date.week + 1) % 7
    OBVIOUS
  <2>2. PICK u, c : u = ny % 100 /\ c = ny \div 100
    OBVIOUS
  <2>3. PICK dt : dt = Dated(u, nm, nd, w)
    OBVIOUS
  <2>4. rtc' = Chip(dt, c, <<0, 0, 0>>, rtc.mode, rtc.open)
    BY <1>8, <2>1, <2>2, <2>3
  <2>5. rtc' = Chip(dt, c, <<0, 0, 0>>, "running", TRUE)
    BY <1>5, <1>6, <2>4
  <2> QED BY <1>12, <2>1, <2>2, <2>3, <2>5 DEF SetTo
<1>14. Holds(rtc', ny, nm, nd, k, <<0, 0, 0>>)
  BY <1>9, <1>10, <1>13, HoldsDay
<1>15. MidnightTo(Shown, rtc.date.month, rtc.date.day, ny, nm, nd)
       /\ DaysSince1970(ny, nm, nd) = k
  BY <1>2, <1>3, <1>4, <1>8, <1>9, <1>11
<1>16. PICK y2 \in Nat, m2 \in 1 .. 12, d2 \in 1 .. 31 : y2 = ny /\ m2 = nm /\ d2 = nd
  BY <1>10
<1>17. /\ MidnightTo(Shown, rtc.date.month, rtc.date.day, y2, m2, d2)
       /\ IsDay(y2, m2, d2)
       /\ k = today + 1 /\ DaysSince1970(y2, m2, d2) = k
       /\ Holds(rtc', y2, m2, d2, k, <<0, 0, 0>>)
  BY <1>9, <1>11, <1>14, <1>15, <1>16
<1> QED BY <1>17

LEMMA MidnightStep ==
    ASSUME RtcInv, Midnight
    PROVE  RtcInv'
<1>0. RtcTypeOK /\ ShowsToday /\ setup = "done"
  BY DEF Midnight, RtcInv
<1>1. PICK ny \in Nat, nm \in 1 .. 12, nd \in 1 .. 31, k \in Nat :
              /\ IsDay(ny, nm, nd)
              /\ k = today + 1 /\ DaysSince1970(ny, nm, nd) = k
              /\ Holds(rtc', ny, nm, nd, k, <<0, 0, 0>>)
  BY MidnightHolds
<1>2. /\ midnights < MaxDays /\ midnights \in 0 .. MaxDays /\ MaxDays \in Nat
      /\ today' = today + 1 /\ midnights' = midnights + 1 /\ UNCHANGED setup
      /\ today \in Nat
  BY <1>0, ShowsIsDay DEF Midnight, RtcTypeOK
<1>3. ReadersShape' /\ \A p \in Readers : Kept(rd[p], rd'[p], {"lag"})
  BY LagSteps DEF Midnight, RtcInv
<1>9. \A p \in Readers : rd'[p].at = rd[p].at /\ rd'[p].call = rd[p].call
  BY <1>3 DEF Kept, ReaderFields
<1>4. today + (MaxDays - midnights) <= LastDay
  BY <1>0 DEF ShowsToday
<1>5. midnights + 1 \in 0 .. MaxDays /\ k + (MaxDays - (midnights + 1)) <= LastDay
      /\ today + 1 \in Nat
  BY <1>1, <1>2, <1>4, LastDayIs
<1>6. nd \in 1 .. MonthDays(ny)[nm] /\ <<0, 0, 0>> \in Moments
  BY <1>1, RtcAssumption DEF IsDay
<1>7. ShowsToday' /\ rtc' \in Registers
  BY <1>1, <1>2, <1>5, <1>6, HoldsShows
<1>8. RtcTypeOK'
  BY <1>0, <1>2, <1>5, <1>7, <1>9 DEF RtcTypeOK, Registers
<1> QED BY <1>0, <1>2, <1>3, <1>7, <1>8 DEF RtcInv

ReadAts == {"idle", "time", "extended", "store", "copy", "got", "answered"}

LEMMA ReaderTyped ==
    ASSUME RtcInv, NEW p \in Readers, ReadStep(p)
    PROVE  /\ UNCHANGED <<rtc, setup, today, midnights>> /\ setup = "done"
           /\ ReadersShape' /\ Others(p)
           /\ rd'[p].at \in ReadAts /\ rd'[p].call \in DOMAIN CopyOrder
<1>1. /\ ReadersShape /\ rd[p].call \in DOMAIN CopyOrder
      /\ setup # "done" => rd[p].at = "idle"
  BY DEF RtcInv, RtcTypeOK
<1>2. CASE \E c \in DOMAIN CopyOrder : ReadDate(p, c)
  <2>1. PICK c \in DOMAIN CopyOrder : ReadDate(p, c)
    BY <1>2
  <2>2. UNCHANGED <<rtc, setup, today, midnights>> /\ setup = "done"
    BY <2>1 DEF ReadDate
  <2> QED BY <1>1, <2>1, <2>2, DateFields DEF ReadAts
<1>3. CASE ReadTime(p)
  <2>1. UNCHANGED <<rtc, setup, today, midnights>> /\ setup = "done"
    BY <1>1, <1>3 DEF ReadTime
  <2> QED BY <1>1, <1>3, <2>1, TimeFields DEF ReadAts, Kept, ReaderFields
<1>4. CASE ReadExtended(p)
  <2>1. UNCHANGED <<rtc, setup, today, midnights>> /\ setup = "done"
    BY <1>1, <1>4 DEF ReadExtended
  <2> QED BY <1>1, <1>4, <2>1, CenturyFields DEF ReadAts, Kept, ReaderFields
<1>7. CASE CurrentTimeSpec(p) \/ getTimeVal(p)
  <2>1. UNCHANGED <<rtc, setup, today, midnights>> /\ setup = "done"
    BY <1>1, <1>7 DEF CurrentTimeSpec, getTimeVal, Reply
  <2>2. PICK ts : Reply(p, ts)
    BY <1>7 DEF CurrentTimeSpec, getTimeVal
  <2> QED BY <1>1, <2>1, <2>2, ReplyFields DEF ReadAts
<1>8. CASE ReadDone(p)
  <2>1. UNCHANGED <<rtc, setup, today, midnights>> /\ setup = "done"
    BY <1>1, <1>8 DEF ReadDone
  <2> QED BY <1>1, <1>8, <2>1, DoneFields, IdleShape DEF ReadAts, CopyOrder
<1>5. CASE StoreField(p)
  <2>1. UNCHANGED <<rtc, setup, today, midnights>> /\ setup = "done"
    BY <1>1, <1>5 DEF StoreField
  <2> QED BY <1>1, <1>5, <2>1, StoreFields DEF ReadAts, Kept, ReaderFields
<1>6. CASE CopyField(p)
  <2>1. UNCHANGED <<rtc, setup, today, midnights>> /\ setup = "done"
    BY <1>1, <1>6 DEF CopyField
  <2>2. /\ ReadersShape' /\ Others(p) /\ Kept(rd[p], rd'[p], CopyChanges)
        /\ rd'[p].at = IF rd[p].next = Len(CopyOrder[rd[p].call]) THEN "got" ELSE "copy"
    BY <1>1, <1>6, CopyFields
  <2>3. rd'[p].call = rd[p].call
    BY <2>2 DEF Kept, ReaderFields, CopyChanges
  <2> QED BY <1>1, <2>1, <2>2, <2>3 DEF ReadAts
<1> QED BY <1>2, <1>3, <1>4, <1>5, <1>6, <1>7, <1>8 DEF ReadStep

LEMMA RtcInvStep == RtcInv /\ [RtcNext]_rtcVars => RtcInv'
<1> SUFFICES ASSUME RtcInv, [RtcNext]_rtcVars PROVE RtcInv'
  OBVIOUS
<1>1. CASE UNCHANGED rtcVars
  BY <1>1 DEF rtcVars, RtcInv, RtcTypeOK, ShowsToday, Shown, ReadersShape, Shape
<1>2. ASSUME NEW p \in Readers, ReadStep(p) PROVE RtcInv'
  <2>1. /\ UNCHANGED <<rtc, setup, today, midnights>> /\ setup = "done"
        /\ ReadersShape' /\ Others(p)
        /\ rd'[p].at \in ReadAts /\ rd'[p].call \in DOMAIN CopyOrder
    BY <1>2, ReaderTyped
  <2>2. RtcTypeOK'
    BY <2>1 DEF RtcInv, RtcTypeOK, Others, ReadAts
  <2> QED BY <2>1, <2>2 DEF RtcInv, ShowsToday, Shown
<1> QED BY <1>1, <1>2, InitStep, SetStep, AdvanceStep, MidnightStep DEF RtcNext

(* The calendar agrees with itself and with the chip on every day: the      *)
(* chip runs from the moment clock::init has set it, and stays in the       *)
(* range of years in which the registers can hold the date.                 *)
THEOREM CalendarCorrect == RtcSpec => []CalendarAgrees
<1>1. RtcSpec => []RtcInv
  BY RtcInitInv, RtcInvStep, PTL DEF RtcSpec
<1> QED BY <1>1, CalendarByInv, PTL

-----------------------------------------------------------------------------
(* The readers of the clock.                                                *)

DayRead(date) == mktime_Days(FullYear(date, rtc.century), date.month, date.day)

Finishing == {"store", "copy", "got", "answered"}

\* What the call answers, once its three registers are read.
Result(p) ==
    IF rd[p].at = "answered" THEN rd[p].ts
    ELSE <<mktime_Days(FullYear(rd[p].date, rd[p].century), rd[p].date.month, rd[p].date.day),
           Seconds(rd[p].time)>>

\* At most one midnight has passed, and since then the chip has shown each
\* moment up to the present one.
LessThanADay(p) ==
    /\ rd[p].lag \in Nat /\ rd[p].began[1] \in Nat /\ rd[p].began[2] \in Nat
    /\ \/ today = rd[p].began[1]
       \/ /\ today = rd[p].began[1] + 1
          /\ rd[p].lag + Cardinality(Later) >= Cardinality(Moments)

\* While the day on which the read began lasts, the registers read agree.
SameDay(p) ==
    /\ rd[p].began[2] <= Seconds(rtc.time)
    /\ rd[p].at \in {"time", "extended"} => rd[p].date = rtc.date
    /\ rd[p].at = "extended" => /\ rd[p].began[2] <= Seconds(rd[p].time)
                                /\ Seconds(rd[p].time) <= Seconds(rtc.time)
    /\ rd[p].at \in Finishing => /\ Result(p)[2] \in Nat
                                 /\ rd[p].began[2] <= Result(p)[2]
                                 /\ Result(p)[2] <= Seconds(rtc.time)
                                 /\ Result(p)[1] = rd[p].began[1]

\* Afterwards the date read is still the day before, read with the century.
DayBefore(p) ==
    /\ rd[p].at \in {"time", "extended"} => DayRead(rd[p].date) = rd[p].began[1]
    /\ rd[p].at \in Finishing => Result(p)[1] = rd[p].began[1]

ReaderInv(p) ==
    rd[p].at # "idle" =>
        /\ setup = "done"
        /\ LessThanADay(p)
        /\ rd[p].call = "CurrentTimeSpec" =>
               /\ today = rd[p].began[1] => SameDay(p)
               /\ NewCentury \/ DayBefore(p)

\* What is read is in the range of its register, and the loops in theirs.
Dates == [year : 0 .. 99, month : 1 .. 12, day : 1 .. 31, week : 0 .. 6]

RangeInv(p) ==
    /\ rd[p].date \in Dates /\ rd[p].time \in Moments /\ rd[p].century \in 0 .. 31
    /\ rd[p].next \in 1 .. 7
    /\ rd[p].at \in {"time", "extended"} => rd[p].next = 1
    /\ rd[p].at = "copy" => rd[p].next <= Len(CopyOrder[rd[p].call])

\* Nobody else stores in the struct while a read is under way: the fields
\* stored are the reader's own, and so are those that CurrentTimeSpec copies.
Copied == CopyOrder["CurrentTimeSpec"]
Clock == TmNames \ {"yday"}

StructInv(p) ==
    /\ rd[p].at = "store" => \A i \in 1 .. 6 :
          i < rd[p].next => tm[StoreOrder[i]] = Broken(rd[p])[StoreOrder[i]]
    /\ rd[p].at = "copy" => \A f \in Clock : tm[f] = Broken(rd[p])[f]
    /\ rd[p].at = "copy" /\ rd[p].call = "CurrentTimeSpec" => \A i \in 1 .. 6 :
          i < rd[p].next => rd[p].got[Copied[i]] = Broken(rd[p])[Copied[i]]
    /\ rd[p].at = "got" /\ rd[p].call = "CurrentTimeSpec" =>
          \A f \in Clock : rd[p].got[f] = Broken(rd[p])[f]

Alone == \A p, q \in Readers : Reading(p) /\ Reading(q) => p = q

OwnInv(p) == RangeInv(p) /\ StructInv(p) /\ ReaderInv(p)

ReadersInv == Alone /\ \A p \in Readers : OwnInv(p)

LEMMA DayReadToday ==
    ASSUME RtcInv, setup = "done"
    PROVE  DayRead(rtc.date) = today
<1>1. CalendarAgrees
  BY CalendarByInv
<1> QED BY <1>1 DEF CalendarAgrees, DayRead

LEMMA SaneByInv ==
    ASSUME RtcInv, ReadersInv
    PROVE  TimeReadSane
<1> SUFFICES ASSUME NEW p \in Readers, rd[p].at = "answered",
                    rd[p].call = "CurrentTimeSpec", ~NewCentury
    PROVE  /\ Before(rd[p].ts, Now)
           /\ rd[p].ts[1] = rd[p].began[1]
           /\ today = rd[p].began[1] => Before(rd[p].began, rd[p].ts)
  BY DEF TimeReadSane
<1>1. LessThanADay(p) /\ (today = rd[p].began[1] => SameDay(p)) /\ DayBefore(p)
  BY DEF ReadersInv, OwnInv, ReaderInv
<1>2. Result(p) = rd[p].ts /\ rd[p].at \in Finishing
  BY DEF Result, Finishing
<1>6. rd[p].ts[1] = rd[p].began[1]
  BY <1>1, <1>2 DEF DayBefore
<1>3. Now[1] = today /\ Now[2] = Seconds(rtc.time)
  BY DEF Now
<1>4. CASE today = rd[p].began[1]
  <2>1. rd[p].began[2] <= rd[p].ts[2] /\ rd[p].ts[2] <= Seconds(rtc.time)
    BY <1>1, <1>2, <1>4 DEF SameDay
  <2> QED BY <1>3, <1>4, <1>6, <2>1 DEF Before
<1>5. CASE today = rd[p].began[1] + 1
  <2>1. rd[p].began[1] \in Nat
    BY <1>1 DEF LessThanADay
  <2> QED BY <1>3, <1>5, <1>6, <2>1 DEF Before
<1> QED BY <1>1, <1>4, <1>5 DEF LessThanADay

LEMMA MomentsFinite == IsFiniteSet(Moments)
<1> DEFINE H == 0 .. 23
           M == 0 .. 59
           S == H \X (M \X M)
           T == H \X M \X M
           f == [x \in S |-> <<x[1], x[2][1], x[2][2]>>]
<1>0. ASSUME NEW k \in Int PROVE IsFiniteSet(0 .. k)
  <2>1. PICK z \in Int : z = 0
    OBVIOUS
  <2>2. IsFiniteSet(z .. k)
    BY FS_Interval
  <2> QED BY <2>1, <2>2
<1>1. IsFiniteSet(H)
  <2>1. PICK k \in Int : k = 23
    OBVIOUS
  <2>2. IsFiniteSet(0 .. k)
    BY <1>0
  <2> QED BY <2>1, <2>2
<1>2. IsFiniteSet(M)
  <2>1. PICK k \in Int : k = 59
    OBVIOUS
  <2>2. IsFiniteSet(0 .. k)
    BY <1>0
  <2> QED BY <2>1, <2>2
<1>3. IsFiniteSet(S)
  <2> HIDE DEF H, M
  <2>1. IsFiniteSet(M \X M)
    BY <1>2, FS_Product
  <2> QED BY <1>1, <2>1, FS_Product
<1>4. f \in Surjection(S, T)
  <2>1. \A x \in T : <<x[1], <<x[2], x[3]>>>> \in S /\ f[<<x[1], <<x[2], x[3]>>>>] = x
    OBVIOUS
  <2>2. f \in [S -> T]
    OBVIOUS
  <2> QED BY <2>1, <2>2 DEF Surjection
<1> HIDE DEF H, M, S, T, f
<1>5. IsFiniteSet(T)
  BY <1>3, <1>4, FS_Surjection
<1> QED BY <1>5, FS_Subset, RtcAssumption DEF T, H, M

\* The moments still to come, after each step of the chip.
LEMMA LaterFinite == IsFiniteSet(Later) /\ Cardinality(Later) \in Nat
<1>1. Later \subseteq Moments
  BY DEF Later
<1> QED BY <1>1, MomentsFinite, FS_Subset, FS_CardinalityType

LEMMA LaterShrinks ==
    ASSUME NEW t \in Later, RtcTypeOK, \A u \in Later : Seconds(t) <= Seconds(u),
           rtc'.time = t
    PROVE  /\ IsFiniteSet(Later') /\ Cardinality(Later') \in Nat
           /\ Cardinality(Later') + 1 >= Cardinality(Later)
<1>0. t \in Moments /\ rtc.time \in Moments
  BY FieldsAre DEF Later
<1> DEFINE L == {u \in Moments : Seconds(u) > Seconds(t)}
<1>1. Later' = L
  BY DEF Later
<1>2. Later \subseteq L \cup {t}
  <2> SUFFICES ASSUME NEW u \in Later, u # t PROVE u \in L
    OBVIOUS
  <2>1. u \in Moments /\ Seconds(t) <= Seconds(u)
    BY DEF Later
  <2>2. Seconds(t) \in Nat /\ Seconds(u) \in Nat /\ Seconds(t) # Seconds(u)
    BY <1>0, <2>1, SecondsAre
  <2> QED BY <2>1, <2>2
<1>3. IsFiniteSet(L)
  BY MomentsFinite, FS_Subset
<1>4. t \notin L
  BY <1>0, SecondsAre
<1> HIDE DEF L
<1>5. IsFiniteSet(L \cup {t}) /\ Cardinality(L \cup {t}) = Cardinality(L) + 1
  BY <1>3, <1>4, FS_AddElement
<1>6. Cardinality(Later) <= Cardinality(L \cup {t})
  BY <1>2, <1>5, FS_Subset
<1>7. Cardinality(L) \in Nat
  BY <1>3, FS_CardinalityType
<1> QED BY <1>1, <1>3, <1>5, <1>6, <1>7, LaterFinite

LEMMA LaterAtMidnight ==
    ASSUME rtc'.time = <<0, 0, 0>>
    PROVE  /\ IsFiniteSet(Later') /\ Cardinality(Later') \in Nat
           /\ Cardinality(Later') + 1 >= Cardinality(Moments)
<1> DEFINE z == <<0, 0, 0>>
           L == {u \in Moments : Seconds(u) > Seconds(z)}
<1>0. z \in Moments
  BY RtcAssumption
<1>1. Later' = L
  BY DEF Later
<1>2. Moments \subseteq L \cup {z}
  <2> SUFFICES ASSUME NEW u \in Moments, u # z PROVE u \in L
    OBVIOUS
  <2>1. Seconds(z) = 0
    BY DEF Seconds
  <2>2. Seconds(u) \in Nat /\ Seconds(u) # 0
    BY <1>0, <2>1, SecondsAre
  <2> QED BY <2>1, <2>2
<1>3. IsFiniteSet(L)
  BY MomentsFinite, FS_Subset
<1>4. z \notin L
  BY DEF Seconds
<1> HIDE DEF L, z
<1>5. IsFiniteSet(L \cup {z}) /\ Cardinality(L \cup {z}) = Cardinality(L) + 1
  BY <1>3, <1>4, FS_AddElement
<1>6. Cardinality(Moments) <= Cardinality(L \cup {z})
  BY <1>2, <1>5, FS_Subset
<1>7. Cardinality(L) \in Nat /\ Cardinality(Moments) \in Nat
  BY <1>3, MomentsFinite, FS_CardinalityType
<1> QED BY <1>1, <1>3, <1>5, <1>6, <1>7

\* The hundreds of the year are the century, and a new century begins on
\* the first of January.
LEMMA CenturyChanges ==
    ASSUME NEW y \in Nat, NEW m, NEW d, NEW ny \in Nat, NEW nm, NEW nd,
           MidnightTo(y, m, d, ny, nm, nd), ny \div 100 # y \div 100
    PROVE  ny % 100 = 0 /\ nm = 1 /\ nd = 1
<1>1. /\ ny = IF d = MonthDays(y)[m] /\ m = 12 THEN y + 1 ELSE y
      /\ nm = IF d # MonthDays(y)[m] THEN m ELSE IF m = 12 THEN 1 ELSE m + 1
      /\ nd = IF d = MonthDays(y)[m] THEN 1 ELSE d + 1
  BY DEF MidnightTo
<1>2. d = MonthDays(y)[m] /\ m = 12 /\ ny = y + 1
  BY <1>1
<1>3. nm = 1 /\ nd = 1
  BY <1>1, <1>2
<1>4. \A z \in Nat : (z + 1) \div 100 # z \div 100 => (z + 1) % 100 = 0
  OBVIOUS
<1> QED BY <1>2, <1>3, <1>4

LEMMA CenturyNow ==
    ASSUME RtcTypeOK
    PROVE  rtc.century = Shown \div 100
<1>1. PICK y \in 0 .. 99 : y = rtc.date.year
  BY FieldsAre
<1>2. PICK c \in 0 .. 31 : c = rtc.century
  BY FieldsAre
<1>3. Shown = y + c * 100
  BY <1>1, <1>2, FieldsAre
<1>4. (y + c * 100) \div 100 = c
  OBVIOUS
<1> QED BY <1>2, <1>3, <1>4


\* The orders in which the fields are stored and copied.
LEMMA OrdersAre ==
    /\ \A i \in 1 .. 7 : StoreOrder[i] \in TmNames
    /\ \A i \in 1 .. 7 : StoreOrder[i] = "yday" => i = 7
    /\ StoreOrder[7] = "yday"
    /\ \A i, j \in 1 .. 7 : StoreOrder[i] = StoreOrder[j] => i = j
    /\ \A f \in Clock : \E i \in 1 .. 6 : StoreOrder[i] = f
    /\ \A i \in 1 .. 6 : Copied[i] \in Clock
    /\ \A i, j \in 1 .. 6 : Copied[i] = Copied[j] => i = j
    /\ \A f \in Clock : \E i \in 1 .. 6 : Copied[i] = f
    /\ Len(Copied) = 6 /\ Len(CopyOrder["getTimeVal"]) = 4
    /\ DOMAIN CopyOrder = {"CurrentTimeSpec", "getTimeVal"}
<1>1. /\ StoreOrder[1] = "sec" /\ StoreOrder[2] = "min" /\ StoreOrder[3] = "hour"
      /\ StoreOrder[4] = "mday" /\ StoreOrder[5] = "mon" /\ StoreOrder[6] = "year"
      /\ StoreOrder[7] = "yday"
  BY DEF StoreOrder
<1>2. Copied = <<"year", "mon", "mday", "hour", "min", "sec">>
  BY DEF Copied, CopyOrder
<1>3. /\ Copied[1] = "year" /\ Copied[2] = "mon" /\ Copied[3] = "mday"
      /\ Copied[4] = "hour" /\ Copied[5] = "min" /\ Copied[6] = "sec"
      /\ Len(Copied) = 6
  BY <1>2
<1>4. CopyOrder["getTimeVal"] = <<"year", "yday", "hour", "sec">>
      /\ DOMAIN CopyOrder = {"CurrentTimeSpec", "getTimeVal"}
  BY DEF CopyOrder
<1>5. Len(CopyOrder["getTimeVal"]) = 4
  BY <1>4
<1>6. /\ \A i \in 1 .. 7 : StoreOrder[i] \in TmNames
      /\ \A i \in 1 .. 7 : StoreOrder[i] = "yday" => i = 7
  BY <1>1 DEF TmNames
<1>7. \A i, j \in 1 .. 7 : StoreOrder[i] = StoreOrder[j] => i = j
  BY <1>1
<1>8. \A f \in Clock : \E i \in 1 .. 6 : StoreOrder[i] = f
  <2>1. \A i \in 1 .. 6 : i \in {1, 2, 3, 4, 5, 6}
    OBVIOUS
  <2> SUFFICES ASSUME NEW f \in {"sec", "min", "hour", "mday", "mon", "year"}
      PROVE  \E i \in 1 .. 6 : StoreOrder[i] = f
    BY DEF Clock, TmNames
  <2> QED BY <1>1
<1>9. \A i \in 1 .. 6 : Copied[i] \in Clock
  BY <1>3 DEF Clock, TmNames
<1>10. \A i, j \in 1 .. 6 : Copied[i] = Copied[j] => i = j
  BY <1>3
<1>11. \A f \in Clock : \E i \in 1 .. 6 : Copied[i] = f
  <2> SUFFICES ASSUME NEW f \in {"sec", "min", "hour", "mday", "mon", "year"}
      PROVE  \E i \in 1 .. 6 : Copied[i] = f
    BY DEF Clock, TmNames
  <2> QED BY <1>3
<1> QED BY <1>1, <1>3, <1>4, <1>5, <1>6, <1>7, <1>8, <1>9, <1>10, <1>11

\* The fields of the struct say what the registers say.
LEMMA BrokenIs ==
    ASSUME NEW r, r.date \in Dates, r.time \in Moments
    PROVE  /\ Broken(r)["sec"] = r.time[3] /\ Broken(r)["min"] = r.time[2]
           /\ Broken(r)["hour"] = r.time[1] /\ Broken(r)["mday"] = r.date.day
           /\ Broken(r)["mon"] + 1 = r.date.month
           /\ FullYear(r.date, r.century) \in Int =>
                  Broken(r)["year"] + 1900 = FullYear(r.date, r.century)
<1>1. /\ r.date.month \in 1 .. 12 /\ r.date.day \in 1 .. 31
  BY DEF Dates
<1>2. r.time[1] \in 0 .. 23 /\ r.time[2] \in 0 .. 59 /\ r.time[3] \in 0 .. 59
  BY RtcAssumption
<1> PICK h \in 0 .. 23, m \in 0 .. 59, s \in 0 .. 59 :
        h = r.time[1] /\ m = r.time[2] /\ s = r.time[3]
  BY <1>2
<1> PICK mo \in 1 .. 12, d \in 1 .. 31 : mo = r.date.month /\ d = r.date.day
  BY <1>1
<1> PICK y : y = FullYear(r.date, r.century)
  OBVIOUS
<1>3. s % 61 = s /\ m % 60 = m /\ h % 24 = h /\ d % 32 = d /\ ((mo - 1) % 12) + 1 = mo
  <2>1. mo - 1 \in 0 .. 11
    OBVIOUS
  <2>2. (mo - 1) % 12 = mo - 1
    BY <2>1
  <2>3. ((mo - 1) % 12) + 1 = mo
    BY <2>2
  <2>4. s % 61 = s /\ m % 60 = m
    OBVIOUS
  <2>5. h % 24 = h /\ d % 32 = d
    OBVIOUS
  <2> QED BY <2>3, <2>4, <2>5
<1>5. ASSUME y \in Int PROVE (y - 1900) + 1900 = y
  BY <1>5
<1>4. /\ Broken(r)["sec"] = s % 61 /\ Broken(r)["min"] = m % 60
      /\ Broken(r)["hour"] = h % 24 /\ Broken(r)["mday"] = d % 32
      /\ Broken(r)["mon"] = (mo - 1) % 12 /\ Broken(r)["year"] = y - 1900
  BY DEF Broken
<1> QED BY <1>3, <1>4, <1>5

LEMMA BrokenSame ==
    ASSUME NEW r, NEW s, s.date = r.date, s.time = r.time, s.century = r.century
    PROVE  Broken(s) = Broken(r)
  BY DEF Broken

\* Between its steps a reader keeps all it knows, however the chip moves on.
LEMMA LagIs ==
    ASSUME ReadersShape, rd' = Lagged, UNCHANGED tm, NEW p \in Readers,
           RangeInv(p), StructInv(p)
    PROVE  /\ RangeInv(p)' /\ StructInv(p)' /\ Result(p)' = Result(p)
           /\ rd'[p].at = rd[p].at /\ rd'[p].call = rd[p].call
           /\ rd'[p].began = rd[p].began /\ rd'[p].date = rd[p].date
           /\ rd'[p].time = rd[p].time
           /\ rd[p].at # "idle" => rd'[p].lag = rd[p].lag + 1
<1>1. Kept(rd[p], rd'[p], {"lag"}) /\ (rd[p].at # "idle" => rd'[p].lag = rd[p].lag + 1)
  BY LagSteps
<1>2. /\ rd'[p].at = rd[p].at /\ rd'[p].call = rd[p].call /\ rd'[p].began = rd[p].began
      /\ rd'[p].date = rd[p].date /\ rd'[p].time = rd[p].time
      /\ rd'[p].century = rd[p].century /\ rd'[p].next = rd[p].next
      /\ rd'[p].got = rd[p].got /\ rd'[p].ts = rd[p].ts
  BY <1>1 DEF Kept, ReaderFields
<1>3. Broken(rd[p])' = Broken(rd[p])
  BY <1>2 DEF Broken
<1>4. RangeInv(p)'
  BY <1>2 DEF RangeInv
<1>5. StructInv(p)'
  BY <1>2, <1>3 DEF StructInv
<1>6. Result(p)' = Result(p)
  BY <1>2 DEF Result
<1> QED BY <1>1, <1>2, <1>4, <1>5, <1>6

LEMMA ReadAdvance ==
    ASSUME RtcInv, Advance, NEW p \in Readers, OwnInv(p)
    PROVE  OwnInv(p)'
<1>0. RtcTypeOK /\ ReadersShape /\ RangeInv(p) /\ StructInv(p) /\ ReaderInv(p)
  BY DEF RtcInv, OwnInv
<1>2. /\ rd' = Lagged /\ UNCHANGED <<setup, today, tm>>
  BY DEF Advance
<1>3. /\ RangeInv(p)' /\ StructInv(p)' /\ Result(p)' = Result(p)
      /\ rd'[p].at = rd[p].at /\ rd'[p].call = rd[p].call
      /\ rd'[p].began = rd[p].began /\ rd'[p].date = rd[p].date
      /\ rd'[p].time = rd[p].time
      /\ rd[p].at # "idle" => rd'[p].lag = rd[p].lag + 1
  BY <1>0, <1>2, LagIs
<1>s. SUFFICES ASSUME rd[p].at # "idle"
      PROVE  /\ setup' = "done" /\ LessThanADay(p)'
             /\ rd[p].call = "CurrentTimeSpec" =>
                    /\ today' = rd'[p].began[1] => SameDay(p)'
                    /\ NewCentury' \/ DayBefore(p)'
  BY <1>3 DEF OwnInv, ReaderInv
<1>a. /\ setup = "done" /\ LessThanADay(p)
      /\ rd[p].call = "CurrentTimeSpec" =>
             /\ today = rd[p].began[1] => SameDay(p)
             /\ NewCentury \/ DayBefore(p)
  BY <1>0, <1>s DEF ReaderInv
<1>1. PICK t \in Later :
          /\ \A u \in Later : Seconds(t) <= Seconds(u)
          /\ rtc'.time = t /\ rtc'.date = rtc.date /\ rtc'.century = rtc.century
  BY <1>0, AdvanceTo
<1>4. /\ Seconds(rtc'.time) \in Nat /\ Seconds(rtc.time) \in Nat
      /\ Seconds(rtc.time) < Seconds(rtc'.time)
  <2>1. t \in Moments /\ rtc.time \in Moments /\ Seconds(t) > Seconds(rtc.time)
    BY <1>0, FieldsAre DEF Later
  <2>2. Seconds(t) \in Nat /\ Seconds(rtc.time) \in Nat
    BY <2>1, SecondsAre
  <2> QED BY <1>1, <2>1, <2>2
<1>5. LessThanADay(p)'
  <2>1. /\ rd[p].lag \in Nat /\ rd[p].began[1] \in Nat /\ rd[p].began[2] \in Nat
        /\ \/ today = rd[p].began[1]
           \/ /\ today = rd[p].began[1] + 1
              /\ rd[p].lag + Cardinality(Later) >= Cardinality(Moments)
    BY <1>a DEF LessThanADay
  <2>2. /\ Cardinality(Later') \in Nat /\ Cardinality(Later) \in Nat
        /\ Cardinality(Moments) \in Nat
        /\ Cardinality(Later') + 1 >= Cardinality(Later)
    BY <1>0, <1>1, LaterShrinks, LaterFinite, MomentsFinite, FS_CardinalityType
  <2>3. rd'[p].lag \in Nat /\ rd'[p].began[1] \in Nat /\ rd'[p].began[2] \in Nat
    BY <1>3, <1>s, <2>1
  <2>4. CASE today = rd[p].began[1]
    BY <1>2, <1>3, <2>3, <2>4 DEF LessThanADay
  <2>5. CASE today = rd[p].began[1] + 1
             /\ rd[p].lag + Cardinality(Later) >= Cardinality(Moments)
    <3>1. rd'[p].lag + Cardinality(Later') >= Cardinality(Moments)
      BY <1>3, <1>s, <2>1, <2>2, <2>5
    <3> QED BY <1>2, <1>3, <2>3, <2>5, <3>1 DEF LessThanADay
  <2> QED BY <2>1, <2>4, <2>5
<1>6. ASSUME rd[p].call = "CurrentTimeSpec", today' = rd'[p].began[1] PROVE SameDay(p)'
  <2>1. SameDay(p)
    BY <1>2, <1>3, <1>6, <1>a
  <2>2. rd[p].began[2] \in Nat
    BY <1>a DEF LessThanADay
  <2>3. rd'[p].began[2] <= Seconds(rtc'.time)
    BY <1>3, <1>4, <2>1, <2>2 DEF SameDay
  <2>4. rd'[p].at \in {"time", "extended"} => rd'[p].date = rtc'.date
    BY <1>1, <1>3, <2>1 DEF SameDay
  <2>5. rd'[p].at = "extended" => /\ rd'[p].began[2] <= Seconds(rd'[p].time)
                                  /\ Seconds(rd'[p].time) <= Seconds(rtc'.time)
    <3>1. SUFFICES ASSUME rd[p].at = "extended"
          PROVE  /\ rd[p].began[2] <= Seconds(rd[p].time)
                 /\ Seconds(rd[p].time) <= Seconds(rtc'.time)
      BY <1>3
    <3>2. /\ rd[p].time \in Moments /\ rd[p].began[2] <= Seconds(rd[p].time)
          /\ Seconds(rd[p].time) <= Seconds(rtc.time)
      BY <1>0, <2>1, <3>1 DEF SameDay, RangeInv
    <3>3. Seconds(rd[p].time) \in Nat
      BY <3>2, SecondsAre
    <3> QED BY <1>4, <3>2, <3>3
  <2>6. rd'[p].at \in Finishing => /\ Result(p)'[2] \in Nat
                                   /\ rd'[p].began[2] <= Result(p)'[2]
                                   /\ Result(p)'[2] <= Seconds(rtc'.time)
                                   /\ Result(p)'[1] = rd'[p].began[1]
    <3>1. SUFFICES ASSUME rd[p].at \in Finishing
          PROVE  /\ Result(p)[2] \in Nat /\ rd[p].began[2] <= Result(p)[2]
                 /\ Result(p)[2] <= Seconds(rtc'.time)
                 /\ Result(p)[1] = rd[p].began[1]
      BY <1>3
    <3>2. /\ Result(p)[2] \in Nat /\ rd[p].began[2] <= Result(p)[2]
          /\ Result(p)[2] <= Seconds(rtc.time) /\ Result(p)[1] = rd[p].began[1]
      BY <2>1, <3>1 DEF SameDay
    <3> QED BY <1>4, <3>2
  <2> QED BY <2>3, <2>4, <2>5, <2>6 DEF SameDay
<1>7. NewCentury \/ DayBefore(p) => NewCentury' \/ DayBefore(p)'
  <2>1. NewCentury' = NewCentury
    BY <1>1 DEF NewCentury
  <2>3. DayBefore(p) => DayBefore(p)'
    <3>1. ASSUME rd[p].at \in {"time", "extended"}, DayRead(rd[p].date) = rd[p].began[1]
          PROVE  DayRead(rd[p].date)' = rd'[p].began[1]
      BY <1>1, <1>3, <3>1 DEF DayRead
    <3> QED BY <1>3, <3>1 DEF DayBefore
  <2> QED BY <2>1, <2>3
<1> QED BY <1>2, <1>5, <1>6, <1>7, <1>a

LEMMA ReadMidnight ==
    ASSUME RtcInv, Midnight, MaxLag <= Cardinality(Moments), NEW p \in Readers, OwnInv(p)
    PROVE  OwnInv(p)'
<1>0. /\ RtcTypeOK /\ ReadersShape /\ RangeInv(p) /\ StructInv(p) /\ ReaderInv(p)
      /\ MaxLag \in Nat /\ today \in Nat
  BY RtcAssumption DEF RtcInv, OwnInv, RtcTypeOK
<1>1. /\ rd' = Lagged /\ UNCHANGED <<setup, tm>> /\ today' = today + 1
      /\ Later = {} /\ InTime /\ rtc'.time = <<0, 0, 0>>
  <2>1. rtc'.time = <<0, 0, 0>>
    BY MidnightHolds DEF Holds
  <2> QED BY <2>1 DEF Midnight
<1>2. /\ RangeInv(p)' /\ StructInv(p)' /\ Result(p)' = Result(p)
      /\ rd'[p].at = rd[p].at /\ rd'[p].call = rd[p].call
      /\ rd'[p].began = rd[p].began /\ rd'[p].date = rd[p].date
      /\ rd'[p].time = rd[p].time
      /\ rd[p].at # "idle" => rd'[p].lag = rd[p].lag + 1
  BY <1>0, <1>1, LagIs
<1>s. SUFFICES ASSUME rd[p].at # "idle"
      PROVE  /\ setup' = "done" /\ LessThanADay(p)'
             /\ rd[p].call = "CurrentTimeSpec" =>
                    /\ today' = rd'[p].began[1] => SameDay(p)'
                    /\ NewCentury' \/ DayBefore(p)'
  BY <1>2 DEF OwnInv, ReaderInv
<1>a. /\ setup = "done" /\ LessThanADay(p) /\ rd[p].lag < MaxLag
      /\ rd[p].call = "CurrentTimeSpec" =>
             /\ today = rd[p].began[1] => SameDay(p)
             /\ NewCentury \/ DayBefore(p)
  BY <1>0, <1>1, <1>s DEF ReaderInv, InTime
<1>3. /\ rd[p].lag \in Nat /\ rd[p].began[1] \in Nat /\ rd[p].began[2] \in Nat
      /\ today = rd[p].began[1]
  <2>1. /\ rd[p].lag \in Nat /\ rd[p].began[1] \in Nat /\ rd[p].began[2] \in Nat
        /\ \/ today = rd[p].began[1]
           \/ /\ today = rd[p].began[1] + 1
              /\ rd[p].lag + Cardinality(Later) >= Cardinality(Moments)
    BY <1>a DEF LessThanADay
  <2>2. Cardinality(Later) = 0 /\ Cardinality(Moments) \in Nat
    BY <1>1, FS_EmptySet, MomentsFinite, FS_CardinalityType
  <2> QED BY <1>0, <1>a, <2>1, <2>2
<1>4. LessThanADay(p)'
  <2>1. Cardinality(Later') \in Nat /\ Cardinality(Later') + 1 >= Cardinality(Moments)
    BY <1>1, LaterAtMidnight
  <2>2. Cardinality(Moments) \in Nat
    BY MomentsFinite, FS_CardinalityType
  <2>3. rd'[p].lag + Cardinality(Later') >= Cardinality(Moments)
    BY <1>2, <1>3, <1>s, <2>1, <2>2
  <2>4. rd'[p].lag \in Nat /\ rd'[p].began = rd[p].began
    BY <1>2, <1>3, <1>s
  <2> QED BY <1>1, <1>3, <2>3, <2>4 DEF LessThanADay
<1>5. today' # rd'[p].began[1]
  BY <1>1, <1>2, <1>3
<1>7. ASSUME rd[p].call = "CurrentTimeSpec" PROVE NewCentury' \/ DayBefore(p)'
  <2>0. SameDay(p)
    BY <1>3, <1>7, <1>a
  <2>1. CASE rd[p].at \in Finishing
    <3>1. Result(p)'[1] = rd'[p].began[1] /\ rd'[p].at \notin {"time", "extended"}
      BY <1>2, <2>0, <2>1 DEF SameDay, Finishing
    <3> QED BY <3>1 DEF DayBefore
  <2>2. CASE rd[p].at \notin Finishing
    <3>1. rd[p].at \in {"time", "extended"}
      BY <1>0, <1>s, <2>2 DEF RtcTypeOK, Finishing
    <3>2. rd[p].date = rtc.date /\ rd'[p].date = rd[p].date /\ rd'[p].at = rd[p].at
      BY <1>2, <2>0, <3>1 DEF SameDay
    <3>3. DayRead(rtc.date) = today
      BY <1>a, DayReadToday
    <3>4. PICK ny \in Nat, nm \in 1 .. 12, nd \in 1 .. 31, k \in Nat :
              /\ MidnightTo(Shown, rtc.date.month, rtc.date.day, ny, nm, nd)
              /\ Holds(rtc', ny, nm, nd, k, <<0, 0, 0>>)
      BY MidnightHolds
    <3>5. /\ rtc'.century = ny \div 100 /\ rtc'.date.year = ny % 100
          /\ rtc'.date.month = nm /\ rtc'.date.day = nd
      BY <3>4 DEF Holds
    <3>6. CASE ny \div 100 = Shown \div 100
      <4>1. rtc'.century = rtc.century
        BY <1>0, <3>5, <3>6, CenturyNow
      <4>2. mktime_Days(FullYear(rd'[p].date, rtc'.century), rd'[p].date.month,
                        rd'[p].date.day) = rd'[p].began[1]
        BY <1>2, <1>3, <3>2, <3>3, <4>1 DEF DayRead
      <4>3. DayRead(rd[p].date)' = rd'[p].began[1]
        BY <4>2 DEF DayRead
      <4> QED BY <2>2, <3>2, <4>3 DEF DayBefore
    <3>7. CASE ny \div 100 # Shown \div 100
      <4>1. PICK y \in Nat : y = Shown
        BY <1>0, FieldsAre
      <4>2. MidnightTo(y, rtc.date.month, rtc.date.day, ny, nm, nd) /\ ny \div 100 # y \div 100
        BY <3>4, <3>7, <4>1
      <4>3. ny % 100 = 0 /\ nm = 1 /\ nd = 1
        BY <4>2, CenturyChanges
      <4> QED BY <3>5, <4>3 DEF NewCentury
    <3> QED BY <3>6, <3>7
  <2> QED BY <2>1, <2>2
<1> QED BY <1>1, <1>4, <1>5, <1>7, <1>a

\* The steps of a reader, for the reader itself.
LEMMA LaterSame ==
    ASSUME UNCHANGED <<rtc, setup, today>>
    PROVE  Later' = Later /\ NewCentury' = NewCentury /\ \A d : DayRead(d)' = DayRead(d)
  BY DEF Later, NewCentury, DayRead

LEMMA OwnDate ==
    ASSUME RtcInv, NEW p \in Readers, NEW c \in DOMAIN CopyOrder, ReadDate(p, c)
    PROVE  OwnInv(p)'
<1>0. /\ RtcTypeOK /\ ReadersShape /\ today \in Nat /\ setup = "done"
      /\ UNCHANGED <<rtc, setup, today>>
  BY DEF RtcInv, RtcTypeOK, ReadDate
<1>1. /\ rd'[p].at = "time" /\ rd'[p].call = c /\ rd'[p].lag = 0
      /\ rd'[p].began = Now /\ rd'[p].date = rtc.date /\ rd'[p].next = 1
      /\ rd'[p].time = Idle.time /\ rd'[p].century = Idle.century
  BY <1>0, DateFields
<1>2. /\ rtc.time \in Moments /\ Seconds(rtc.time) \in Nat /\ rtc.date \in Dates
      /\ <<0, 0, 0>> \in Moments
  BY <1>0, FieldsAre, SecondsAre, RtcAssumption DEF Dates
<1>3. Now[1] = today /\ Now[2] = Seconds(rtc.time)
  BY DEF Now
<1>4. RangeInv(p)'
  BY <1>1, <1>2, IdleShape DEF RangeInv
<1>5. StructInv(p)'
  BY <1>1 DEF StructInv
<1>6. LessThanADay(p)'
  BY <1>0, <1>1, <1>2, <1>3 DEF LessThanADay
<1>7. SameDay(p)'
  BY <1>0, <1>1, <1>2, <1>3 DEF SameDay, Finishing
<1>8. DayBefore(p)'
  <2>1. DayRead(rtc.date) = today
    BY <1>0, DayReadToday
  <2>2. DayRead(rd[p].date)' = today
    BY <1>0, <1>1, <2>1 DEF DayRead
  <2> QED BY <1>1, <1>3, <2>2 DEF DayBefore, Finishing
<1> QED BY <1>0, <1>4, <1>5, <1>6, <1>7, <1>8 DEF OwnInv, ReaderInv

LEMMA OwnTime ==
    ASSUME RtcInv, NEW p \in Readers, OwnInv(p), ReadTime(p)
    PROVE  OwnInv(p)'
<1>0. /\ RtcTypeOK /\ ReadersShape /\ rd[p].at = "time"
      /\ RangeInv(p) /\ StructInv(p) /\ ReaderInv(p)
      /\ UNCHANGED <<rtc, setup, today, midnights>>
  BY DEF RtcInv, OwnInv, ReadTime
<1>1. /\ Kept(rd[p], rd'[p], {"at", "time"})
      /\ rd'[p].at = "extended" /\ rd'[p].time = rtc.time
  BY <1>0, TimeFields
<1>2. /\ rd'[p].call = rd[p].call /\ rd'[p].lag = rd[p].lag /\ rd'[p].began = rd[p].began
      /\ rd'[p].date = rd[p].date /\ rd'[p].century = rd[p].century
      /\ rd'[p].next = rd[p].next
  BY <1>1 DEF Kept, ReaderFields
<1>3. rtc.time \in Moments /\ Seconds(rtc.time) \in Nat
  BY <1>0, FieldsAre, SecondsAre
<1>a. /\ setup = "done" /\ LessThanADay(p)
      /\ rd[p].call = "CurrentTimeSpec" =>
             /\ today = rd[p].began[1] => SameDay(p)
             /\ NewCentury \/ DayBefore(p)
  BY <1>0 DEF ReaderInv
<1>4. RangeInv(p)'
  BY <1>0, <1>1, <1>2, <1>3 DEF RangeInv
<1>5. StructInv(p)'
  BY <1>1 DEF StructInv
<1>6. LessThanADay(p)'
  BY <1>0, <1>2, <1>a, LaterSame DEF LessThanADay
<1>7. ASSUME rd[p].call = "CurrentTimeSpec", today = rd[p].began[1] PROVE SameDay(p)'
  <2>1. rd[p].began[2] <= Seconds(rtc.time) /\ rd[p].date = rtc.date
    BY <1>0, <1>7, <1>a DEF SameDay
  <2> QED BY <1>0, <1>1, <1>2, <1>3, <2>1 DEF SameDay, Finishing
<1>8. DayBefore(p) => DayBefore(p)'
  BY <1>0, <1>1, <1>2, LaterSame DEF DayBefore, DayRead, Finishing
<1>9. NewCentury' = NewCentury
  BY <1>0 DEF NewCentury
<1> QED BY <1>0, <1>2, <1>4, <1>5, <1>6, <1>7, <1>8, <1>9, <1>a DEF OwnInv, ReaderInv

LEMMA OwnCentury ==
    ASSUME RtcInv, NEW p \in Readers, OwnInv(p), ReadExtended(p)
    PROVE  OwnInv(p)'
<1>0. /\ RtcTypeOK /\ ReadersShape /\ rd[p].at = "extended"
      /\ RangeInv(p) /\ StructInv(p) /\ ReaderInv(p)
      /\ UNCHANGED <<rtc, setup, today, midnights>>
  BY DEF RtcInv, OwnInv, ReadExtended
<1>1. /\ Kept(rd[p], rd'[p], {"at", "century"})
      /\ rd'[p].at = "store" /\ rd'[p].century = rtc.century
  BY <1>0, CenturyFields
<1>2. /\ rd'[p].call = rd[p].call /\ rd'[p].lag = rd[p].lag /\ rd'[p].began = rd[p].began
      /\ rd'[p].date = rd[p].date /\ rd'[p].time = rd[p].time
      /\ rd'[p].next = rd[p].next
  BY <1>1 DEF Kept, ReaderFields
<1>3. rtc.century \in 0 .. 31
  BY <1>0, FieldsAre
<1>a. /\ setup = "done" /\ LessThanADay(p)
      /\ rd[p].call = "CurrentTimeSpec" =>
             /\ today = rd[p].began[1] => SameDay(p)
             /\ NewCentury \/ DayBefore(p)
  BY <1>0 DEF ReaderInv
<1>b. /\ rd[p].time \in Moments /\ Seconds(rd[p].time) \in Nat
      /\ rd[p].next = 1 /\ rd[p].at \notin Finishing
  BY <1>0, SecondsAre DEF RangeInv, Finishing
<1>c. Result(p)'[1] = DayRead(rd[p].date) /\ Result(p)'[2] = Seconds(rd[p].time)
  <2>1. Result(p)' = <<mktime_Days(FullYear(rd'[p].date, rd'[p].century), rd'[p].date.month,
                                   rd'[p].date.day), Seconds(rd'[p].time)>>
    BY <1>1 DEF Result
  <2> QED BY <1>1, <1>2, <2>1 DEF DayRead
<1>4. RangeInv(p)'
  BY <1>0, <1>1, <1>2, <1>3 DEF RangeInv
<1>5. StructInv(p)'
  BY <1>1, <1>2, <1>b DEF StructInv
<1>6. LessThanADay(p)'
  BY <1>0, <1>2, <1>a, LaterSame DEF LessThanADay
<1>7. ASSUME rd[p].call = "CurrentTimeSpec", today = rd[p].began[1] PROVE SameDay(p)'
  <2>1. /\ rd[p].began[2] <= Seconds(rtc.time) /\ rd[p].date = rtc.date
        /\ rd[p].began[2] <= Seconds(rd[p].time) /\ Seconds(rd[p].time) <= Seconds(rtc.time)
    BY <1>0, <1>7, <1>a DEF SameDay
  <2>2. DayRead(rd[p].date) = rd[p].began[1]
    BY <1>7, <1>a, <2>1, DayReadToday
  <2> QED BY <1>0, <1>1, <1>2, <1>b, <1>c, <2>1, <2>2 DEF SameDay
<1>8. DayBefore(p) => DayBefore(p)'
  BY <1>0, <1>1, <1>2, <1>c DEF DayBefore
<1>9. NewCentury' = NewCentury
  BY <1>0 DEF NewCentury
<1> QED BY <1>0, <1>2, <1>4, <1>5, <1>6, <1>7, <1>8, <1>9, <1>a DEF OwnInv, ReaderInv

\* The steps that only move the answer on.
LEMMA OwnOn ==
    ASSUME RtcInv, NEW p \in Readers, OwnInv(p), UNCHANGED <<rtc, setup, today, midnights>>,
           rd[p].at \in Finishing, rd'[p].at \in Finishing, rd'[p].call = rd[p].call,
           rd'[p].lag = rd[p].lag, rd'[p].began = rd[p].began,
           rd[p].call = "CurrentTimeSpec" => Result(p)' = Result(p)
    PROVE  ReaderInv(p)'
<1>0. ReaderInv(p) /\ rd[p].at # "idle"
  BY DEF OwnInv, Finishing
<1>a. /\ setup = "done" /\ LessThanADay(p)
      /\ rd[p].call = "CurrentTimeSpec" =>
             /\ today = rd[p].began[1] => SameDay(p)
             /\ NewCentury \/ DayBefore(p)
  BY <1>0 DEF ReaderInv
<1>6. LessThanADay(p)'
  BY <1>a, LaterSame DEF LessThanADay
<1>b. rd'[p].at \notin {"time", "extended"} /\ rd'[p].at # "extended"
  BY DEF Finishing
<1>7. ASSUME rd[p].call = "CurrentTimeSpec", today = rd[p].began[1] PROVE SameDay(p)'
  BY <1>7, <1>a, <1>b DEF SameDay
<1>8. ASSUME rd[p].call = "CurrentTimeSpec", DayBefore(p) PROVE DayBefore(p)'
  BY <1>8, <1>b DEF DayBefore
<1>9. NewCentury' = NewCentury
  BY DEF NewCentury
<1> QED BY <1>6, <1>7, <1>8, <1>9, <1>a DEF ReaderInv

LEMMA OwnStore ==
    ASSUME RtcInv, NEW p \in Readers, OwnInv(p), StoreField(p)
    PROVE  OwnInv(p)'
<1>0. /\ ReadersShape /\ rd[p].at = "store" /\ rd[p].next \in 1 .. 7
      /\ RangeInv(p) /\ StructInv(p) /\ rd[p].call \in DOMAIN CopyOrder
      /\ UNCHANGED <<rtc, setup, today, midnights>>
  BY DEF RtcInv, RtcTypeOK, OwnInv, RangeInv, StoreField
<1> PICK n \in 1 .. 7 : n = rd[p].next
  BY <1>0
<1>1. /\ Kept(rd[p], rd'[p], {"at", "next"})
      /\ IF n = 7 THEN rd'[p].at = "copy" /\ rd'[p].next = 1
                  ELSE rd'[p].at = "store" /\ rd'[p].next = n + 1
      /\ \A f \in TmNames : tm'[f] = IF f # StoreOrder[n] THEN tm[f]
                                     ELSE IF f = "yday" THEN tm'[f] ELSE Broken(rd[p])[f]
  BY <1>0, StoreFields
<1>2. /\ rd'[p].call = rd[p].call /\ rd'[p].lag = rd[p].lag /\ rd'[p].began = rd[p].began
      /\ rd'[p].date = rd[p].date /\ rd'[p].time = rd[p].time
      /\ rd'[p].century = rd[p].century /\ rd'[p].got = rd[p].got /\ rd'[p].ts = rd[p].ts
  BY <1>1 DEF Kept, ReaderFields
<1>3. rd'[p].at \in {"store", "copy"}
  BY <1>1
<1>4. Broken(rd[p])' = Broken(rd[p])
  BY <1>2 DEF Broken
<1>5. \A i \in 1 .. 6 : i < n => tm[StoreOrder[i]] = Broken(rd[p])[StoreOrder[i]]
  BY <1>0 DEF StructInv
<1>6. ASSUME NEW i \in 1 .. 6, i <= n
      PROVE  tm'[StoreOrder[i]] = Broken(rd[p])[StoreOrder[i]]
  <2>1. StoreOrder[i] \in TmNames /\ StoreOrder[i] # "yday"
        /\ (StoreOrder[i] = StoreOrder[n] => i = n)
    <3>1. i \in 1 .. 7 /\ i # 7
      OBVIOUS
    <3> QED BY <3>1, OrdersAre
  <2>2. CASE i = n
    BY <1>1, <2>1, <2>2
  <2>3. CASE i < n
    <3>1. StoreOrder[i] # StoreOrder[n]
      BY <2>1, <2>3
    <3>2. tm'[StoreOrder[i]] = tm[StoreOrder[i]]
      BY <1>1, <2>1, <3>1
    <3> QED BY <1>5, <2>3, <3>2
  <2> QED BY <1>6, <2>2, <2>3
<1>7. RangeInv(p)'
  <2>1. 1 <= Len(CopyOrder[rd[p].call])
    <3>1. PICK l \in {4, 6} : l = Len(CopyOrder[rd[p].call])
      BY <1>0, OrdersAre DEF Copied
    <3>2. 1 <= l
      OBVIOUS
    <3> QED BY <3>1, <3>2
  <2>2. n # 7 => n + 1 \in 1 .. 7
    OBVIOUS
  <2> QED BY <1>0, <1>1, <1>2, <1>3, <2>1, <2>2 DEF RangeInv
<1>8. StructInv(p)'
  <2>1. CASE n = 7
    <3>1. rd'[p].at = "copy" /\ rd'[p].next = 1
      BY <1>1, <2>1
    <3>2. \A f \in Clock : tm'[f] = Broken(rd[p])[f]
      BY <1>6, <2>1, OrdersAre
    <3> QED BY <1>4, <3>1, <3>2 DEF StructInv
  <2>2. CASE n # 7
    <3>1. rd'[p].at = "store" /\ rd'[p].next = n + 1
      BY <1>1, <2>2
    <3>2. \A i \in 1 .. 6 : i < n + 1 => tm'[StoreOrder[i]] = Broken(rd[p])[StoreOrder[i]]
      BY <1>6
    <3> QED BY <1>4, <3>1, <3>2 DEF StructInv
  <2> QED BY <2>1, <2>2
<1>9. Result(p)' = Result(p)
  BY <1>0, <1>2, <1>3 DEF Result
<1>10. ReaderInv(p)'
  BY <1>0, <1>2, <1>3, <1>9, OwnOn DEF Finishing
<1> QED BY <1>7, <1>8, <1>10 DEF OwnInv

LEMMA OwnCopy ==
    ASSUME RtcInv, NEW p \in Readers, OwnInv(p), CopyField(p)
    PROVE  OwnInv(p)'
<1>0. /\ ReadersShape /\ rd[p].at = "copy" /\ rd[p].call \in DOMAIN CopyOrder
      /\ RangeInv(p) /\ StructInv(p) /\ rd[p].next \in 1 .. 7
      /\ rd[p].next <= Len(CopyOrder[rd[p].call])
      /\ UNCHANGED <<rtc, setup, today, midnights, tm>>
  BY DEF RtcInv, RtcTypeOK, OwnInv, RangeInv, CopyField
<1> PICK n \in 1 .. 7 : n = rd[p].next
  BY <1>0
<1> PICK l \in {4, 6} : l = Len(CopyOrder[rd[p].call])
  BY <1>0, OrdersAre DEF Copied
<1>1. /\ Kept(rd[p], rd'[p], CopyChanges) /\ rd'[p].next = n + 1
      /\ rd'[p].at = IF n = l THEN "got" ELSE "copy"
      /\ \A f \in TmNames : rd'[p].got[f] = IF f = CopyOrder[rd[p].call][n]
                                            THEN tm[f] ELSE rd[p].got[f]
  BY <1>0, CopyFields
<1>2. /\ rd'[p].call = rd[p].call /\ rd'[p].lag = rd[p].lag /\ rd'[p].began = rd[p].began
      /\ rd'[p].date = rd[p].date /\ rd'[p].time = rd[p].time
      /\ rd'[p].century = rd[p].century /\ rd'[p].ts = rd[p].ts
  BY <1>1 DEF Kept, ReaderFields, CopyChanges
<1>3. rd'[p].at \in {"got", "copy"} /\ n <= l /\ n + 1 \in 1 .. 7
      /\ (rd'[p].at = "copy" => n + 1 <= l)
  <2>1. n <= l
    BY <1>0
  <2>2. n + 1 \in 1 .. 7 /\ (n # l => n + 1 <= l)
    <3>1. CASE l = 4
      BY <2>1, <3>1
    <3>2. CASE l = 6
      BY <2>1, <3>2
    <3> QED BY <3>1, <3>2
  <2>3. rd'[p].at = "copy" => n # l
    BY <1>1
  <2>4. rd'[p].at \in {"got", "copy"}
    BY <1>1
  <2> QED BY <2>1, <2>2, <2>3, <2>4
<1>4. Broken(rd[p])' = Broken(rd[p])
  BY <1>2 DEF Broken
<1>5. \A f \in Clock : tm[f] = Broken(rd[p])[f]
  BY <1>0 DEF StructInv
<1>6. ASSUME rd[p].call = "CurrentTimeSpec", NEW i \in 1 .. 6, i <= n
      PROVE  rd'[p].got[Copied[i]] = Broken(rd[p])[Copied[i]]
  <2>1. Copied[i] \in Clock /\ Copied[i] \in TmNames /\ n \in 1 .. 6
        /\ (Copied[i] = Copied[n] => i = n)
    <3>1. n \in 1 .. 6
      BY <1>3, <1>6, OrdersAre DEF Copied
    <3> QED BY <3>1, OrdersAre DEF Clock
  <2>2. rd'[p].got[Copied[i]] = IF Copied[i] = Copied[n] THEN tm[Copied[i]]
                                ELSE rd[p].got[Copied[i]]
    BY <1>1, <1>6, <2>1 DEF Copied
  <2>3. CASE i = n
    BY <1>5, <2>1, <2>2, <2>3
  <2>4. CASE i < n
    <3>1. rd[p].got[Copied[i]] = Broken(rd[p])[Copied[i]]
      BY <1>0, <1>6, <2>4 DEF StructInv
    <3> QED BY <2>1, <2>2, <2>4, <3>1
  <2> QED BY <1>6, <2>3, <2>4
<1>7. RangeInv(p)'
  BY <1>0, <1>1, <1>2, <1>3 DEF RangeInv
<1>8. StructInv(p)'
  <2>1. ASSUME rd'[p].at = "got", rd[p].call = "CurrentTimeSpec"
        PROVE  \A f \in Clock : rd'[p].got[f] = Broken(rd[p])[f]
    <3>1. n = l /\ l = 6
      BY <1>1, <2>1, OrdersAre DEF Copied
    <3> QED BY <1>6, <2>1, <3>1, OrdersAre
  <2>2. ASSUME rd[p].call = "CurrentTimeSpec"
        PROVE  \A i \in 1 .. 6 : i < n + 1 => rd'[p].got[Copied[i]] = Broken(rd[p])[Copied[i]]
    BY <1>6, <2>2
  <2>3. rd'[p].at # "store"
    BY <1>3
  <2> QED BY <1>0, <1>1, <1>2, <1>4, <1>5, <2>1, <2>2, <2>3 DEF StructInv
<1>9. Result(p)' = Result(p)
  BY <1>0, <1>2, <1>3 DEF Result
<1>10. ReaderInv(p)'
  BY <1>0, <1>2, <1>3, <1>9, OwnOn DEF Finishing
<1> QED BY <1>7, <1>8, <1>10 DEF OwnInv

LEMMA OwnAnswer ==
    ASSUME RtcInv, NEW p \in Readers, OwnInv(p), CurrentTimeSpec(p) \/ getTimeVal(p)
    PROVE  OwnInv(p)'
<1>0. /\ ReadersShape /\ rd[p].at = "got" /\ RangeInv(p) /\ StructInv(p)
  BY DEF RtcInv, OwnInv, CurrentTimeSpec, getTimeVal
<1>1. PICK ts : /\ Reply(p, ts)
                /\ CurrentTimeSpec(p) \/ rd[p].call = "getTimeVal"
                /\ CurrentTimeSpec(p) =>
                     ts = <<mktime_Days(rd[p].got.year + 1900, rd[p].got.mon + 1, rd[p].got.mday),
                            Seconds(<<rd[p].got.hour, rd[p].got.min, rd[p].got.sec>>)>>
  BY DEF CurrentTimeSpec, getTimeVal
<1>2. /\ rd'[p].at = "answered" /\ rd'[p].call = rd[p].call /\ rd'[p].lag = rd[p].lag
      /\ rd'[p].began = rd[p].began /\ rd'[p].ts = ts /\ rd'[p].next = 1
      /\ rd'[p].date = Idle.date /\ rd'[p].time = Idle.time
      /\ rd'[p].century = Idle.century
  BY <1>0, <1>1, ReplyFields
<1>3. UNCHANGED <<rtc, setup, today, midnights>>
  BY <1>1 DEF Reply
<1>4. RangeInv(p)'
  <2>1. <<0, 0, 0>> \in Moments
    BY RtcAssumption
  <2> QED BY <1>2, <2>1, IdleShape DEF RangeInv, Dates
<1>5. StructInv(p)'
  BY <1>2 DEF StructInv
<1>6. ASSUME rd[p].call = "CurrentTimeSpec" PROVE Result(p)' = Result(p)
  <2>1. \A f \in Clock : rd[p].got[f] = Broken(rd[p])[f]
    BY <1>0, <1>6 DEF StructInv
  <2>2. /\ Broken(rd[p])["sec"] = rd[p].time[3] /\ Broken(rd[p])["min"] = rd[p].time[2]
        /\ Broken(rd[p])["hour"] = rd[p].time[1] /\ Broken(rd[p])["mday"] = rd[p].date.day
        /\ Broken(rd[p])["mon"] + 1 = rd[p].date.month
        /\ FullYear(rd[p].date, rd[p].century) \in Int =>
               Broken(rd[p])["year"] + 1900 = FullYear(rd[p].date, rd[p].century)
    <3> PICK r : r = rd[p]
      OBVIOUS
    <3>1. r.date \in Dates /\ r.time \in Moments
      BY <1>0 DEF RangeInv
    <3> QED BY <3>1, BrokenIs
  <2>3. FullYear(rd[p].date, rd[p].century) \in Int
    <3>1. rd[p].date.year \in 0 .. 99 /\ rd[p].century \in 0 .. 31
      BY <1>0 DEF RangeInv, Dates
    <3> PICK y \in 0 .. 99, c \in 0 .. 31 : y = rd[p].date.year /\ c = rd[p].century
      BY <3>1
    <3>2. (y % 100) + c * 100 = y + c * 100
      BY YearOf
    <3>3. y + c * 100 \in Int
      OBVIOUS
    <3> QED BY <3>2, <3>3 DEF FullYear
  <2>4. /\ rd[p].got.sec = rd[p].time[3] /\ rd[p].got.min = rd[p].time[2]
        /\ rd[p].got.hour = rd[p].time[1] /\ rd[p].got.mday = rd[p].date.day
        /\ rd[p].got.mon + 1 = rd[p].date.month
        /\ rd[p].got.year + 1900 = FullYear(rd[p].date, rd[p].century)
    BY <2>1, <2>2, <2>3 DEF Clock, TmNames
  <2>5. Seconds(<<rd[p].got.hour, rd[p].got.min, rd[p].got.sec>>) = Seconds(rd[p].time)
    BY <2>4 DEF Seconds
  <2>6. CurrentTimeSpec(p)
    BY <1>1, <1>6
  <2>7. Result(p) = ts
    BY <1>0, <1>1, <2>4, <2>5, <2>6 DEF Result
  <2> QED BY <1>2, <2>7 DEF Result
<1>7. ReaderInv(p)'
  BY <1>0, <1>2, <1>3, <1>6, OwnOn DEF Finishing
<1> QED BY <1>4, <1>5, <1>7 DEF OwnInv

LEMMA OwnDone ==
    ASSUME RtcInv, NEW p \in Readers, ReadDone(p)
    PROVE  OwnInv(p)'
<1>1. rd'[p] = Idle
  BY DoneFields DEF RtcInv
<1>2. <<0, 0, 0>> \in Moments
  BY RtcAssumption
<1>3. rd'[p].at = "idle" /\ rd'[p].next = 1 /\ rd'[p].time = <<0, 0, 0>>
      /\ rd'[p].century = 0 /\ rd'[p].date \in Dates
  BY <1>1, IdleShape DEF Dates
<1>4. RangeInv(p)'
  BY <1>2, <1>3 DEF RangeInv
<1> QED BY <1>3, <1>4 DEF OwnInv, StructInv, ReaderInv

LEMMA OwnStep ==
    ASSUME RtcInv, NEW p \in Readers, OwnInv(p), ReadStep(p)
    PROVE  OwnInv(p)'
BY OwnDate, OwnTime, OwnCentury, OwnStore, OwnCopy, OwnAnswer, OwnDone DEF ReadStep

\* For the other readers: only one that reads itself stores in the struct.
LEMMA OtherStep ==
    ASSUME RtcInv, ReadersInv, NEW p \in Readers, ReadStep(p), NEW q \in Readers, q # p
    PROVE  OwnInv(q)'
<1>0. /\ UNCHANGED <<rtc, setup, today, midnights>> /\ rd'[q] = rd[q]
      /\ RangeInv(q) /\ StructInv(q) /\ ReaderInv(q)
  BY ReaderTyped DEF Others, ReadersInv, OwnInv
<1>1. RangeInv(q)'
  BY <1>0 DEF RangeInv
<1>2. ReaderInv(q)'
  BY <1>0 DEF ReaderInv, LessThanADay, SameDay, DayBefore, DayRead, Result, Later, NewCentury
<1>3. StructInv(q)'
  <2>1. CASE UNCHANGED tm
    BY <1>0, <2>1 DEF StructInv, Broken
  <2>2. CASE tm' # tm
    <3>1. Reading(p)
      <4>1. StoreField(p) \/ CurrentTimeSpec(p) \/ getTimeVal(p)
        BY <2>2 DEF ReadStep, ReadDate, ReadTime, ReadExtended, CopyField, ReadDone
      <4>2. rd[p].at \in {"store", "got"}
        BY <4>1 DEF StoreField, CurrentTimeSpec, getTimeVal
      <4> QED BY <4>2 DEF Reading
    <3>2. ~Reading(q)
      BY <3>1 DEF ReadersInv, Alone
    <3>3. rd'[q].at \in {"idle", "answered"}
      BY <1>0, <3>2 DEF Reading
    <3> QED BY <3>3 DEF StructInv
  <2> QED BY <2>1, <2>2
<1> QED BY <1>1, <1>2, <1>3 DEF OwnInv

LEMMA AloneStep ==
    ASSUME RtcInv, Alone, ~OverlappingReads, NEW p \in Readers, ReadStep(p)
    PROVE  Alone'
<1>1. \A q \in Readers : q # p => rd'[q] = rd[q]
  BY ReaderTyped DEF Others
<1>2. \A q \in Readers : q # p => (Reading(q)' <=> Reading(q))
  BY <1>1 DEF Reading
<1>3. CASE \E c \in DOMAIN CopyOrder : ReadDate(p, c)
  <2>1. \A q \in Readers : ~Reading(q)
    BY <1>3 DEF ReadDate
  <2> QED BY <1>2, <2>1 DEF Alone
<1>4. CASE ~Reading(p)'
  BY <1>2, <1>4 DEF Alone
<1>5. CASE Reading(p)
  BY <1>2, <1>5 DEF Alone
<1>6. ReadDone(p) => ~Reading(p)'
  <2>1. ReadDone(p) => rd'[p] = Idle
    BY DoneFields DEF RtcInv
  <2> QED BY <2>1, IdleShape DEF Reading
<1>7. ReadTime(p) \/ ReadExtended(p) \/ StoreField(p) \/ CopyField(p) \/ CurrentTimeSpec(p)
          \/ getTimeVal(p) => Reading(p)
  BY DEF ReadTime, ReadExtended, StoreField, CopyField, CurrentTimeSpec, getTimeVal, Reading
<1> QED BY <1>3, <1>4, <1>5, <1>6, <1>7 DEF ReadStep

LEMMA ReadersInvStep ==
    ASSUME MaxLag <= Cardinality(Moments), ~OverlappingReads
    PROVE  RtcInv /\ ReadersInv /\ [RtcNext]_rtcVars => ReadersInv'
<1> SUFFICES ASSUME RtcInv, ReadersInv, [RtcNext]_rtcVars PROVE ReadersInv'
  OBVIOUS
<1>0. Alone /\ \A p \in Readers : OwnInv(p)
  BY DEF ReadersInv
<1>1. CASE UNCHANGED rtcVars
  <2>1. UNCHANGED <<rtc, setup, today, tm, rd>>
    BY <1>1 DEF rtcVars
  <2>2. Alone'
    BY <1>0, <2>1 DEF Alone, Reading
  <2>3. ASSUME NEW p \in Readers PROVE OwnInv(p)'
    <3>1. RangeInv(p) /\ StructInv(p) /\ ReaderInv(p)
      BY <1>0 DEF OwnInv
    <3>2. RangeInv(p)' /\ StructInv(p)'
      BY <2>1, <3>1 DEF RangeInv, StructInv, Broken
    <3>3. ReaderInv(p)'
      BY <2>1, <3>1 DEF ReaderInv, LessThanADay, SameDay, DayBefore, DayRead, Result, Later,
                        NewCentury
    <3> QED BY <3>2, <3>3 DEF OwnInv
  <2> QED BY <2>2, <2>3 DEF ReadersInv
<1>2. CASE rtc_init \/ \E start \in Starts, t \in {<<23, 59, 59>>, <<23, 60, 0>>} :
               setDateTime(start, t)
  <2>1. setup # "done" /\ UNCHANGED <<tm, rd>>
    BY <1>2 DEF rtc_init, setDateTime
  <2>2. \A p \in Readers : rd[p].at = "idle"
    BY <2>1 DEF RtcInv
  <2>3. Alone'
    BY <2>1, <2>2 DEF Alone, Reading
  <2>4. \A p \in Readers : OwnInv(p)'
    BY <1>0, <2>1, <2>2 DEF OwnInv, RangeInv, StructInv, ReaderInv
  <2> QED BY <2>3, <2>4 DEF ReadersInv
<1>3. CASE Advance \/ Midnight
  <2>1. \A p \in Readers : OwnInv(p)'
    BY <1>0, <1>3, ReadAdvance, ReadMidnight
  <2>2. \A p \in Readers : rd'[p].at = rd[p].at
    <3>1. ReadersShape /\ rd' = Lagged /\ UNCHANGED tm
      BY <1>3 DEF RtcInv, Advance, Midnight
    <3>2. \A p \in Readers : Kept(rd[p], rd'[p], {"lag"})
      BY <3>1, LagSteps
    <3> QED BY <3>2 DEF Kept, ReaderFields
  <2>3. Alone'
    BY <1>0, <2>2 DEF Alone, Reading
  <2> QED BY <2>1, <2>3 DEF ReadersInv
<1>4. ASSUME NEW p \in Readers, ReadStep(p) PROVE ReadersInv'
  <2>1. \A q \in Readers : OwnInv(q)'
    <3> SUFFICES ASSUME NEW q \in Readers PROVE OwnInv(q)'
      OBVIOUS
    <3>1. CASE q = p
      BY <1>0, <1>4, <3>1, OwnStep
    <3>2. CASE q # p
      BY <1>4, <3>2, OtherStep
    <3> QED BY <3>1, <3>2
  <2>2. Alone'
    BY <1>0, <1>4, AloneStep
  <2> QED BY <2>1, <2>2 DEF ReadersInv
<1> QED BY <1>1, <1>2, <1>3, <1>4 DEF RtcNext, rtcVars

(* What the run checks for reads with up to MaxLag steps of the chip in     *)
(* between holds for any read that takes less than a day: fewer steps than  *)
(* it takes the chip to pass a second midnight.  It holds for any number of *)
(* tasks and both calls, as long as no two tasks are inside a read at a     *)
(* time: they share one struct (see ReadsCurrentTime).                      *)
THEOREM TimeReadCorrect ==
    ASSUME MaxLag <= Cardinality(Moments), ~OverlappingReads
    PROVE  RtcSpec => []TimeReadSane
<1>1. RtcSpec => []RtcInv
  BY RtcInitInv, RtcInvStep, PTL DEF RtcSpec
<1>2. RtcInit => ReadersInv
  <2> SUFFICES ASSUME RtcInit PROVE ReadersInv
    OBVIOUS
  <2>1. \A p \in Readers : rd[p] = Idle
    BY DEF RtcInit
  <2>2. <<0, 0, 0>> \in Moments
    BY RtcAssumption
  <2>3. \A p \in Readers : rd[p].at = "idle" /\ RangeInv(p)
    BY <2>1, <2>2, IdleShape DEF RangeInv, Dates
  <2> QED BY <2>3 DEF ReadersInv, Alone, Reading, OwnInv, StructInv, ReaderInv
<1>3. RtcInv /\ ReadersInv /\ [RtcNext]_rtcVars => ReadersInv'
  BY ReadersInvStep
<1>4. RtcInv /\ ReadersInv => TimeReadSane
  BY SaneByInv
<1> QED BY <1>1, <1>2, <1>3, <1>4, PTL DEF RtcSpec

(* A field of a layout that has it once. *)
LEMMA BitIs ==
    ASSUME NEW layout, NEW name, NEW i \in DOMAIN layout, layout[i] = name,
           \A j \in DOMAIN layout : layout[j] = name => j = i
    PROVE  Bit(layout, name) = i - 1
  BY DEF Bit

LEMMA DeviceNames ==
    /\ DOMAIN clk_en_peri = 1 .. 30
    /\ clk_en_peri[1] = "ROM" /\ clk_en_peri[2] = "DMA" /\ clk_en_peri[3] = "AI"
    /\ clk_en_peri[4] = "DVP" /\ clk_en_peri[5] = "FFT" /\ clk_en_peri[6] = "GPIO"
    /\ clk_en_peri[7] = "SPI0" /\ clk_en_peri[8] = "SPI1" /\ clk_en_peri[9] = "SPI2"
    /\ clk_en_peri[10] = "SPI3" /\ clk_en_peri[11] = "I2S0" /\ clk_en_peri[12] = "I2S1"
    /\ clk_en_peri[13] = "I2S2" /\ clk_en_peri[14] = "I2C0" /\ clk_en_peri[15] = "I2C1"
    /\ clk_en_peri[16] = "I2C2" /\ clk_en_peri[17] = "UART1" /\ clk_en_peri[18] = "UART2"
    /\ clk_en_peri[19] = "UART3" /\ clk_en_peri[20] = "AES" /\ clk_en_peri[21] = "FPIOA"
    /\ clk_en_peri[22] = "TIMER0" /\ clk_en_peri[23] = "TIMER1" /\ clk_en_peri[24] = "TIMER2"
    /\ clk_en_peri[25] = "WDT0" /\ clk_en_peri[26] = "WDT1" /\ clk_en_peri[27] = "SHA"
    /\ clk_en_peri[28] = "OTP" /\ clk_en_peri[29] = "reserved" /\ clk_en_peri[30] = "RTC"
  BY DEF clk_en_peri

LEMMA ResetNames ==
    /\ DOMAIN peri_reset = 1 .. 30
    /\ peri_reset[1] = "ROM" /\ peri_reset[2] = "DMA" /\ peri_reset[3] = "AI"
    /\ peri_reset[4] = "DVP" /\ peri_reset[5] = "FFT" /\ peri_reset[6] = "GPIO"
    /\ peri_reset[7] = "SPI0" /\ peri_reset[8] = "SPI1" /\ peri_reset[9] = "SPI2"
    /\ peri_reset[10] = "SPI3" /\ peri_reset[11] = "I2S0" /\ peri_reset[12] = "I2S1"
    /\ peri_reset[13] = "I2S2" /\ peri_reset[14] = "I2C0" /\ peri_reset[15] = "I2C1"
    /\ peri_reset[16] = "I2C2" /\ peri_reset[17] = "UART1" /\ peri_reset[18] = "UART2"
    /\ peri_reset[19] = "UART3" /\ peri_reset[20] = "AES" /\ peri_reset[21] = "FPIOA"
    /\ peri_reset[22] = "TIMER0" /\ peri_reset[23] = "TIMER1" /\ peri_reset[24] = "TIMER2"
    /\ peri_reset[25] = "WDT0" /\ peri_reset[26] = "WDT1" /\ peri_reset[27] = "SHA"
    /\ peri_reset[28] = "reserved" /\ peri_reset[29] = "reserved" /\ peri_reset[30] = "RTC"
  BY DEF peri_reset

LEMMA CentralNames ==
    /\ DOMAIN clk_en_cent = 1 .. 6
    /\ clk_en_cent[1] = "CPU" /\ clk_en_cent[2] = "SRAM0" /\ clk_en_cent[3] = "SRAM1"
    /\ clk_en_cent[4] = "APB0" /\ clk_en_cent[5] = "APB1" /\ clk_en_cent[6] = "APB2"
  BY DEF clk_en_cent

LEMMA DeviceLayout ==
    /\ DOMAIN clk_en_peri = 1 .. 30
    /\ \A i, j \in 1 .. 30 :
         clk_en_peri[i] = clk_en_peri[j] /\ clk_en_peri[i] # "reserved" => i = j
    /\ Devices = {clk_en_peri[i] : i \in 1 .. 30} \ {"reserved"}
<1>1. DOMAIN clk_en_peri = 1 .. 30
  BY DeviceNames
<1>2. ASSUME NEW i \in 1 .. 30, NEW j \in 1 .. 30,
             clk_en_peri[i] = clk_en_peri[j], clk_en_peri[i] # "reserved"
      PROVE  i = j
  BY <1>2, DeviceNames
<1>4. Devices = {clk_en_peri[i] : i \in 1 .. 30} \ {"reserved"}
  BY <1>1 DEF Devices, Range
<1> QED BY <1>1, <1>2, <1>4

LEMMA ResetLayout ==
    /\ DOMAIN peri_reset = 1 .. 30
    /\ \A i \in 1 .. 30 : peri_reset[i] = IF i = 28 THEN "reserved" ELSE clk_en_peri[i]
<1>1. DOMAIN peri_reset = 1 .. 30
  BY ResetNames
<1>2. ASSUME NEW i \in 1 .. 30
      PROVE  peri_reset[i] = IF i = 28 THEN "reserved" ELSE clk_en_peri[i]
  BY <1>2, ResetNames, DeviceNames
<1> QED BY <1>1, <1>2

LEMMA DeviceBit ==
    ASSUME NEW i \in 1 .. 30, clk_en_peri[i] # "reserved"
    PROVE  /\ Bit(clk_en_peri, clk_en_peri[i]) = i - 1
           /\ clk_en_peri[i] # "OTP" => Bit(peri_reset, clk_en_peri[i]) = i - 1
<1>1. Bit(clk_en_peri, clk_en_peri[i]) = i - 1
  <2>1. i \in DOMAIN clk_en_peri
    BY DeviceLayout
  <2>2. \A j \in DOMAIN clk_en_peri : clk_en_peri[j] = clk_en_peri[i] => j = i
    BY DeviceLayout
  <2> QED BY <2>1, <2>2, BitIs
<1>2. ASSUME clk_en_peri[i] # "OTP" PROVE Bit(peri_reset, clk_en_peri[i]) = i - 1
  <2>1. i \in DOMAIN peri_reset /\ peri_reset[i] = clk_en_peri[i]
    BY <1>2, ResetLayout, DeviceNames
  <2>2. ASSUME NEW j \in DOMAIN peri_reset, peri_reset[j] = clk_en_peri[i] PROVE j = i
    <3>1. j \in 1 .. 30 /\ clk_en_peri[j] = clk_en_peri[i]
      BY <2>2, ResetLayout
    <3> QED BY <3>1, DeviceLayout
  <2> QED BY <2>1, <2>2, BitIs
<1> QED BY <1>1, <1>2

LEMMA BusBits ==
    /\ Bit(clk_en_cent, "APB0") = 3 /\ Bit(clk_en_cent, "APB1") = 4
    /\ Bit(clk_en_cent, "APB2") = 5
<1>1. /\ DOMAIN clk_en_cent = 1 .. 6
      /\ \A i, j \in 1 .. 6 : clk_en_cent[i] = clk_en_cent[j] => i = j
  BY CentralNames
<1> QED BY <1>1, CentralNames, BitIs

(* No device is a PLL or one of the clocks of the centre. *)
LEMMA DevicesApart ==
    /\ Range(Plls) = {"PLL0", "PLL1", "PLL2"}
    /\ \A dev \in Devices : dev \notin Range(Plls) /\ dev \notin Central
<1>1. Range(Plls) = {"PLL0", "PLL1", "PLL2"}
  <2>1. DOMAIN Plls = 1 .. 3 /\ Plls[1] = "PLL0" /\ Plls[2] = "PLL1" /\ Plls[3] = "PLL2"
    BY DEF Plls
  <2>2. 1 .. 3 = {1, 2, 3}
    OBVIOUS
  <2> QED BY <2>1, <2>2 DEF Range
<1>2. \A i \in 1 .. 30, j \in 1 .. 6 : clk_en_peri[i] # clk_en_cent[j]
  BY DeviceNames, CentralNames
<1>3. \A i \in 1 .. 30 : clk_en_peri[i] \notin {"PLL0", "PLL1", "PLL2"}
  BY DeviceNames
<1>4. Central = {clk_en_cent[j] : j \in 1 .. 6}
  BY CentralNames DEF Central, Range
<1>5. ASSUME NEW dev \in Devices PROVE dev \notin Range(Plls) /\ dev \notin Central
  <2>1. PICK i \in 1 .. 30 : dev = clk_en_peri[i]
    BY DeviceLayout
  <2> QED BY <1>1, <1>2, <1>3, <1>4, <2>1
<1> QED BY <1>1, <1>5

SysctlRegs ==
    [clk_en_cent : SUBSET (0 .. 5), clk_en_peri : SUBSET (0 .. 31),
     peri_reset : SUBSET (0 .. 31), soft_reset : BOOLEAN, pll_out : SUBSET (0 .. 2),
     dma_sel : [0 .. 5 -> 0 .. 63], pll : {c.pll : c \in Configs},
     select : {c.select : c \in Configs}, threshold : {c.threshold : c \in Configs}]

(* The clocks and resets of a boot that has come to st. *)
Booted(s, st) ==
    /\ s.peri_reset = IF st = "release" THEN {29} ELSE {}
    /\ st \in {"dmac_init", "run"} => 29 \in s.clk_en_peri /\ 4 \in s.clk_en_cent
    /\ st = "run" => 1 \in s.clk_en_peri

SysctlInv ==
    /\ sysctl \in SysctlRegs
    /\ step \in {"reset", "release", "rtc_init", "dmac_init", "run"}
    /\ Booted(sysctl, step)

LEMMA Single == ASSUME NEW S, NEW x \in S PROVE {x} \in SUBSET S
  OBVIOUS

(* One field of the registers changes. *)
LEMMA ResetChanged ==
    ASSUME NEW s \in SysctlRegs, NEW b \in SUBSET (0 .. 31), NEW q,
           q = [s EXCEPT !.peri_reset = b]
    PROVE  /\ q \in SysctlRegs /\ q.peri_reset = b
           /\ q.clk_en_cent = s.clk_en_cent /\ q.clk_en_peri = s.clk_en_peri
  BY DEF SysctlRegs

LEMMA BusChanged ==
    ASSUME NEW s \in SysctlRegs, NEW b \in SUBSET (0 .. 5), NEW q,
           q = [s EXCEPT !.clk_en_cent = b]
    PROVE  /\ q \in SysctlRegs /\ q.clk_en_cent = b
           /\ q.peri_reset = s.peri_reset /\ q.clk_en_peri = s.clk_en_peri
  BY DEF SysctlRegs

LEMMA DeviceChanged ==
    ASSUME NEW s \in SysctlRegs, NEW b \in SUBSET (0 .. 31), NEW q,
           q = [s EXCEPT !.clk_en_peri = b]
    PROVE  /\ q \in SysctlRegs /\ q.clk_en_peri = b
           /\ q.peri_reset = s.peri_reset /\ q.clk_en_cent = s.clk_en_cent
  BY DEF SysctlRegs

LEMMA LineChanged ==
    ASSUME NEW s \in SysctlRegs, NEW d \in [0 .. 5 -> 0 .. 63], NEW q,
           q = [s EXCEPT !.dma_sel = d]
    PROVE  /\ q \in SysctlRegs /\ q.clk_en_peri = s.clk_en_peri
           /\ q.peri_reset = s.peri_reset /\ q.clk_en_cent = s.clk_en_cent
  BY DEF SysctlRegs

(* The bits of the buses that sysctl_clock_bus_en switches on. *)
BusesOf(dev) ==
    {Bit(clk_en_cent, b) : b \in {x \in {"APB0", "APB1", "APB2"} : dev \in OnBus(x)}}

LEMMA BusesAre ==
    ASSUME NEW dev
    PROVE  /\ BusesOf(dev) \in SUBSET (0 .. 5)
           /\ dev \in OnBus("APB0") => 3 \in BusesOf(dev)
           /\ dev \in OnBus("APB1") => 4 \in BusesOf(dev)
<1>1. \A b \in {"APB0", "APB1", "APB2"} : Bit(clk_en_cent, b) \in 0 .. 5
  BY BusBits
<1> QED BY <1>1, BusBits DEF BusesOf

(* A device's clock is switched on, with that of its bus, and no other. *)
LEMMA EnableIs ==
    ASSUME NEW s \in SysctlRegs, NEW dev \in Devices, NEW q, q = sysctl_clock_enable(s, dev)
    PROVE  /\ q \in SysctlRegs /\ q.peri_reset = s.peri_reset
           /\ q.clk_en_cent = s.clk_en_cent \cup BusesOf(dev)
           /\ q.clk_en_peri = s.clk_en_peri \cup {Bit(clk_en_peri, dev)}
<1>1. PICK c \in SUBSET (0 .. 5) : c = s.clk_en_cent \cup BusesOf(dev)
  BY BusesAre DEF SysctlRegs
<1>2. PICK i \in 0 .. 31 : i = Bit(clk_en_peri, dev)
  <2>1. PICK n \in 1 .. 30 : dev = clk_en_peri[n] /\ clk_en_peri[n] # "reserved"
    BY DeviceLayout
  <2> QED BY <2>1, DeviceBit
<1>3. PICK p \in SUBSET (0 .. 31) : p = s.clk_en_peri \cup {i}
  BY DEF SysctlRegs
<1>4. PICK u : u = [s EXCEPT !.clk_en_cent = c]
  OBVIOUS
<1>5. /\ u \in SysctlRegs /\ u.clk_en_cent = c
      /\ u.peri_reset = s.peri_reset /\ u.clk_en_peri = s.clk_en_peri
  BY <1>4, BusChanged
<1>6. u = sysctl_clock_bus_en(s, dev)
  BY <1>1, <1>4 DEF sysctl_clock_bus_en, BusesOf
<1>7. q = sysctl_clock_device_en(u, dev, TRUE)
  BY <1>6 DEF sysctl_clock_enable
<1>8. q = [u EXCEPT !.clk_en_peri = p]
  <2>1. q = [u EXCEPT !.clk_en_peri = Put(u.clk_en_peri, i, TRUE)]
    BY <1>2, <1>7, DevicesApart DEF sysctl_clock_device_en
  <2>2. Put(u.clk_en_peri, i, TRUE) = p
    BY <1>3, <1>5 DEF Put
  <2> QED BY <2>1, <2>2
<1>9. /\ q \in SysctlRegs /\ q.clk_en_peri = p
      /\ q.peri_reset = u.peri_reset /\ q.clk_en_cent = u.clk_en_cent
  BY <1>5, <1>8, DeviceChanged
<1> QED BY <1>1, <1>2, <1>3, <1>5, <1>9

LEMMA RtcDma ==
    /\ "RTC" \in Devices /\ Bit(clk_en_peri, "RTC") = 29 /\ Bit(peri_reset, "RTC") = 29
    /\ "DMA" \in Devices /\ Bit(clk_en_peri, "DMA") = 1
    /\ 4 \in BusesOf("RTC")
<1>1. clk_en_peri[30] = "RTC" /\ clk_en_peri[2] = "DMA"
  BY DeviceNames
<1>2. "RTC" \in Devices /\ "DMA" \in Devices
  BY <1>1, DeviceLayout
<1>3. /\ Bit(clk_en_peri, "RTC") = 29 /\ Bit(peri_reset, "RTC") = 29
      /\ Bit(clk_en_peri, "DMA") = 1
  BY <1>1, DeviceBit
<1>4. "RTC" \in OnBus("APB1")
  BY DEF OnBus
<1> QED BY <1>2, <1>3, <1>4, BusesAre

LEMMA SysctlInitInv == SysctlInit => SysctlInv
<1> SUFFICES ASSUME SysctlInit PROVE SysctlInv
  OBVIOUS
<1>1. PICK c \in Configs, on \in {{}, {0, 1, 2, 3}} :
        sysctl = [clk_en_cent |-> on, clk_en_peri |-> {}, peri_reset |-> {},
                  soft_reset |-> FALSE, pll_out |-> {0},
                  dma_sel |-> [ch \in 0 .. 5 |-> 0],
                  pll |-> c.pll, select |-> c.select, threshold |-> c.threshold]
  BY DEF SysctlInit
<1>2. step = "reset"
  BY DEF SysctlInit
<1>3. on \in SUBSET (0 .. 5)
  <2>1. ASSUME NEW x \in on PROVE x \in 0 .. 5
    <3>1. x = 0 \/ x = 1 \/ x = 2 \/ x = 3
      BY Zenon
    <3> QED BY <3>1
  <2> QED BY <2>1
<1>4. [ch \in 0 .. 5 |-> 0] \in [0 .. 5 -> 0 .. 63]
  OBVIOUS
<1>5. sysctl \in SysctlRegs
  BY <1>1, <1>3, <1>4 DEF SysctlRegs
<1>6. sysctl.peri_reset = {}
  BY <1>1
<1> QED BY <1>2, <1>5, <1>6 DEF SysctlInv, Booted

LEMMA SysctlStep == SysctlInv /\ [SysctlNext]_sysctlVars => SysctlInv'
<1> SUFFICES ASSUME SysctlInv, [SysctlNext]_sysctlVars PROVE SysctlInv'
  OBVIOUS
<1> USE DEF SysctlInv
<1>1. CASE ResetAssert
  <2>1. step = "reset" /\ step' = "release" /\ sysctl.peri_reset = {}
    BY <1>1 DEF ResetAssert, Booted
  <2>2. sysctl' = [sysctl EXCEPT !.peri_reset = Put(sysctl.peri_reset, 29, TRUE)]
    BY <1>1, RtcDma DEF ResetAssert, sysctl_reset_ctl
  <2>3. Put(sysctl.peri_reset, 29, TRUE) = {29}
    BY <2>1 DEF Put
  <2>4. sysctl' = [sysctl EXCEPT !.peri_reset = {29}]
    BY <2>2, <2>3
  <2>5. {29} \in SUBSET (0 .. 31)
    <3>1. 29 \in 0 .. 31
      OBVIOUS
    <3> QED BY <3>1, Single
  <2>6. sysctl' \in SysctlRegs /\ sysctl'.peri_reset = {29}
    BY <2>4, <2>5, ResetChanged
  <2> QED BY <2>1, <2>6 DEF Booted
<1>2. CASE ResetRelease
  <2>1. step = "release" /\ step' = "rtc_init" /\ sysctl.peri_reset = {29}
    BY <1>2 DEF ResetRelease, Booted
  <2>2. sysctl' = [sysctl EXCEPT !.peri_reset = Put(sysctl.peri_reset, 29, FALSE)]
    BY <1>2, RtcDma DEF ResetRelease, sysctl_reset_ctl
  <2>3. Put(sysctl.peri_reset, 29, FALSE) = {}
    BY <2>1 DEF Put
  <2>4. sysctl' = [sysctl EXCEPT !.peri_reset = {}]
    BY <2>2, <2>3
  <2>5. sysctl' \in SysctlRegs /\ sysctl'.peri_reset = {}
    BY <2>4, ResetChanged
  <2> QED BY <2>1, <2>5 DEF Booted
<1>3. CASE EnableClock("RTC", "rtc_init", "dmac_init")
  <2>1. step = "rtc_init" /\ step' = "dmac_init" /\ sysctl' = sysctl_clock_enable(sysctl, "RTC")
    BY <1>3 DEF EnableClock
  <2>2. /\ sysctl' \in SysctlRegs /\ sysctl'.peri_reset = sysctl.peri_reset
        /\ sysctl'.clk_en_cent = sysctl.clk_en_cent \cup BusesOf("RTC")
        /\ sysctl'.clk_en_peri = sysctl.clk_en_peri \cup {29}
    <3>1. PICK q : q = sysctl_clock_enable(sysctl, "RTC")
      OBVIOUS
    <3>2. /\ q \in SysctlRegs /\ q.peri_reset = sysctl.peri_reset
          /\ q.clk_en_cent = sysctl.clk_en_cent \cup BusesOf("RTC")
          /\ q.clk_en_peri = sysctl.clk_en_peri \cup {Bit(clk_en_peri, "RTC")}
      BY <3>1, EnableIs, RtcDma
    <3>3. sysctl' = q
      BY <2>1, <3>1
    <3> QED BY <3>2, <3>3, RtcDma
  <2> QED BY <2>1, <2>2, RtcDma DEF Booted
<1>4. CASE EnableClock("DMA", "dmac_init", "run")
  <2>1. step = "dmac_init" /\ step' = "run" /\ sysctl' = sysctl_clock_enable(sysctl, "DMA")
    BY <1>4 DEF EnableClock
  <2>2. /\ sysctl' \in SysctlRegs /\ sysctl'.peri_reset = sysctl.peri_reset
        /\ sysctl'.clk_en_cent = sysctl.clk_en_cent \cup BusesOf("DMA")
        /\ sysctl'.clk_en_peri = sysctl.clk_en_peri \cup {1}
    <3>1. PICK q : q = sysctl_clock_enable(sysctl, "DMA")
      OBVIOUS
    <3>2. /\ q \in SysctlRegs /\ q.peri_reset = sysctl.peri_reset
          /\ q.clk_en_cent = sysctl.clk_en_cent \cup BusesOf("DMA")
          /\ q.clk_en_peri = sysctl.clk_en_peri \cup {Bit(clk_en_peri, "DMA")}
      BY <3>1, EnableIs, RtcDma
    <3>3. sysctl' = q
      BY <2>1, <3>1
    <3> QED BY <3>2, <3>3, RtcDma
  <2> QED BY <2>1, <2>2 DEF Booted
<1>5. ASSUME NEW channel \in 0 .. 1, NEW select \in 0 .. 3, SelectLine(channel, select)
      PROVE  SysctlInv'
  <2>1. step = "run" /\ step' = step /\ sysctl' = sysctl_dma_select(sysctl, channel, select)
    BY <1>5 DEF SelectLine
  <2>2. PICK d : d = [sysctl.dma_sel EXCEPT ![channel] = select % 64]
    OBVIOUS
  <2>3. d \in [0 .. 5 -> 0 .. 63]
    <3>1. PICK n \in 0 .. 63 : n = select % 64
      <4>1. select % 64 \in 0 .. 63
        OBVIOUS
      <4> QED BY <4>1, Zenon
    <3>2. sysctl.dma_sel \in [0 .. 5 -> 0 .. 63]
      BY DEF SysctlRegs
    <3>3. d = [sysctl.dma_sel EXCEPT ![channel] = n]
      BY <2>2, <3>1
    <3> QED BY <3>2, <3>3
  <2>4. sysctl' = [sysctl EXCEPT !.dma_sel = d]
    BY <2>1, <2>2 DEF sysctl_dma_select
  <2>5. /\ sysctl' \in SysctlRegs /\ sysctl'.clk_en_peri = sysctl.clk_en_peri
        /\ sysctl'.peri_reset = sysctl.peri_reset
        /\ sysctl'.clk_en_cent = sysctl.clk_en_cent
    BY <2>3, <2>4, LineChanged
  <2> QED BY <2>1, <2>5 DEF Booted
<1>6. CASE UNCHANGED sysctlVars
  BY <1>6 DEF sysctlVars
<1> QED BY <1>1, <1>2, <1>3, <1>4, <1>5, <1>6 DEF SysctlNext

LEMMA SysctlTypes == SysctlInv => SysctlTypeOK
<1> SUFFICES ASSUME SysctlInv PROVE SysctlTypeOK
  OBVIOUS
<1>1. sysctl \in SysctlRegs /\ step \in {"reset", "release", "rtc_init", "dmac_init", "run"}
  BY DEF SysctlInv
<1>2. sysctl.clk_en_cent \subseteq 0 .. Len(clk_en_cent) - 1
  <2>1. Len(clk_en_cent) = 6
    BY DEF clk_en_cent
  <2>2. sysctl.clk_en_cent \in SUBSET (0 .. 5)
    BY <1>1 DEF SysctlRegs
  <2> QED BY <2>1, <2>2
<1>3. /\ sysctl.clk_en_peri \subseteq 0 .. 31 /\ sysctl.peri_reset \subseteq 0 .. 31
      /\ sysctl.dma_sel \in [0 .. 5 -> 0 .. 63]
  BY <1>1 DEF SysctlRegs
<1>4. PICK c \in Configs : sysctl.threshold = c.threshold
  BY <1>1 DEF SysctlRegs
<1>5. \A t \in DOMAIN ThresholdBits : sysctl.threshold[t] \in 0 .. 2 ^ ThresholdBits[t] - 1
  BY <1>4, SysctlAssumption
<1> QED BY <1>1, <1>2, <1>3, <1>5 DEF SysctlTypeOK

(* The bus of a device is one that sysctl_clock_bus_en switches on for it. *)
LEMMA BusOf ==
    ASSUME NEW dev, BusClock(dev) # "none"
    PROVE  /\ dev \in {"GPIO", "UART1", "UART2", "UART3", "FPIOA", "SHA", "AES", "OTP"}
           /\ BusClock(dev) \in {"APB0", "APB1"}
           /\ dev \in OnBus(BusClock(dev))
<1>1. CASE dev \in {"GPIO", "UART1", "UART2", "UART3", "FPIOA", "SHA"}
  <2>1. BusClock(dev) = "APB0"
    BY <1>1 DEF BusClock
  <2>2. dev \in OnBus("APB0")
    BY <1>1 DEF OnBus
  <2> QED BY <1>1, <2>1, <2>2
<1>2. CASE dev \in {"AES", "OTP"}
  <2>1. BusClock(dev) = "APB1"
    BY <1>2 DEF BusClock
  <2>2. dev \in OnBus("APB1")
    BY <1>2 DEF OnBus
  <2> QED BY <1>2, <2>1, <2>2
<1>3. CASE dev \notin {"GPIO", "UART1", "UART2", "UART3", "FPIOA", "SHA", "AES", "OTP"}
  BY <1>3 DEF BusClock
<1> QED BY <1>1, <1>2, <1>3

LEMMA ClocksReach == SysctlInv => ClockReachesDevice
<1> SUFFICES ASSUME SysctlInv PROVE ClockReachesDevice
  OBVIOUS
<1>1. sysctl \in SysctlRegs /\ Booted(sysctl, step)
  BY DEF SysctlInv
<1>2. ASSUME NEW dev \in Devices, NEW s, s = sysctl_clock_enable(sysctl, dev)
      PROVE  /\ s.clk_en_peri = sysctl.clk_en_peri \cup {Bit(clk_en_peri, dev)}
             /\ BusClock(dev) # "none" => Bit(clk_en_cent, BusClock(dev)) \in s.clk_en_cent
             /\ dev # "OTP" => Bit(peri_reset, dev) = Bit(clk_en_peri, dev)
  <2>1. /\ s.clk_en_cent = sysctl.clk_en_cent \cup BusesOf(dev)
        /\ s.clk_en_peri = sysctl.clk_en_peri \cup {Bit(clk_en_peri, dev)}
    BY <1>1, <1>2, EnableIs
  <2>2. ASSUME BusClock(dev) # "none" PROVE Bit(clk_en_cent, BusClock(dev)) \in s.clk_en_cent
    <3>1. PICK b \in {"APB0", "APB1"} : b = BusClock(dev) /\ dev \in OnBus(b)
      BY <2>2, BusOf
    <3>2. Bit(clk_en_cent, b) \in BusesOf(dev)
      BY <3>1 DEF BusesOf
    <3> QED BY <2>1, <3>1, <3>2
  <2>3. PICK i \in 1 .. 30 : dev = clk_en_peri[i] /\ clk_en_peri[i] # "reserved"
    BY DeviceLayout
  <2> QED BY <2>1, <2>2, <2>3, DeviceBit
<1>3. step = "run" => /\ sysctl.peri_reset = {}
                      /\ {1, 29} \subseteq sysctl.clk_en_peri
                      /\ 4 \in sysctl.clk_en_cent
  BY <1>1 DEF Booted
<1> QED BY <1>2, <1>3 DEF ClockReachesDevice

(* Dividing first and multiplying after loses less than a divisor's rest. *)
LEMMA Product ==
    ASSUME NEW a \in Nat, NEW b \in Nat, NEW c \in Nat, a <= b
    PROVE  a * c <= b * c /\ a * c \in Nat /\ b * c \in Nat
<1>1. PICK d \in Nat : b = a + d
  <2>1. b - a \in Nat /\ b = a + (b - a)
    OBVIOUS
  <2> QED BY <2>1
<1>2. b * c = a * c + d * c
  BY <1>1
<1>3. a * c \in Nat /\ d * c \in Nat
  OBVIOUS
<1> QED BY <1>2, <1>3

LEMMA Divided ==
    ASSUME NEW a \in Nat, NEW d \in Nat \ {0}
    PROVE  /\ a \div d \in Nat /\ (a \div d) * d <= a /\ a < (a \div d) * d + d
           /\ a \div d <= a
<1>1. PICK q \in Int : q = a \div d
  OBVIOUS
<1>2. d * q <= a /\ a < d * q + d
  BY <1>1
<1>3. q >= 0
  <2>1. ASSUME q <= -1 PROVE FALSE
    <3>1. -1 - q \in Nat /\ d * (-1 - q) >= 0
      BY <2>1
    <3>2. d * (-1 - q) = -d - d * q
      OBVIOUS
    <3> QED BY <1>2, <3>1, <3>2
  <2> QED BY <2>1
<1>4. q \in Nat /\ q * d = d * q
  BY <1>3
<1>5. q <= d * q
  <2>1. (d - 1) * q \in Nat
    BY <1>4
  <2>2. (d - 1) * q = d * q - q
    OBVIOUS
  <2> QED BY <1>4, <2>1, <2>2
<1>6. q * d <= a /\ a < q * d + d /\ q <= a
  BY <1>2, <1>4, <1>5
<1> QED BY <1>1, <1>4, <1>6

LEMMA PllBounds ==
    ASSUME NEW x \in Nat, NEW d \in Nat \ {0}, NEW m \in Nat \ {0}, NEW o \in Nat \ {0},
           NEW f, f = ((x \div d) * m) \div o
    PROVE  /\ f \in Nat /\ f * d * o <= x * m
           /\ x * m < (f + 1) * d * o + (d - 1) * m
<1>1. PICK q \in Nat : /\ q = x \div d
                       /\ q * d <= x /\ x < q * d + d
  BY Divided
<1>2. PICK v \in Nat : v = q * m
  OBVIOUS
<1>3. f \in Nat /\ f * o <= v /\ v < f * o + o
  BY <1>1, <1>2, Divided
<1>4. v * d = (q * d) * m
  <2>1. v * d = (q * m) * d
    BY <1>2
  <2> QED BY <2>1
<1>5. (q * d) * m <= x * m
  BY <1>1, Product
<1>6. f * d * o = (f * o) * d /\ (f * o) * d <= v * d
  <2>1. f * o \in Nat
    BY <1>3
  <2>2. (f * o) * d <= v * d
    BY <1>3, <2>1, Product
  <2> QED BY <1>3, <2>2
<1>7. f \in Nat /\ f * d * o <= x * m
  <2>1. f * d * o \in Nat /\ v * d \in Nat /\ (q * d) * m \in Nat /\ x * m \in Nat
    BY <1>3
  <2> QED BY <1>3, <1>4, <1>5, <1>6, <2>1
<1>8. x * m <= v * d + (d - 1) * m
  <2>1. x <= q * d + (d - 1) /\ q * d + (d - 1) \in Nat
    BY <1>1
  <2>2. x * m <= (q * d + (d - 1)) * m
    BY <2>1, Product
  <2>3. (q * d + (d - 1)) * m = (q * d) * m + (d - 1) * m
    OBVIOUS
  <2> QED BY <1>4, <2>2, <2>3
<1>9. v * d + d <= (f + 1) * d * o
  <2>1. v + 1 <= (f + 1) * o /\ (f + 1) * o \in Nat
    BY <1>3
  <2>2. (v + 1) * d <= ((f + 1) * o) * d
    BY <2>1, Product
  <2>3. (v + 1) * d = v * d + d
    OBVIOUS
  <2>4. ((f + 1) * o) * d = (f + 1) * d * o
    BY <1>3
  <2> QED BY <2>2, <2>3, <2>4
<1>10. x * m < (f + 1) * d * o + (d - 1) * m
  <2>1. PICK A \in Int, B \in Int, C \in Int, D \in Int :
          A = x * m /\ B = v * d /\ C = (f + 1) * d * o /\ D = (d - 1) * m
    BY <1>3
  <2>2. A <= B + D /\ B + d <= C
    BY <1>8, <1>9, <2>1
  <2>3. A < C + D
    BY <2>2
  <2> QED BY <2>1, <2>3
<1> QED BY <1>7, <1>10

LEMMA NoWrap ==
    ASSUME NEW d \in 1 .. 16, NEW m \in 1 .. 64
    PROVE  ((IN0 \div d) * m) % Word = (IN0 \div d) * m
<1>0. IN0 \in Nat /\ d \in Nat \ {0}
  BY SysctlAssumption
<1>1. PICK q \in Nat : q = IN0 \div d /\ q <= IN0
  BY <1>0, Divided
<1>2. q * m <= IN0 * m
  BY <1>1, Product, SysctlAssumption
<1>3. m * IN0 <= 64 * IN0
  BY Product, SysctlAssumption
<1>4. PICK v \in Nat : v = q * m
  OBVIOUS
<1>5. v < Word
  <2>1. IN0 * m = m * IN0 /\ IN0 * 64 = 64 * IN0 /\ IN0 * m \in Int /\ IN0 * 64 \in Int
    BY SysctlAssumption
  <2> QED BY <1>2, <1>3, <1>4, <2>1, SysctlAssumption
<1>6. v % Word = v
  BY <1>5, SysctlAssumption
<1> QED BY <1>1, <1>4, <1>6

LEMMA PllFrequency ==
    ASSUME SysctlInv, NEW p \in {"PLL0", "PLL1"}, NEW f, f = sysctl_pll_get_freq(sysctl, p),
           NEW r, r = sysctl.pll[p]
    PROVE  /\ f \in Nat
           /\ f * (r.clkr + 1) * (r.clkod + 1) <= IN0 * (r.clkf + 1)
           /\ IN0 * (r.clkf + 1)
                < (f + 1) * (r.clkr + 1) * (r.clkod + 1) + r.clkr * (r.clkf + 1)
<1>1. PICK c \in Configs : sysctl.pll = c.pll
  BY DEF SysctlInv, SysctlRegs
<1>2. r \in [clkr : 0 .. 15, clkf : 0 .. 63, clkod : 0 .. 15]
  <2>1. c.pll \in [Range(Plls) -> [clkr : 0 .. 15, clkf : 0 .. 63, clkod : 0 .. 15]]
    BY SysctlAssumption
  <2>2. p \in Range(Plls)
    BY DevicesApart
  <2> QED BY <1>1, <2>1, <2>2
<1>3. PICK d \in 1 .. 16, m \in 1 .. 64, o \in 1 .. 16 :
         d = r.clkr + 1 /\ m = r.clkf + 1 /\ o = r.clkod + 1
  <2>1. r.clkr \in 0 .. 15 /\ r.clkf \in 0 .. 63 /\ r.clkod \in 0 .. 15
    BY <1>2
  <2>2. r.clkr + 1 \in 1 .. 16 /\ r.clkf + 1 \in 1 .. 64 /\ r.clkod + 1 \in 1 .. 16
    BY <2>1
  <2> QED BY <2>2, Zenon
<1>4. r.clkr = d - 1
  BY <1>2, <1>3
<1>5. f = PllOut(r, IN0)
  BY DEF sysctl_pll_get_freq
<1>6. f = (((IN0 \div d) * m) % Word) \div o
  BY <1>3, <1>5 DEF PllOut
<1>7. f = ((IN0 \div d) * m) \div o
  BY <1>6, NoWrap
<1>8. /\ f \in Nat /\ f * d * o <= IN0 * m
      /\ IN0 * m < (f + 1) * d * o + (d - 1) * m
  <2>1. d \in Nat \ {0} /\ m \in Nat \ {0} /\ o \in Nat \ {0} /\ IN0 \in Nat
    BY SysctlAssumption
  <2> QED BY <1>7, <2>1, PllBounds
<1> QED BY <1>3, <1>4, <1>8

LEMMA TwoPower ==
    ASSUME NEW n \in Nat
    PROVE  2 ^ n \in Nat \ {0}
<1>1. IsFiniteSet(1 .. n) /\ Cardinality(1 .. n) = n
  <2>1. PICK k \in Int : k = 1
    OBVIOUS
  <2>2. IsFiniteSet(k .. n) /\ Cardinality(k .. n) = IF k > n THEN 0 ELSE n - k + 1
    BY FS_Interval
  <2> QED BY <2>1, <2>2
<1>2. PICK S : S = SUBSET (1 .. n)
  OBVIOUS
<1>3. IsFiniteSet(S) /\ Cardinality(S) = 2 ^ n
  BY <1>1, <1>2, FS_SUBSET
<1>4. S # {}
  BY <1>2
<1>5. Cardinality(S) \in Nat /\ Cardinality(S) # 0
  BY <1>3, <1>4, FS_CardinalityType, FS_EmptySet
<1> QED BY <1>3, <1>5

LEMMA Thresholds ==
    ASSUME SysctlInv, NEW w \in DOMAIN ThresholdBits
    PROVE  sysctl_clock_get_threshold(sysctl, w) \in Nat
<1>1. PICK c \in Configs : sysctl.threshold = c.threshold
  BY DEF SysctlInv, SysctlRegs
<1>2. c.threshold[w] \in 0 .. 2 ^ ThresholdBits[w] - 1
  BY SysctlAssumption
<1> QED BY <1>1, <1>2 DEF sysctl_clock_get_threshold

LEMMA Modulo == ASSUME NEW v \in Nat, NEW w \in Nat \ {0} PROVE v % w \in Nat /\ v % w <= v
<1>1. v % w \in 0 .. w - 1
  OBVIOUS
<1>2. CASE v < w
  BY <1>2
<1>3. CASE w <= v
  BY <1>1, <1>3
<1> QED BY <1>2, <1>3

(* A PLL, also where its product wraps. *)
LEMMA PllBelow ==
    ASSUME NEW x \in Nat, NEW d \in Nat \ {0}, NEW m \in Nat, NEW o \in Nat \ {0},
           NEW f, f = (((x \div d) * m) % Word) \div o
    PROVE  f \in Nat /\ d * o \in Nat /\ f * (d * o) <= x * m
<1>1. PICK q \in Nat : q = x \div d /\ q * d <= x
  BY Divided
<1>2. PICK v \in Nat : v = q * m
  OBVIOUS
<1>3. Word \in Nat \ {0}
  BY SysctlAssumption
<1>4. PICK w \in Nat : w = v % Word /\ w <= v
  BY <1>3, Modulo
<1>5. f \in Nat /\ f * o <= w
  BY <1>1, <1>2, <1>4, Divided
<1>6. (f * o) * d <= v * d
  <2>1. f * o \in Nat /\ f * o <= v
    BY <1>4, <1>5
  <2> QED BY <2>1, Product
<1>7. v * d = (q * d) * m
  <2>1. v * d = (q * m) * d
    BY <1>2
  <2> QED BY <2>1
<1>8. (q * d) * m <= x * m
  BY <1>1, Product
<1>9. d * o \in Nat /\ f * (d * o) = (f * o) * d
  BY <1>5
<1>10. f * (d * o) \in Nat /\ v * d \in Nat /\ x * m \in Nat
  BY <1>5, <1>9
<1> QED BY <1>5, <1>6, <1>7, <1>8, <1>9, <1>10

(* A PLL behind another one. *)
LEMMA Chained ==
    ASSUME NEW x \in Nat, NEW e \in Nat, NEW n \in Nat, x * e <= n,
           NEW f \in Nat, NEW q \in Nat, NEW m \in Nat, f * q <= x * m
    PROVE  f * (e * q) <= n * m
<1>1. (f * q) * e <= (x * m) * e
  BY Product
<1>2. (x * e) * m <= n * m
  BY Product
<1>3. (f * q) * e = f * (e * q) /\ (x * m) * e = (x * e) * m
  OBVIOUS
<1>4. f * (e * q) \in Nat /\ (x * m) * e \in Nat /\ n * m \in Nat
  OBVIOUS
<1> QED BY <1>1, <1>2, <1>3, <1>4

(* Dividing twice is dividing by the product, rounded down once. *)
LEMMA Nested ==
    ASSUME NEW f \in Nat, NEW A \in Nat \ {0}, NEW d \in Nat \ {0},
           NEW g, g = (f \div A) \div d
    PROVE  /\ g \in Nat /\ A * d \in Nat \ {0}
           /\ g * (A * d) <= f /\ f < (g + 1) * (A * d)
<1>1. PICK a \in Nat : a = f \div A /\ a * A <= f /\ f < a * A + A
  BY Divided
<1>2. g \in Nat /\ g * d <= a /\ a < g * d + d
  BY <1>1, Divided
<1>3. A * d \in Nat \ {0}
  OBVIOUS
<1>4. (g * d) * A <= a * A
  <2>1. g * d \in Nat
    BY <1>2
  <2> QED BY <1>2, <2>1, Product
<1>5. (a + 1) * A <= ((g + 1) * d) * A
  <2>1. (g + 1) * d = g * d + d /\ g * d \in Nat
    BY <1>2
  <2>2. (g + 1) * d \in Nat /\ a + 1 <= (g + 1) * d
    BY <1>2, <2>1
  <2> QED BY <2>2, Product
<1>6. (a + 1) * A = a * A + A
  OBVIOUS
<1>7. (g * d) * A = g * (A * d) /\ ((g + 1) * d) * A = (g + 1) * (A * d)
  <2>1. PICK h \in Nat : h = g + 1
    BY <1>2
  <2>2. (h * d) * A = h * (A * d)
    OBVIOUS
  <2>3. (g * d) * A = g * (A * d)
    BY <1>2
  <2> QED BY <2>1, <2>2, <2>3
<1>8. PICK X \in Nat, Y \in Nat, Z \in Nat :
        X = g * (A * d) /\ Y = a * A /\ Z = (g + 1) * (A * d)
  BY <1>2
<1>9. X <= Y /\ Y <= f /\ f < Y + A /\ Y + A <= Z
  BY <1>1, <1>4, <1>5, <1>6, <1>7, <1>8
<1> QED BY <1>2, <1>3, <1>8, <1>9

LEMMA Once ==
    ASSUME NEW f \in Nat, NEW d \in Nat \ {0}, NEW g, g = f \div d
    PROVE  g \in Nat /\ g * d <= f /\ f < (g + 1) * d
<1>1. g \in Nat /\ g * d <= f /\ f < g * d + d
  BY Divided
<1>2. (g + 1) * d = g * d + d
  BY <1>1
<1> QED BY <1>1, <1>2

(* The fields of a PLL. *)
LEMMA PllFields ==
    ASSUME SysctlInv, NEW p \in {"PLL0", "PLL1", "PLL2"}
    PROVE  /\ Factor(sysctl, p) \in 1 .. 64
           /\ sysctl.pll[p].clkr + 1 \in 1 .. 16
           /\ sysctl.pll[p].clkod + 1 \in 1 .. 16
           /\ Quotient(sysctl, p) \in Nat
<1>1. PICK c \in Configs : sysctl.pll = c.pll
  BY DEF SysctlInv, SysctlRegs
<1>2. PICK r : r = sysctl.pll[p]
  OBVIOUS
<1>3. r \in [clkr : 0 .. 15, clkf : 0 .. 63, clkod : 0 .. 15]
  <2>1. c.pll \in [Range(Plls) -> [clkr : 0 .. 15, clkf : 0 .. 63, clkod : 0 .. 15]]
    BY SysctlAssumption
  <2>2. p \in Range(Plls)
    BY DevicesApart
  <2> QED BY <1>1, <1>2, <2>1, <2>2
<1>4. r.clkr \in 0 .. 15 /\ r.clkf \in 0 .. 63 /\ r.clkod \in 0 .. 15
  BY <1>3
<1>5. PICK d \in 1 .. 16, m \in 1 .. 64, o \in 1 .. 16 :
         d = r.clkr + 1 /\ m = r.clkf + 1 /\ o = r.clkod + 1
  <2>1. r.clkr + 1 \in 1 .. 16 /\ r.clkf + 1 \in 1 .. 64 /\ r.clkod + 1 \in 1 .. 16
    BY <1>4
  <2> QED BY <2>1, Zenon
<1>6. d * o \in Nat
  OBVIOUS
<1> QED BY <1>2, <1>5, <1>6 DEF Factor, Quotient

(* What PllOut makes of its input. *)
LEMMA PllOutBelow ==
    ASSUME SysctlInv, NEW p \in {"PLL0", "PLL1", "PLL2"}, NEW x \in Nat,
           NEW f, f = PllOut(sysctl.pll[p], x)
    PROVE  /\ f \in Nat
           /\ f * Quotient(sysctl, p) <= x * Factor(sysctl, p)
<1>1. PICK d \in 1 .. 16, m \in 1 .. 64, o \in 1 .. 16 :
         /\ d = sysctl.pll[p].clkr + 1 /\ m = Factor(sysctl, p)
         /\ o = sysctl.pll[p].clkod + 1
  BY PllFields, Zenon
<1>2. f = (((x \div d) * m) % Word) \div o
  BY <1>1 DEF PllOut, Factor
<1>3. d \in Nat \ {0} /\ m \in Nat /\ o \in Nat \ {0}
  OBVIOUS
<1>4. f \in Nat /\ f * (d * o) <= x * m
  BY <1>2, <1>3, PllBelow
<1>5. Quotient(sysctl, p) = d * o
  BY <1>1 DEF Quotient
<1> QED BY <1>1, <1>4, <1>5

LEMMA FirstPll ==
    ASSUME SysctlInv, NEW p \in {"PLL0", "PLL1"}, NEW f, f = sysctl_pll_get_freq(sysctl, p)
    PROVE  /\ f \in Nat /\ f = PllOut(sysctl.pll[p], IN0)
           /\ Above(sysctl, p) = IN0 * Factor(sysctl, p)
           /\ Below(sysctl, p) = Quotient(sysctl, p)
           /\ f * Quotient(sysctl, p) <= IN0 * Factor(sysctl, p)
<1>1. f = PllOut(sysctl.pll[p], IN0)
  BY DEF sysctl_pll_get_freq
<1>2. IN0 \in Nat
  BY SysctlAssumption
<1>3. /\ Above(sysctl, p) = IN0 * Factor(sysctl, p)
      /\ Below(sysctl, p) = Quotient(sysctl, p)
  BY DEF Above, Below
<1> QED BY <1>1, <1>2, <1>3, PllOutBelow

(* No root is above its true frequency. *)
LEMMA RootBelow ==
    ASSUME SysctlInv, NEW root \in {"IN0", "PLL0", "PLL1", "PLL2"},
           NEW f, f = sysctl_clock_source_get_freq(sysctl, root)
    PROVE  /\ f \in Nat /\ Below(sysctl, root) \in Nat /\ Above(sysctl, root) \in Nat
           /\ f * Below(sysctl, root) <= Above(sysctl, root)
<1>1. CASE root = "IN0"
  <2>1. f = IN0 /\ Above(sysctl, root) = IN0 /\ Below(sysctl, root) = 1
    <3>1. root \notin Range(Plls) /\ root # "ACLK" /\ root \notin {"PLL0", "PLL1", "PLL2"}
      BY <1>1, DevicesApart
    <3> QED BY <1>1, <3>1 DEF sysctl_clock_source_get_freq, Above, Below
  <2>2. IN0 \in Nat
    BY SysctlAssumption
  <2> QED BY <2>1, <2>2
<1>2. CASE root # "IN0"
  <2>1. f = sysctl_pll_get_freq(sysctl, root)
    BY <1>2, DevicesApart DEF sysctl_clock_source_get_freq
  <2>2. CASE root \in {"PLL0", "PLL1"}
    <3>1. PICK m \in 1 .. 64, q \in Nat : m = Factor(sysctl, root) /\ q = Quotient(sysctl, root)
      BY <2>2, PllFields, Zenon
    <3>2. /\ f \in Nat /\ Above(sysctl, root) = IN0 * m /\ Below(sysctl, root) = q
          /\ f * q <= IN0 * m
      BY <2>1, <2>2, <3>1, FirstPll
    <3>3. IN0 * m \in Nat
      BY SysctlAssumption
    <3> QED BY <3>1, <3>2, <3>3
  <2>3. CASE root = "PLL2"
    <3>1. PICK m \in 1 .. 64, q \in Nat : m = Factor(sysctl, "PLL2") /\ q = Quotient(sysctl, "PLL2")
      <4>1. "PLL2" \in {"PLL0", "PLL1", "PLL2"}
        OBVIOUS
      <4> QED BY <4>1, PllFields, Zenon
    <3>2. PICK k \in 0 .. 3 : k = sysctl.select["PLL2"]
      <4>1. PICK c \in Configs : sysctl.select = c.select
        BY DEF SysctlInv, SysctlRegs
      <4>2. c.select["PLL2"] \in 0 .. 3
        BY SysctlAssumption
      <4> QED BY <4>1, <4>2
    <3>3. IN0 \in Nat /\ IN0 * m \in Nat
      BY SysctlAssumption
    <3>4. CASE k = 0
      <4>1. Feeds(sysctl) = "IN0"
        BY <3>2, <3>4 DEF Feeds
      <4>2. f = PllOut(sysctl.pll["PLL2"], IN0)
        BY <2>1, <2>3, <3>2, <3>4 DEF sysctl_pll_get_freq, sysctl_clock_get_clock_select
      <4>3. Above(sysctl, root) = IN0 * m /\ Below(sysctl, root) = q
        BY <2>3, <3>1, <4>1 DEF Above, Below
      <4>4. f \in Nat /\ f * q <= IN0 * m
        BY <3>1, <3>3, <4>2, PllOutBelow
      <4> QED BY <3>3, <4>3, <4>4
    <3>5. CASE k = 3
      <4>1. Feeds(sysctl) = "none"
        BY <3>2, <3>5 DEF Feeds
      <4>2. f = 0
        BY <2>1, <2>3, <3>2, <3>5 DEF sysctl_pll_get_freq, sysctl_clock_get_clock_select
      <4>3. Above(sysctl, root) = 0 /\ Below(sysctl, root) = q
        BY <2>3, <3>1, <4>1 DEF Above, Below
      <4> QED BY <4>2, <4>3
    <3>6. CASE k \in {1, 2}
      <4>1. PICK p \in {"PLL0", "PLL1"} : Feeds(sysctl) = p
        <5>1. k = 1 => Feeds(sysctl) = "PLL0"
          BY <3>2 DEF Feeds
        <5>2. k = 2 => Feeds(sysctl) = "PLL1"
          BY <3>2 DEF Feeds
        <5> QED BY <3>6, <5>1, <5>2
      <4>2. PICK x \in Nat : x = PllOut(sysctl.pll[p], IN0)
        BY FirstPll
      <4>3. f = PllOut(sysctl.pll["PLL2"], x)
        <5>1. CASE k = 1
          <6>1. p = "PLL0"
            BY <3>2, <4>1, <5>1 DEF Feeds
          <6> QED BY <2>1, <2>3, <3>2, <4>2, <5>1, <6>1
                  DEF sysctl_pll_get_freq, sysctl_clock_get_clock_select
        <5>2. CASE k = 2
          <6>1. p = "PLL1"
            BY <3>2, <4>1, <5>2 DEF Feeds
          <6> QED BY <2>1, <2>3, <3>2, <4>2, <5>2, <6>1
                  DEF sysctl_pll_get_freq, sysctl_clock_get_clock_select
        <5> QED BY <3>6, <5>1, <5>2
      <4>4. PICK m1 \in 1 .. 64, q1 \in Nat : m1 = Factor(sysctl, p) /\ q1 = Quotient(sysctl, p)
        BY PllFields, Zenon
      <4>5. x * q1 <= IN0 * m1
        BY <3>3, <4>2, <4>4, PllOutBelow
      <4>6. f \in Nat /\ f * q <= x * m
        BY <3>1, <4>2, <4>3, PllOutBelow
      <4>7. PICK n \in Nat : n = IN0 * m1
        BY <3>3
      <4>8. f * (q1 * q) <= n * m
        BY <4>5, <4>6, <4>7, Chained
      <4>9. Above(sysctl, root) = n * m /\ Below(sysctl, root) = q1 * q
        BY <2>3, <3>1, <4>1, <4>4, <4>7 DEF Above, Below
      <4>10. n * m \in Nat /\ q1 * q \in Nat
        OBVIOUS
      <4> QED BY <4>6, <4>8, <4>9, <4>10
    <3> QED BY <3>4, <3>5, <3>6
  <2> QED BY <1>2, <2>2, <2>3
<1> QED BY <1>1, <1>2

Divides(freq, by, f) ==
    freq \in Nat /\ by \in Nat \ {0} /\ freq * by <= f /\ f < (freq + 1) * by

LEMMA GatedIs ==
    ASSUME SysctlInv, NEW root \in {"IN0", "PLL0", "PLL1", "PLL2"},
           NEW w \in DOMAIN ThresholdBits
    PROVE  Divides(Gated(sysctl, root, w), sysctl.threshold[w] + 1,
                   sysctl_clock_source_get_freq(sysctl, root))
<1>1. PICK f \in Nat : f = sysctl_clock_source_get_freq(sysctl, root)
  BY RootBelow
<1>2. PICK t \in Nat : t = sysctl_clock_get_threshold(sysctl, w)
  BY Thresholds
<1>3. PICK g : g = f \div (t + 1)
  OBVIOUS
<1>4. t + 1 \in Nat \ {0}
  OBVIOUS
<1>5. Divides(g, t + 1, f)
  BY <1>3, <1>4, Once DEF Divides
<1>6. Gated(sysctl, root, w) = g /\ sysctl.threshold[w] = t
  BY <1>1, <1>2, <1>3 DEF Gated, sysctl_clock_get_threshold
<1> QED BY <1>1, <1>5, <1>6

LEMMA EvenIs ==
    ASSUME SysctlInv, NEW root \in {"IN0", "PLL0", "PLL1", "PLL2"},
           NEW w \in DOMAIN ThresholdBits
    PROVE  Divides(Even(sysctl, root, w), 2 * (sysctl.threshold[w] + 1),
                   sysctl_clock_source_get_freq(sysctl, root))
<1>1. PICK f \in Nat : f = sysctl_clock_source_get_freq(sysctl, root)
  BY RootBelow
<1>2. PICK t \in Nat : t = sysctl_clock_get_threshold(sysctl, w)
  BY Thresholds
<1>3. PICK d \in Nat \ {0} : d = (t + 1) * 2 /\ d = 2 * (t + 1)
  OBVIOUS
<1>4. PICK g : g = f \div d
  OBVIOUS
<1>5. Divides(g, d, f)
  BY <1>4, Once DEF Divides
<1>6. Even(sysctl, root, w) = g
  BY <1>1, <1>2, <1>3, <1>4 DEF Even
<1>7. 2 * (sysctl.threshold[w] + 1) = d
  BY <1>2, <1>3 DEF sysctl_clock_get_threshold
<1> QED BY <1>1, <1>5, <1>6, <1>7

(* ACLK is IN0, or PLL0 behind its own divider. *)
AclkRoot(s) == IF s.select["ACLK"] = 0 THEN "IN0" ELSE "PLL0"
AclkDivisor(s) == IF s.select["ACLK"] = 0 THEN 1 ELSE 2 * 2 ^ s.threshold["ACLK"]

LEMMA AclkIs ==
    ASSUME SysctlInv
    PROVE  /\ AclkRoot(sysctl) \in {"IN0", "PLL0"}
           /\ AclkDivisor(sysctl) \in Nat \ {0}
           /\ AclkFreq(sysctl) = sysctl_clock_source_get_freq(sysctl, AclkRoot(sysctl))
                                     \div AclkDivisor(sysctl)
<1>1. CASE sysctl.select["ACLK"] = 0
  <2>1. AclkRoot(sysctl) = "IN0" /\ AclkDivisor(sysctl) = 1 /\ AclkFreq(sysctl) = IN0
    BY <1>1 DEF AclkRoot, AclkDivisor, AclkFreq, sysctl_clock_get_clock_select
  <2>2. sysctl_clock_source_get_freq(sysctl, "IN0") = IN0
    <3>1. "IN0" \notin Range(Plls)
      BY DevicesApart
    <3> QED BY <3>1 DEF sysctl_clock_source_get_freq
  <2>3. IN0 \div 1 = IN0
    BY SysctlAssumption
  <2> QED BY <2>1, <2>2, <2>3
<1>2. CASE sysctl.select["ACLK"] # 0
  <2>1. PICK t \in Nat : t = sysctl_clock_get_threshold(sysctl, "ACLK")
    <3>1. "ACLK" \in DOMAIN ThresholdBits
      BY DEF ThresholdBits
    <3> QED BY <3>1, Thresholds
  <2>2. PICK w \in Nat \ {0} : w = 2 ^ t
    BY TwoPower
  <2>3. AclkRoot(sysctl) = "PLL0" /\ AclkDivisor(sysctl) = 2 * w
    BY <1>2, <2>1, <2>2 DEF AclkRoot, AclkDivisor, sysctl_clock_get_threshold
  <2>4. AclkFreq(sysctl) = sysctl_pll_get_freq(sysctl, "PLL0") \div (2 * w)
    BY <1>2, <2>1, <2>2 DEF AclkFreq, sysctl_clock_get_clock_select
  <2>5. sysctl_clock_source_get_freq(sysctl, "PLL0") = sysctl_pll_get_freq(sysctl, "PLL0")
    BY DevicesApart DEF sysctl_clock_source_get_freq
  <2>6. 2 * w \in Nat \ {0}
    OBVIOUS
  <2> QED BY <2>3, <2>4, <2>5, <2>6
<1> QED BY <1>1, <1>2

LEMMA AclkDivides ==
    ASSUME SysctlInv
    PROVE  Divides(AclkFreq(sysctl), AclkDivisor(sysctl),
                   sysctl_clock_source_get_freq(sysctl, AclkRoot(sysctl)))
<1>1. PICK root \in {"IN0", "PLL0"}, A \in Nat \ {0} :
        root = AclkRoot(sysctl) /\ A = AclkDivisor(sysctl)
  BY AclkIs
<1>2. PICK f \in Nat : f = sysctl_clock_source_get_freq(sysctl, root)
  BY RootBelow
<1>3. PICK a : a = f \div A
  OBVIOUS
<1>4. AclkFreq(sysctl) = a
  BY <1>1, <1>2, <1>3, AclkIs
<1>5. Divides(a, A, f)
  BY <1>3, Once DEF Divides
<1> QED BY <1>1, <1>2, <1>4, <1>5

LEMMA BusDivides ==
    ASSUME SysctlInv, NEW w \in DOMAIN ThresholdBits
    PROVE  Divides(Gated(sysctl, "ACLK", w), AclkDivisor(sysctl) * (sysctl.threshold[w] + 1),
                   sysctl_clock_source_get_freq(sysctl, AclkRoot(sysctl)))
<1>1. PICK root \in {"IN0", "PLL0"}, A \in Nat \ {0} :
        root = AclkRoot(sysctl) /\ A = AclkDivisor(sysctl)
  BY AclkIs
<1>2. PICK f \in Nat : f = sysctl_clock_source_get_freq(sysctl, root)
  BY RootBelow
<1>3. PICK t \in Nat : t = sysctl_clock_get_threshold(sysctl, w)
  BY Thresholds
<1>4. PICK d \in Nat \ {0} : d = t + 1
  OBVIOUS
<1>5. sysctl_clock_source_get_freq(sysctl, "ACLK") = AclkFreq(sysctl)
  BY DevicesApart DEF sysctl_clock_source_get_freq
<1>6. PICK g : g = (f \div A) \div d
  OBVIOUS
<1>7. Gated(sysctl, "ACLK", w) = g
  BY <1>1, <1>2, <1>3, <1>4, <1>5, <1>6, AclkIs DEF Gated
<1>8. Divides(g, A * d, f)
  BY <1>6, Nested DEF Divides
<1>9. sysctl.threshold[w] + 1 = d
  BY <1>3, <1>4 DEF sysctl_clock_get_threshold
<1> QED BY <1>1, <1>2, <1>7, <1>8, <1>9

Direct == {"IN0", "RTC", "PLL0", "PLL1", "PLL2"}
WithAclk == {"CPU", "DMA", "FFT", "ACLK", "HCLK"}
BelowAclk == {"SRAM0", "SRAM1", "ROM", "DVP", "APB0", "APB1", "APB2"}
OnBuses == {"GPIO", "UART1", "UART2", "UART3", "FPIOA", "SHA", "AES", "OTP"}
FromPll0 == {"SPI0", "SPI1", "SPI2", "I2C0", "I2C1", "I2C2"}
Choosing == {"SPI3", "TIMER0", "TIMER1", "TIMER2"}
FromPll2 == {"I2S0", "I2S1", "I2S2"}
Watchdogs == {"WDT0", "WDT1"}

LEMMA Kinds ==
    ASSUME NEW clock \in Clocks
    PROVE  clock \in UNION {Direct, WithAclk, BelowAclk, OnBuses, FromPll0, Choosing,
                            FromPll2, Watchdogs, {"AI"}}
<1> DEFINE K == UNION {Direct, WithAclk, BelowAclk, OnBuses, FromPll0, Choosing,
                       FromPll2, Watchdogs, {"AI"}}
<1>1. ASSUME NEW c \in Direct \cup WithAclk \cup BelowAclk \cup OnBuses PROVE c \in K
  BY <1>1
<1>2. ASSUME NEW c \in FromPll0 \cup Choosing \cup FromPll2 \cup Watchdogs PROVE c \in K
  BY <1>2
<1>3. "AI" \in K
  OBVIOUS
<1> HIDE DEF K
<1>4. CASE clock \in Devices
  <2>1. PICK i \in 1 .. 30 : clock = clk_en_peri[i] /\ clock # "reserved"
    BY <1>4, DeviceLayout
  <2>2. \/ clock \in Direct \cup WithAclk \cup BelowAclk \cup OnBuses
        \/ clock \in FromPll0 \cup Choosing \cup FromPll2 \cup Watchdogs
        \/ clock = "AI"
    <3>1. CASE i \in 1 .. 10
      BY <2>1, <3>1, DeviceNames
         DEF Direct, WithAclk, BelowAclk, OnBuses, FromPll0, Choosing, FromPll2, Watchdogs
    <3>2. CASE i \in 11 .. 20
      BY <2>1, <3>2, DeviceNames
         DEF Direct, WithAclk, BelowAclk, OnBuses, FromPll0, Choosing, FromPll2, Watchdogs
    <3>3. CASE i \in 21 .. 30
      BY <2>1, <3>3, DeviceNames
         DEF Direct, WithAclk, BelowAclk, OnBuses, FromPll0, Choosing, FromPll2, Watchdogs
    <3>4. i \in 1 .. 10 \/ i \in 11 .. 20 \/ i \in 21 .. 30
      OBVIOUS
    <3> QED BY <3>1, <3>2, <3>3, <3>4
  <2> QED BY <1>1, <1>2, <1>3, <2>2
<1>5. CASE clock \in Central
  <2>1. PICK j \in 1 .. 6 : clock = clk_en_cent[j]
    BY <1>5, CentralNames DEF Central, Range
  <2>2. clock \in WithAclk \cup BelowAclk
    BY <2>1, CentralNames DEF WithAclk, BelowAclk
  <2> QED BY <1>1, <2>2
<1>6. CASE clock \in Range(Plls) \cup {"ACLK", "HCLK", "IN0"}
  <2>1. clock \in Direct \cup WithAclk
    BY <1>6, DevicesApart DEF Direct, WithAclk
  <2> QED BY <1>1, <2>1
<1> QED BY <1>4, <1>5, <1>6 DEF Clocks, K

LEMMA NoBusClock == ASSUME NEW clock, clock \notin OnBuses PROVE BusClock(clock) = "none"
  BY BusOf DEF OnBuses

(* The driver's division is the clock tree's. *)
LEMMA ClockDivides ==
    ASSUME SysctlInv, NEW clock \in Clocks
    PROVE  /\ Root(sysctl, clock) \in {"IN0", "PLL0", "PLL1", "PLL2"}
           /\ Divides(sysctl_clock_get_freq(sysctl, clock), Divisor(sysctl, clock),
                      sysctl_clock_source_get_freq(sysctl, Root(sysctl, clock)))
<1>0. Range(Plls) = {"PLL0", "PLL1", "PLL2"}
  BY DevicesApart
<1>1. CASE clock \in Direct
  <2>1. PICK root \in {"IN0", "PLL0", "PLL1", "PLL2"} :
          root = IF clock = "RTC" THEN "IN0" ELSE clock
    BY <1>1 DEF Direct
  <2>2. clock \notin OnBuses
    BY <1>1 DEF Direct, OnBuses
  <2>3. PICK f \in Nat : f = sysctl_clock_source_get_freq(sysctl, root)
    BY RootBelow
  <2>4. sysctl_clock_get_freq(sysctl, clock) = f
    <3>1. CASE clock \in {"IN0", "RTC"}
      <4>1. root = "IN0" /\ clock \notin Range(Plls)
        BY <1>0, <2>1, <3>1
      <4>2. f = IN0
        <5>1. "IN0" \notin Range(Plls)
          BY <1>0
        <5> QED BY <2>3, <4>1, <5>1 DEF sysctl_clock_source_get_freq
      <4>3. BusClock(clock) = "none"
        BY <2>2, NoBusClock
      <4> QED BY <3>1, <4>1, <4>2, <4>3 DEF sysctl_clock_get_freq
    <3>2. CASE clock \in {"PLL0", "PLL1", "PLL2"}
      <4>1. root = clock /\ clock \in Range(Plls) /\ clock \notin {"IN0", "RTC"}
        BY <1>0, <2>1, <3>2
      <4>2. BusClock(clock) = "none"
        BY <2>2, NoBusClock
      <4> QED BY <2>3, <3>2, <4>1, <4>2 DEF sysctl_clock_get_freq
    <3> QED BY <1>1, <3>1, <3>2 DEF Direct
  <2>5. Root(sysctl, clock) = root /\ Divisor(sysctl, clock) = 1
    <3>1. clock \in Range(Plls) \/ clock \in {"IN0", "RTC"}
      BY <1>0, <1>1 DEF Direct
    <3>2. Divisor(sysctl, clock) = 1
      <4>1. BusClock(clock) = "none"
        BY <2>2, NoBusClock
      <4>2. clock \in Range(Plls) \cup {"IN0", "RTC"}
        BY <3>1
      <4> QED BY <1>0, <1>1, <4>1, <4>2 DEF Divisor, Direct
    <3>3. Root(sysctl, clock) = root
      BY <1>0, <2>1, <3>1 DEF Root
    <3> QED BY <3>2, <3>3
  <2>6. Divides(f, 1, f)
    BY DEF Divides
  <2> QED BY <2>3, <2>4, <2>5, <2>6
<1>2. CASE clock \in WithAclk
  <2>1. clock \notin Range(Plls) /\ clock \notin {"IN0", "RTC", "WDT0", "WDT1"}
    BY <1>0, <1>2 DEF WithAclk
  <2>2. BusClock(clock) = "none"
    BY <1>2, NoBusClock DEF WithAclk, OnBuses
  <2>3. sysctl_clock_get_freq(sysctl, clock) = AclkFreq(sysctl)
    BY <1>2, <2>1, <2>2 DEF WithAclk, sysctl_clock_get_freq
  <2>4. Root(sysctl, clock) = AclkRoot(sysctl)
    BY <1>2, <2>1 DEF WithAclk, Root, AclkRoot
  <2>5. Divisor(sysctl, clock) = AclkDivisor(sysctl)
    BY <1>2, <2>1, <2>2 DEF WithAclk, Divisor, AclkDivisor
  <2> QED BY <2>3, <2>4, <2>5, AclkDivides, AclkIs
<1>3. CASE clock \in BelowAclk
  <2>1. clock \notin Range(Plls) /\ clock \notin {"IN0", "RTC", "WDT0", "WDT1"}
    BY <1>0, <1>3 DEF BelowAclk
  <2>2. BusClock(clock) = "none"
    BY <1>3, NoBusClock DEF BelowAclk, OnBuses
  <2>3. sysctl_clock_get_freq(sysctl, clock) = Gated(sysctl, "ACLK", clock)
    BY <1>3, <2>1, <2>2 DEF BelowAclk, sysctl_clock_get_freq
  <2>4. Root(sysctl, clock) = AclkRoot(sysctl)
    BY <1>3, <2>1 DEF BelowAclk, Root, AclkRoot
  <2>5. Divisor(sysctl, clock) = AclkDivisor(sysctl) * (sysctl.threshold[clock] + 1)
    BY <1>3, <2>1, <2>2 DEF BelowAclk, Divisor, AclkDivisor
  <2>6. clock \in DOMAIN ThresholdBits
    BY <1>3 DEF BelowAclk, ThresholdBits
  <2> QED BY <2>3, <2>4, <2>5, <2>6, BusDivides, AclkIs
<1>4. CASE clock \in OnBuses
  <2>1. clock \notin Range(Plls) /\ clock \notin {"IN0", "RTC", "WDT0", "WDT1"}
    BY <1>0, <1>4 DEF OnBuses
  <2>2. PICK b \in {"APB0", "APB1"} : b = BusClock(clock)
    BY <1>4 DEF OnBuses, BusClock
  <2>3. sysctl_clock_get_freq(sysctl, clock) = Gated(sysctl, "ACLK", b)
    BY <1>4, <2>1, <2>2 DEF OnBuses, sysctl_clock_get_freq
  <2>4. Root(sysctl, clock) = AclkRoot(sysctl)
    BY <1>4, <2>1 DEF OnBuses, Root, AclkRoot
  <2>5. Divisor(sysctl, clock) = AclkDivisor(sysctl) * (sysctl.threshold[b] + 1)
    BY <1>4, <2>1, <2>2 DEF OnBuses, Divisor, AclkDivisor
  <2>6. b \in DOMAIN ThresholdBits
    BY DEF ThresholdBits
  <2> QED BY <2>3, <2>4, <2>5, <2>6, BusDivides, AclkIs
<1>5. CASE clock \in FromPll0
  <2>1. clock \notin Range(Plls) /\ clock \notin {"IN0", "RTC", "WDT0", "WDT1"}
    BY <1>0, <1>5 DEF FromPll0
  <2>2. BusClock(clock) = "none"
    BY <1>5, NoBusClock DEF FromPll0, OnBuses
  <2>3. sysctl_clock_get_freq(sysctl, clock) = Even(sysctl, "PLL0", clock)
    BY <1>5, <2>1, <2>2 DEF FromPll0, sysctl_clock_get_freq
  <2>4. Root(sysctl, clock) = "PLL0"
    BY <1>5, <2>1 DEF FromPll0, Root
  <2>5. Divisor(sysctl, clock) = 2 * (sysctl.threshold[clock] + 1)
    BY <1>5, <2>1, <2>2 DEF FromPll0, Divisor
  <2>6. clock \in DOMAIN ThresholdBits
    BY <1>5 DEF FromPll0, ThresholdBits
  <2> QED BY <2>3, <2>4, <2>5, <2>6, EvenIs
<1>6. CASE clock \in Choosing
  <2>1. clock \notin Range(Plls) /\ clock \notin {"IN0", "RTC", "WDT0", "WDT1"}
    BY <1>0, <1>6 DEF Choosing
  <2>2. BusClock(clock) = "none"
    BY <1>6, NoBusClock DEF Choosing, OnBuses
  <2>3. PICK root \in {"IN0", "PLL0"} :
          root = IF sysctl.select[clock] = 0 THEN "IN0" ELSE "PLL0"
    OBVIOUS
  <2>4. sysctl_clock_get_freq(sysctl, clock) = Even(sysctl, root, clock)
    <3>1. sysctl_clock_get_freq(sysctl, clock) = Selected(sysctl, clock)
      BY <1>6, <2>1, <2>2 DEF Choosing, sysctl_clock_get_freq
    <3> QED BY <2>3, <3>1 DEF Selected, sysctl_clock_get_clock_select
  <2>5. Root(sysctl, clock) = root
    BY <1>6, <2>1, <2>3 DEF Choosing, Root
  <2>6. Divisor(sysctl, clock) = 2 * (sysctl.threshold[clock] + 1)
    BY <1>6, <2>1, <2>2 DEF Choosing, Divisor
  <2>7. clock \in DOMAIN ThresholdBits
    BY <1>6 DEF Choosing, ThresholdBits
  <2> QED BY <2>4, <2>5, <2>6, <2>7, EvenIs
<1>7. CASE clock \in FromPll2
  <2>1. clock \notin Range(Plls) /\ clock \notin {"IN0", "RTC", "WDT0", "WDT1"}
    BY <1>0, <1>7 DEF FromPll2
  <2>2. BusClock(clock) = "none"
    BY <1>7, NoBusClock DEF FromPll2, OnBuses
  <2>3. sysctl_clock_get_freq(sysctl, clock) = Even(sysctl, "PLL2", clock)
    BY <1>7, <2>1, <2>2 DEF FromPll2, sysctl_clock_get_freq
  <2>4. Root(sysctl, clock) = "PLL2"
    BY <1>7, <2>1 DEF FromPll2, Root
  <2>5. Divisor(sysctl, clock) = 2 * (sysctl.threshold[clock] + 1)
    BY <1>7, <2>1, <2>2 DEF FromPll2, Divisor
  <2>6. clock \in DOMAIN ThresholdBits
    BY <1>7 DEF FromPll2, ThresholdBits
  <2> QED BY <2>3, <2>4, <2>5, <2>6, EvenIs
<1>8. CASE clock \in Watchdogs
  <2>1. clock \notin Range(Plls) /\ clock \notin {"IN0", "RTC"}
    BY <1>0, <1>8 DEF Watchdogs
  <2>2. BusClock(clock) = "none"
    BY <1>8, NoBusClock DEF Watchdogs, OnBuses
  <2>3. sysctl_clock_get_freq(sysctl, clock) = Even(sysctl, "IN0", clock)
    BY <1>8, <2>1, <2>2 DEF Watchdogs, sysctl_clock_get_freq
  <2>4. Root(sysctl, clock) = "IN0"
    BY <1>8, <2>1 DEF Watchdogs, Root
  <2>5. Divisor(sysctl, clock) = 2 * (sysctl.threshold[clock] + 1)
    BY <1>8, <2>1, <2>2 DEF Watchdogs, Divisor
  <2>6. clock \in DOMAIN ThresholdBits
    BY <1>8 DEF Watchdogs, ThresholdBits
  <2> QED BY <2>3, <2>4, <2>5, <2>6, EvenIs
<1>9. CASE clock = "AI"
  <2>1. clock \notin Range(Plls) /\ clock \notin {"IN0", "RTC", "WDT0", "WDT1"}
    BY <1>0, <1>9
  <2>2. BusClock(clock) = "none"
    BY <1>9, NoBusClock DEF OnBuses
  <2>3. sysctl_clock_get_freq(sysctl, clock) = Gated(sysctl, "PLL1", clock)
    BY <1>9, <2>1, <2>2 DEF sysctl_clock_get_freq
  <2>4. Root(sysctl, clock) = "PLL1"
    BY <1>9, <2>1 DEF Root
  <2>5. Divisor(sysctl, clock) = sysctl.threshold[clock] + 1
    BY <1>9, <2>1, <2>2 DEF Divisor
  <2>6. clock \in DOMAIN ThresholdBits
    BY <1>9 DEF ThresholdBits
  <2> QED BY <2>3, <2>4, <2>5, <2>6, GatedIs
<1> QED BY <1>1, <1>2, <1>3, <1>4, <1>5, <1>6, <1>7, <1>8, <1>9, Kinds

LEMMA FrequenciesBelow == SysctlInv => FrequencyNotAbove
<1> SUFFICES ASSUME SysctlInv PROVE FrequencyNotAbove
  OBVIOUS
<1>1. ASSUME NEW clock \in Clocks, NEW root, root = Root(sysctl, clock),
             NEW freq, freq = sysctl_clock_get_freq(sysctl, clock),
             NEW by, by = Divisor(sysctl, clock)
      PROVE  /\ freq * by * Below(sysctl, root) <= Above(sysctl, root)
             /\ sysctl_clock_source_get_freq(sysctl, root) < (freq + 1) * by
  <2>1. root \in {"IN0", "PLL0", "PLL1", "PLL2"}
    BY <1>1, ClockDivides
  <2>2. PICK f \in Nat, m \in Nat, n \in Nat :
          /\ f = sysctl_clock_source_get_freq(sysctl, root)
          /\ m = Below(sysctl, root) /\ n = Above(sysctl, root) /\ f * m <= n
    BY <2>1, RootBelow
  <2>3. freq \in Nat /\ by \in Nat /\ freq * by <= f /\ f < (freq + 1) * by
    BY <1>1, <2>2, ClockDivides DEF Divides
  <2>4. PICK v \in Nat : v = freq * by
    BY <2>3
  <2>5. v * m <= f * m
    BY <2>3, <2>4, Product
  <2>6. v * m \in Nat /\ f * m \in Nat
    OBVIOUS
  <2>7. v * m <= n
    BY <2>2, <2>5, <2>6
  <2> QED BY <2>2, <2>3, <2>4, <2>7
<1>2. ASSUME NEW p \in {"PLL0", "PLL1"}, NEW freq, freq = sysctl_pll_get_freq(sysctl, p),
             NEW r, r = sysctl.pll[p]
      PROVE  Above(sysctl, p) < (freq + 1) * Below(sysctl, p) + r.clkr * (r.clkf + 1)
  <2>1. PICK d \in 1 .. 16, m \in 1 .. 64, o \in 1 .. 16 :
          d = r.clkr + 1 /\ m = r.clkf + 1 /\ o = r.clkod + 1
    BY <1>2, PllFields, Zenon DEF Factor
  <2>2. /\ freq \in Nat
        /\ IN0 * m < (freq + 1) * d * o + r.clkr * m
    BY <1>2, <2>1, PllFrequency
  <2>3. Above(sysctl, p) = IN0 * m /\ Below(sysctl, p) = d * o
    BY <1>2, <2>1, FirstPll DEF Factor, Quotient
  <2>4. (freq + 1) * d * o = (freq + 1) * (d * o)
    BY <2>2
  <2> QED BY <2>1, <2>2, <2>3, <2>4
<1> QED BY <1>1, <1>2 DEF FrequencyNotAbove

(* For every setting of the PLLs, selectors and dividers that the registers *)
(* can hold: switching a clock on reaches its device, no device in use is   *)
(* in reset, and every clock's computed frequency is its root's divided by  *)
(* what the clock tree has on the way and not above the true one, unless a  *)
(* PLL on the way is bypassed.                                              *)
THEOREM ClocksAlwaysRight == SysctlSpec => []ClocksRight
<1>1. SysctlInit => SysctlInv
  BY SysctlInitInv
<1>2. SysctlInv /\ [SysctlNext]_sysctlVars => SysctlInv'
  BY SysctlStep
<1>3. SysctlInv => ClocksRight
  BY SysctlTypes, ClocksReach, FrequenciesBelow DEF ClocksRight
<1> QED BY <1>1, <1>2, <1>3, PTL DEF SysctlSpec
=============================================================================
