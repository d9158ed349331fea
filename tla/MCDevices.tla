------------------------------ MODULE MCDevices ------------------------------
(***************************************************************************)
(* One run for the board's device code.  The parts share no state, so a    *)
(* behaviour runs one of them while the others stay in an initial state:   *)
(* the state spaces of the parts add up instead of multiplying.            *)
(***************************************************************************)
EXTENDS Pins, MCRtc, RtcTicks, Sysctl, SdCard

VARIABLE part

(* Pads that hold one of the card's functions, or another pull, at reset. *)
Parked == Setting(FUNC_RESV0)
Held == {Parked, [Parked EXCEPT !.on = @ \cup {"pu", "pd"}]}
            \cup {Setting(Wires[i][2]) : i \in DOMAIN Wires}
PadsWith(a, b, c) ==
    [n \in IO |-> CASE n = 5 -> a [] n = 29 -> b [] n = 32 -> c
                    [] OTHER -> Parked]
MCPads == {PadsWith(a, b, c) : a, b, c \in Held}

P(r, f, o) == [clkr |-> r, clkf |-> f, clkod |-> o]
\* PLL1 is bypassed when PLL2 runs from it and ACLK from the oscillator.
Loaded(r, f, o, k, a) ==
    [pll |-> [PLL0 |-> P(r, f, o), PLL1 |-> P(0, f, 0), PLL2 |-> P(0, f, 1)],
     select |-> [PLL2 |-> k, ACLK |-> a, SPI3 |-> a,
                 TIMER0 |-> 0, TIMER1 |-> 1, TIMER2 |-> a,
                 PLL0_BYPASS |-> 0, PLL2_BYPASS |-> 0,
                 PLL1_BYPASS |-> IF k = 2 /\ a = 0 THEN 1 ELSE 0],
     threshold |-> [x \in DOMAIN ThresholdBits |->
         IF x = "ACLK" THEN k ELSE 2 ^ ThresholdBits[x] - 1]]
MCConfigs == {Loaded(r, f, o, k, a) :
                 r \in {0, 2, 15}, f \in {0, 29, 63}, o \in {0, 1, 15},
                 k \in 0 .. 3, a \in 0 .. 1}
-----------------------------------------------------------------------------
MCInit ==
    /\ part \in {"pins", "rtc", "ticks", "sysctl", "sd"}
    /\ PinsInit /\ (part # "pins" => io = PadsWith(Parked, Parked, Parked))
    /\ RtcInit
    /\ TicksInit
    /\ SdInit /\ (part # "sd" => card.sdhc)
    /\ SysctlInit
    /\ part # "sysctl" => /\ sysctl.pll = Loaded(0, 0, 0, 0, 0).pll
                          /\ sysctl.select = Loaded(0, 0, 0, 0, 0).select
                          /\ sysctl.threshold = Loaded(0, 0, 0, 0, 0).threshold
                          /\ sysctl.clk_en_cent = {}

MCNext ==
    /\ UNCHANGED part
    /\ IF part = "pins" THEN PinsNext ELSE UNCHANGED pinVars
    /\ IF part = "rtc" THEN RtcNext ELSE UNCHANGED rtcVars
    /\ IF part = "ticks" THEN TicksNext ELSE UNCHANGED tickVars
    /\ IF part = "sysctl" THEN SysctlNext ELSE UNCHANGED sysctlVars
    /\ IF part = "sd" THEN SdNext ELSE UNCHANGED sdVars

MCSpec == MCInit /\ [][MCNext]_<<part, pinVars, rtcVars, tickVars, sysctlVars, sdVars>>
=============================================================================
