------------------------------- MODULE Sysctl -------------------------------
(***************************************************************************)
(* The K210's system controller (driver/sysctl.c): the clock enables of    *)
(* the buses and the devices, the device resets, the DMA request lines and *)
(* the tree of clock frequencies.  The kernel resets the RTC and switches  *)
(* its clock on, switches the DMA controller's clock on, and gives the DMA *)
(* channels of every SPI transfer their request lines; the PLLs, dividers  *)
(* and selectors stay as the boot loader left them (Configs).              *)
(***************************************************************************)
EXTENDS Integers, FiniteSets, Sequences, SequencesExt

CONSTANTS Configs,   \* settings of the PLLs, the selectors and the dividers
          IN0,       \* SYSCTRL_CLOCK_FREQ_IN0, in the unit frequencies have
          Word       \* what an uint32_t wraps at, in that unit

VARIABLES sysctl,    \* the registers
          step       \* how far the boot has come

sysctlVars == <<sysctl, step>>

(* The layouts of the registers of one-bit fields; some bits are reserved.  *)
clk_en_cent == <<"CPU", "SRAM0", "SRAM1", "APB0", "APB1", "APB2">>

clk_en_peri ==
    <<"ROM", "DMA", "AI", "DVP", "FFT", "GPIO", "SPI0", "SPI1", "SPI2", "SPI3",
      "I2S0", "I2S1", "I2S2", "I2C0", "I2C1", "I2C2", "UART1", "UART2", "UART3",
      "AES", "FPIOA", "TIMER0", "TIMER1", "TIMER2", "WDT0", "WDT1", "SHA",
      "OTP", "reserved", "RTC">>

peri_reset ==
    <<"ROM", "DMA", "AI", "DVP", "FFT", "GPIO", "SPI0", "SPI1", "SPI2", "SPI3",
      "I2S0", "I2S1", "I2S2", "I2C0", "I2C1", "I2C2", "UART1", "UART2", "UART3",
      "AES", "FPIOA", "TIMER0", "TIMER1", "TIMER2", "WDT0", "WDT1", "SHA",
      "reserved", "reserved", "RTC">>

Devices == Range(clk_en_peri) \ {"reserved"}
Central == Range(clk_en_cent)
Plls == <<"PLL0", "PLL1", "PLL2">>
Clocks == Devices \cup Central \cup Range(Plls) \cup {"ACLK", "HCLK", "IN0"}

(* The position of a field in its register. *)
Bit(layout, name) == (CHOOSE i \in DOMAIN layout : layout[i] = name) - 1

Put(bits, bit, on) == IF on THEN bits \cup {bit} ELSE bits \ {bit}

sysctl_reset_ctl(s, dev, on) ==
    IF dev = "SOC" THEN [s EXCEPT !.soft_reset = on]
    ELSE [s EXCEPT !.peri_reset = Put(@, Bit(peri_reset, dev), on)]

(* The devices of each bus. *)
OnBus(bus) ==
    CASE bus = "APB0" -> {"GPIO", "SPI2", "I2S0", "I2S1", "I2S2", "I2C0", "I2C1",
                          "I2C2", "UART1", "UART2", "UART3", "FPIOA", "TIMER0",
                          "TIMER1", "TIMER2", "SHA"}
      [] bus = "APB1" -> {"AES", "WDT0", "WDT1", "OTP", "RTC"}
      [] bus = "APB2" -> {"SPI0", "SPI1"}

sysctl_clock_bus_en(s, clock) ==
    [s EXCEPT !.clk_en_cent =
        @ \cup {Bit(clk_en_cent, b) : b \in {x \in {"APB0", "APB1", "APB2"} :
                                               clock \in OnBus(x)}}]

sysctl_clock_device_en(s, clock, on) ==
    IF clock \in Range(Plls) THEN [s EXCEPT !.pll_out = Put(@, Bit(Plls, clock), on)]
    ELSE IF clock \in Central
    THEN [s EXCEPT !.clk_en_cent = Put(@, Bit(clk_en_cent, clock), on)]
    ELSE IF clock \in Devices
    THEN [s EXCEPT !.clk_en_peri = Put(@, Bit(clk_en_peri, clock), on)]
    ELSE s

sysctl_clock_enable(s, clock) ==
    sysctl_clock_device_en(sysctl_clock_bus_en(s, clock), clock, TRUE)

(* A channel's line: a field of six bits, in one of two registers. *)
sysctl_dma_select(s, channel, select) ==
    IF channel \in 0 .. 5 THEN [s EXCEPT !.dma_sel[channel] = select % 64] ELSE s
-----------------------------------------------------------------------------
(* The dividers, with the widths of their fields. *)
ThresholdBits ==
    [ACLK |-> 2, APB0 |-> 3, APB1 |-> 3, APB2 |-> 3,
     SRAM0 |-> 4, SRAM1 |-> 4, AI |-> 4, DVP |-> 4, ROM |-> 4,
     SPI0 |-> 8, SPI1 |-> 8, SPI2 |-> 8, SPI3 |-> 8,
     TIMER0 |-> 8, TIMER1 |-> 8, TIMER2 |-> 8,
     I2S0 |-> 16, I2S1 |-> 16, I2S2 |-> 16, I2S0_M |-> 8, I2S1_M |-> 8,
     I2S2_M |-> 8, I2C0 |-> 8, I2C1 |-> 8, I2C2 |-> 8, WDT0 |-> 8, WDT1 |-> 8]

(* The fields have the widths of the registers, and no product of PllOut    *)
(* wraps: 64 times the oscillator's 26 MHz is below 2^32 Hz.                *)
ASSUME SysctlAssumption ==
    /\ IN0 \in Nat \ {0} /\ Word \in Nat /\ IN0 * 64 < Word
    /\ \A c \in Configs :
          /\ c.pll \in [Range(Plls) -> [clkr : 0 .. 15, clkf : 0 .. 63, clkod : 0 .. 15]]
          /\ c.select["PLL2"] \in 0 .. 3
          /\ \A t \in DOMAIN ThresholdBits :
                 c.threshold[t] \in 0 .. 2 ^ ThresholdBits[t] - 1

sysctl_clock_get_threshold(s, which) == s.threshold[which]

sysctl_clock_get_clock_select(s, which) == s.select[which]

(* FOUT = FIN / NR * NF / OD, in this order and in 32 bits. *)
PllOut(p, fin) == (((fin \div (p.clkr + 1)) * (p.clkf + 1)) % Word) \div (p.clkod + 1)

(* PLL2 runs from the oscillator or from another PLL; select value 3 is no  *)
(* source.                                                                  *)
sysctl_pll_get_freq(s, pll) ==
    LET first(p) == PllOut(s.pll[p], IN0)
        select == sysctl_clock_get_clock_select(s, "PLL2")
    IN  IF pll # "PLL2" THEN first(pll)
        ELSE CASE select = 0 -> PllOut(s.pll["PLL2"], IN0)
               [] select = 1 -> PllOut(s.pll["PLL2"], first("PLL0"))
               [] select = 2 -> PllOut(s.pll["PLL2"], first("PLL1"))
               [] select = 3 -> 0

(* CPU, DMA, FFT, ACLK and HCLK are one clock. *)
AclkFreq(s) ==
    IF sysctl_clock_get_clock_select(s, "ACLK") = 0 THEN IN0
    ELSE sysctl_pll_get_freq(s, "PLL0")
             \div (2 * 2 ^ sysctl_clock_get_threshold(s, "ACLK"))

sysctl_clock_source_get_freq(s, source) ==
    CASE source = "IN0" -> IN0
      [] source \in Range(Plls) -> sysctl_pll_get_freq(s, source)
      [] source = "ACLK" -> AclkFreq(s)

(* A gated divider divides by its value + 1, an even one by twice that. *)
Gated(s, source, which) ==
    sysctl_clock_source_get_freq(s, source)
        \div (sysctl_clock_get_threshold(s, which) + 1)

(* Mutant: an even divider divides by its value + 1. *)
Even_Gated(s, source, which) == Gated(s, source, which)

Even(s, source, which) ==
    sysctl_clock_source_get_freq(s, source)
        \div ((sysctl_clock_get_threshold(s, which) + 1) * 2)

(* SPI3 and the timers choose between the oscillator and PLL0. *)
Selected(s, which) ==
    Even(s, IF sysctl_clock_get_clock_select(s, which) = 0 THEN "IN0" ELSE "PLL0",
         which)

(* The bus whose clock a device simply uses. *)
BusClock(clock) ==
    CASE clock \in {"GPIO", "UART1", "UART2", "UART3", "FPIOA", "SHA"} -> "APB0"
      [] clock \in {"AES", "OTP"} -> "APB1"
      [] OTHER -> "none"

sysctl_clock_get_freq(s, clock) ==
    CASE clock \in {"IN0", "RTC"} -> IN0
      [] clock \in Range(Plls) -> sysctl_clock_source_get_freq(s, clock)
      [] clock \in {"CPU", "DMA", "FFT", "ACLK", "HCLK"} -> AclkFreq(s)
      [] clock \in {"SRAM0", "SRAM1", "ROM", "DVP", "APB0", "APB1", "APB2"} ->
             Gated(s, "ACLK", clock)
      [] clock = "AI" -> Gated(s, "PLL1", clock)
      [] clock \in {"I2S0", "I2S1", "I2S2"} -> Even(s, "PLL2", clock)
      [] clock \in {"WDT0", "WDT1"} -> Even(s, "IN0", clock)
      [] clock \in {"SPI0", "SPI1", "SPI2", "I2C0", "I2C1", "I2C2"} ->
             Even(s, "PLL0", clock)
      [] clock \in {"SPI3", "TIMER0", "TIMER1", "TIMER2"} -> Selected(s, clock)
      [] BusClock(clock) # "none" -> Gated(s, "ACLK", BusClock(clock))
-----------------------------------------------------------------------------
SysctlInit ==
    /\ \E c \in Configs, on \in {{}, {0, 1, 2, 3}} :
           sysctl = [clk_en_cent |-> on, clk_en_peri |-> {}, peri_reset |-> {},
                     soft_reset |-> FALSE, pll_out |-> {0},
                     dma_sel |-> [ch \in 0 .. 5 |-> 0],
                     pll |-> c.pll, select |-> c.select,
                     threshold |-> c.threshold]
    /\ step = "reset"

(* sysctl_reset: the device is held in reset while usleep spins. *)
ResetAssert ==
    /\ step = "reset"
    /\ sysctl' = sysctl_reset_ctl(sysctl, "RTC", TRUE)
    /\ step' = "release"

ResetRelease ==
    /\ step = "release"
    /\ sysctl' = sysctl_reset_ctl(sysctl, "RTC", FALSE)
    /\ step' = "rtc_init"

(* rtc_init and dmac_init. *)
EnableClock(dev, at, next) ==
    /\ step = at
    /\ sysctl' = sysctl_clock_enable(sysctl, dev)
    /\ step' = next

(* The two channels of an SPI transfer: receive and send. *)
SelectLine(channel, select) ==
    /\ step = "run"
    /\ sysctl' = sysctl_dma_select(sysctl, channel, select)
    /\ UNCHANGED step

SysctlNext ==
    \/ ResetAssert
    \/ ResetRelease
    \/ EnableClock("RTC", "rtc_init", "dmac_init")
    \/ EnableClock("DMA", "dmac_init", "run")
    \/ \E channel \in 0 .. 1, select \in 0 .. 3 : SelectLine(channel, select)

SysctlSpec == SysctlInit /\ [][SysctlNext]_sysctlVars
-----------------------------------------------------------------------------
SysctlTypeOK ==
    /\ sysctl.clk_en_cent \subseteq 0 .. Len(clk_en_cent) - 1
    /\ sysctl.clk_en_peri \subseteq 0 .. 31
    /\ sysctl.peri_reset \subseteq 0 .. 31
    /\ sysctl.dma_sel \in [0 .. 5 -> 0 .. 63]
    /\ \A t \in DOMAIN ThresholdBits :
           sysctl.threshold[t] \in 0 .. 2 ^ ThresholdBits[t] - 1
    /\ step \in {"reset", "release", "rtc_init", "dmac_init", "run"}

(* Switching a clock on reaches its device: in every state of the boot,     *)
(* enabling a device's clock also starts the bus that sysctl_clock_get_freq *)
(* says it is clocked by, touches no other device, and the device's reset   *)
(* is the bit its clock is; no device is left in reset once it is in use.   *)
ClockReachesDevice ==
    /\ \A dev \in Devices :
          LET s == sysctl_clock_enable(sysctl, dev)
          IN  /\ s.clk_en_peri = sysctl.clk_en_peri \cup {Bit(clk_en_peri, dev)}
              /\ BusClock(dev) # "none" =>
                     Bit(clk_en_cent, BusClock(dev)) \in s.clk_en_cent
              /\ dev # "OTP" => Bit(peri_reset, dev) = Bit(clk_en_peri, dev)
    /\ step = "run" => /\ sysctl.peri_reset = {}
                       /\ {1, 29} \subseteq sysctl.clk_en_peri
                       /\ 4 \in sysctl.clk_en_cent

(* The clock tree of the chip, for comparison: what a clock is derived from *)
(* and all that divides it on the way.                                      *)
Root(s, clock) ==
    LET chosen(which) == IF s.select[which] = 0 THEN "IN0" ELSE "PLL0"
    IN  CASE clock \in Range(Plls) -> clock
          [] clock \in {"IN0", "RTC", "WDT0", "WDT1"} -> "IN0"
          [] clock = "AI" -> "PLL1"
          [] clock \in {"I2S0", "I2S1", "I2S2"} -> "PLL2"
          [] clock \in {"SPI0", "SPI1", "SPI2", "I2C0", "I2C1", "I2C2"} -> "PLL0"
          [] clock \in {"SPI3", "TIMER0", "TIMER1", "TIMER2"} -> chosen(clock)
          [] OTHER -> chosen("ACLK")

Divisor(s, clock) ==
    LET by(which) == s.threshold[which] + 1
        aclk == IF s.select["ACLK"] = 0 THEN 1 ELSE 2 * 2 ^ s.threshold["ACLK"]
    IN  CASE clock \in Range(Plls) \cup {"IN0", "RTC"} -> 1
          [] clock = "AI" -> by(clock)
          [] clock \in {"CPU", "DMA", "FFT", "ACLK", "HCLK"} -> aclk
          [] clock \in {"SRAM0", "SRAM1", "ROM", "DVP", "APB0", "APB1", "APB2"} ->
                 aclk * by(clock)
          [] BusClock(clock) # "none" -> aclk * by(BusClock(clock))
          [] OTHER -> 2 * by(clock)

(* What feeds PLL2, and the PLLs that pass their input on unchanged. *)
Feeds(s) == <<"IN0", "PLL0", "PLL1", "none">>[s.select["PLL2"] + 1]

Bypass == [PLL0 |-> "PLL0_BYPASS", PLL1 |-> "PLL1_BYPASS", PLL2 |-> "PLL2_BYPASS"]

Bypassed(s, root) ==
    \E p \in Range(Plls) : /\ root = p \/ (root = "PLL2" /\ Feeds(s) = p)
                           /\ s.select[Bypass[p]] = 1

(* The true frequency of a root is the fraction Above / Below: a PLL        *)
(* multiplies what feeds it by NF and divides it by NR and OD.              *)
Factor(s, p) == s.pll[p].clkf + 1
Quotient(s, p) == (s.pll[p].clkr + 1) * (s.pll[p].clkod + 1)

Above(s, root) ==
    CASE root = "IN0" -> IN0
      [] root \in {"PLL0", "PLL1"} -> IN0 * Factor(s, root)
      [] root = "PLL2" -> CASE Feeds(s) = "IN0" -> IN0 * Factor(s, "PLL2")
                            [] Feeds(s) = "none" -> 0
                            [] OTHER -> IN0 * Factor(s, Feeds(s)) * Factor(s, "PLL2")

Below(s, root) ==
    CASE root = "IN0" -> 1
      [] root \in {"PLL0", "PLL1"} -> Quotient(s, root)
      [] root = "PLL2" -> CASE Feeds(s) \in {"IN0", "none"} -> Quotient(s, "PLL2")
                            [] OTHER -> Quotient(s, Feeds(s)) * Quotient(s, "PLL2")

(* No computed frequency is above the true one, whatever the boot loader    *)
(* chose, as long as it bypassed no PLL on the way (the driver reads the    *)
(* bypass bits in sysctl_clock_get_clock_select and computes the frequency  *)
(* without them); and a clock is its root divided by everything on the way  *)
(* and rounded down, PLL0 and PLL1 within what dividing before multiplying  *)
(* loses.  PLL2's product may wrap, which only lowers it.                   *)
FrequencyNotAbove ==
    /\ \A clock \in Clocks :
          LET root == Root(sysctl, clock)
              freq == sysctl_clock_get_freq(sysctl, clock)
              by == Divisor(sysctl, clock)
          IN  ~Bypassed(sysctl, root) =>
                  /\ freq * by * Below(sysctl, root) <= Above(sysctl, root)
                  /\ sysctl_clock_source_get_freq(sysctl, root) < (freq + 1) * by
    /\ \A p \in {"PLL0", "PLL1"} :
          LET freq == sysctl_pll_get_freq(sysctl, p)
              r == sysctl.pll[p]
          IN  ~Bypassed(sysctl, p) =>
                  Above(sysctl, p) < (freq + 1) * Below(sysctl, p)
                                         + r.clkr * (r.clkf + 1)

(* Enabling a clock reaches its device, over the bus that the frequency     *)
(* computation names, and no computed frequency is above the true one while *)
(* no PLL is bypassed.                                                      *)
ClocksRight == SysctlTypeOK /\ ClockReachesDevice /\ FrequencyNotAbove
=============================================================================
