---------------------------- MODULE FunctionTable ----------------------------
(***************************************************************************)
(* function_config of src/kernel/driver/fpioa.c: the pad settings of the   *)
(* 256 functions that the K210's pin multiplexer can bring to a pin.  An   *)
(* entry is the drive strength ds and the set of its one-bit fields that   *)
(* are 1; the entry's ch_sel is its own index.                             *)
(***************************************************************************)
EXTENDS Integers

Pad(ds, on) == [ds |-> ds, on |-> on]

(* The ten settings that occur in the table. *)
Off == Pad(0, {})
In == Pad(0, {"ie_en", "st"})
InUp == Pad(0, {"ie_en", "st", "pu"})
Tied == Pad(0, {"ie_en", "st", "tie_en", "tie_val"})
Out == Pad(15, {"oe_en"})
InOut == Pad(15, {"oe_en", "ie_en", "st"})
InOutUp == Pad(15, {"oe_en", "ie_en", "st", "pu", "sl"})
Data == Pad(15, {"oe_en", "oe_inv", "ie_en", "ie_inv", "st"})
OpenDrain == Pad(0, {"oe_en", "ie_en", "st", "pu", "sl"})
OpenDrainInv == Pad(0, {"oe_en", "oe_inv", "ie_en", "st", "pu", "sl"})

Settings == {Off, In, InUp, Tied, Out, InOut, InOutUp, Data, OpenDrain,
             OpenDrainInv}

(* The rows of the table in which a setting occurs: <<function, setting>>. *)
Each(functions, pad) == functions \X {pad}

FUNC_RESV0 == 120
FUNC_SPI0_D0 == 4
FUNC_SPI0_D1 == 5
FUNC_SPI0_SS3 == 15
FUNC_SPI0_SCLK == 17
FUNC_GPIOHS0 == 24
FUNC_GPIOHS7 == 31
FUNC_MAX == 256

JTAG == Each(0 .. 2, In) \cup Each({3}, Out)
SPI0_D == Each(4 .. 11, Data)
SPI0_Select == Each(12 .. 15, Out) \cup Each({16}, Tied) \cup Each({17}, Out)
UARTHS == Each({18}, In) \cup Each({19}, Out)
RESV_6_7 == Each(20 .. 21, In)
CLK_1 == Each(22 .. 23, Out)
GPIOHS == Each(FUNC_GPIOHS0 .. 55, InOut)
GPIO == Each(56 .. 63, InOut)
UART == Each({64, 66, 68}, In) \cup Each({65, 67, 69}, Out)
SPI1_D == Each(70 .. 77, Data)
SPI1_Select == Each(78 .. 81, Out) \cup Each({82}, Tied) \cup Each({83}, Out)
SPI_SLAVE == Each({84}, Data) \cup Each(85 .. 86, In)
I2S0_Clocks == Each(87 .. 89, Out)
I2S0_Data == Each(90 .. 93, In) \cup Each(94 .. 97, Out)
I2S1_Clocks == Each(98 .. 100, Out)
I2S1_Data == Each(101 .. 104, In) \cup Each(105 .. 108, Out)
I2S2_Clocks == Each(109 .. 111, Out)
I2S2_Data == Each(112 .. 115, In) \cup Each(116 .. 119, Out)
RESV_0_5 == Each(FUNC_RESV0 .. 125, Off)
I2C == Each(126 .. 131, OpenDrain)
CMOS_Control == Each(132 .. 134, Out) \cup Each(135 .. 137, In)
CMOS_D == Each(138 .. 145, In)
SCCB == Each(146 .. 147, OpenDrainInv)
UART1_In == Each(148 .. 152, In)
UART1_Out == Each(153 .. 161, Out)
UART2_In == Each(162 .. 166, In)
UART2_Out == Each(167 .. 175, Out)
UART3_In == Each(176 .. 180, In)
UART3_Out == Each(181 .. 189, Out)
TIMER0_Toggle == Each(190 .. 193, Out)
TIMER1_Toggle == Each(194 .. 197, Out)
TIMER2_Toggle == Each(198 .. 201, Out)
CLK_2 == Each(202 .. 203, Out)
INTERNAL_Out == Each(204 .. 212, Out)
INTERNAL_In ==
    Each(213 .. 216, In) \cup Each({217}, InUp) \cup Each({218}, InOutUp)
    \cup Each(219 .. 221, In)
CONSTANT_Level == Each({222}, Off)
INTERNAL18 == Each({223}, In)
DEBUG == Each(224 .. 255, Out)

Rows == UNION
    {JTAG, SPI0_D, SPI0_Select, UARTHS, RESV_6_7, CLK_1, GPIOHS, GPIO,
     UART, SPI1_D, SPI1_Select, SPI_SLAVE, I2S0_Clocks, I2S0_Data,
     I2S1_Clocks, I2S1_Data, I2S2_Clocks, I2S2_Data, RESV_0_5, I2C,
     CMOS_Control, CMOS_D, SCCB, UART1_In, UART1_Out, UART2_In, UART2_Out,
     UART3_In, UART3_Out, TIMER0_Toggle, TIMER1_Toggle, TIMER2_Toggle,
     CLK_2, INTERNAL_Out, INTERNAL_In, CONSTANT_Level, INTERNAL18, DEBUG}

function_config ==
    [f \in 0 .. FUNC_MAX - 1 |-> CHOOSE pad \in Settings : <<f, pad>> \in Rows]
=============================================================================
