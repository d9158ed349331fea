-------------------------------- MODULE Pins --------------------------------
(***************************************************************************)
(* The pin multiplexer (driver/fpioa.c) and the high-speed GPIO            *)
(* (driver/gpiohs.cpp) of the K210 board: dev::Init brings the four SPI0   *)
(* wires of the SD card and its select line to their pads, one call of     *)
(* fpioa_set_function after the other, and the SD driver then drives the   *)
(* select line through GPIOHS pin 7.                                       *)
(*                                                                         *)
(* The pads come out of reset, or out of the boot loader, with any         *)
(* function: ResetPads is the set of multiplexer states to start from.     *)
(***************************************************************************)
EXTENDS FunctionTable, Sequences, FiniteSetsExt

CONSTANTS FPIOA_NUM_IO, ResetPads

VARIABLES io,       \* fpioa->io: what each pad is set to
          hs,       \* gpiohs: the pins enabled as input or output, the pins at 1
          wired     \* the calls of fpioa_pin_init that have been made

pinVars == <<io, hs, wired>>

IO == 0 .. FPIOA_NUM_IO - 1
GpioPins == 0 .. 31
Pulls == {"pu", "pd"}
Modes == {"INPUT", "INPUT_PULL_DOWN", "INPUT_PULL_UP", "OUTPUT"}

(* The calls of fpioa_pin_init, in order: a pad and its function. *)
Wires == << <<27, FUNC_SPI0_SCLK>>, <<28, FUNC_SPI0_D0>>, <<26, FUNC_SPI0_D1>>,
            <<32, FUNC_GPIOHS7>>, <<29, FUNC_SPI0_SS3>> >>

(* What a pad register holds: a function, a drive strength and flags. *)
PadRegisters ==
    [ch_sel : 0 .. FUNC_MAX - 1, ds : 0 .. 15,
     on : SUBSET {"oe_en", "oe_inv", "do_sel", "do_inv", "pu", "pd", "sl",
                  "ie_en", "ie_inv", "di_inv", "st"}]

ASSUME PinsAssumption ==
    /\ FPIOA_NUM_IO \in Nat /\ FPIOA_NUM_IO > 32
    /\ ResetPads \subseteq [IO -> PadRegisters]

(* The pad register that fpioa_set_function_raw writes: the table's entry *)
(* without the two tie bits, which live in registers of their own.        *)
Setting(f) ==
    [ch_sel |-> f, ds |-> function_config[f].ds,
     on |-> function_config[f].on \ {"tie_en", "tie_val"}]

fpioa_set_function_raw(pads, n, f) == [pads EXCEPT ![n] = Setting(f)]

(* Mutant: only one other pad with the function is parked. *)
fpioa_set_function_First(pads, n, f) ==
    IF \E m \in IO \ {n} : pads[m].ch_sel = f
    THEN LET m == CHOOSE m \in IO \ {n} : pads[m].ch_sel = f
         IN  fpioa_set_function_raw(
                 fpioa_set_function_raw(pads, m, FUNC_RESV0), n, f)
    ELSE fpioa_set_function_raw(pads, n, f)

(* Every other pad with the function is parked on RESV0 first. *)
fpioa_set_function(pads, n, f) ==
    LET parked == [m \in IO |->
            IF pads[m].ch_sel = f /\ m # n /\ f # FUNC_RESV0
            THEN Setting(FUNC_RESV0) ELSE pads[m]]
    IN  fpioa_set_function_raw(parked, n, f)

(* The first pad with the function; -1 when no pad has it. *)
fpioa_get_io_by_function(pads, f) ==
    LET found == {n \in IO : pads[n].ch_sel = f}
    IN  IF found = {} THEN -1 ELSE Min(found)

fpioa_set_io_pull(pads, n, pull) ==
    IF n \notin IO THEN pads
    ELSE [pads EXCEPT ![n].on =
             (@ \ Pulls) \cup (CASE pull = "NONE" -> {}
                                 [] pull = "DOWN" -> {"pd"}
                                 [] pull = "UP" -> {"pu"})]
-----------------------------------------------------------------------------
PinsInit ==
    /\ io \in ResetPads
    /\ hs = [input_en |-> {}, output_en |-> {}, output_val |-> {}]
    /\ wired = 0

fpioa_pin_init ==
    /\ wired < Len(Wires)
    /\ io' = fpioa_set_function(io, Wires[wired + 1][1], Wires[wired + 1][2])
    /\ wired' = wired + 1
    /\ UNCHANGED hs

(* The other direction is switched off before the wanted one goes on.  A  *)
(* pin that is on no pad has no pull to set.                              *)
gpiohs_set_drive_mode(pin, mode) ==
    LET pull == CASE mode = "INPUT" -> "NONE"
                  [] mode = "INPUT_PULL_UP" -> "UP"
                  [] mode \in {"INPUT_PULL_DOWN", "OUTPUT"} -> "DOWN"
        n == fpioa_get_io_by_function(io, FUNC_GPIOHS0 + pin)
        out == mode = "OUTPUT"
    IN  /\ wired = Len(Wires)
        /\ io' = fpioa_set_io_pull(io, n, pull)
        /\ hs' = [hs EXCEPT
              !.input_en = IF out THEN @ \ {pin} ELSE @ \cup {pin},
              !.output_en = IF out THEN @ \cup {pin} ELSE @ \ {pin}]
        /\ UNCHANGED wired

gpiohs_set_pin(pin, value) ==
    /\ wired = Len(Wires)
    /\ hs' = [hs EXCEPT !.output_val = IF value THEN @ \cup {pin} ELSE @ \ {pin}]
    /\ UNCHANGED <<io, wired>>

PinsNext ==
    \/ fpioa_pin_init
    \/ \E pin \in {6, 7}, mode \in Modes : gpiohs_set_drive_mode(pin, mode)
    \/ \E pin \in {6, 7}, value \in BOOLEAN : gpiohs_set_pin(pin, value)

PinsSpec == PinsInit /\ [][PinsNext]_pinVars
-----------------------------------------------------------------------------
PinsTypeOK ==
    /\ io \in [IO -> PadRegisters]
    /\ hs \in [input_en : SUBSET GpioPins, output_en : SUBSET GpioPins,
               output_val : SUBSET GpioPins]
    /\ wired \in 0 .. Len(Wires)

(* A wire that has been placed stays on its pad and on no other while the  *)
(* later ones are placed.                                                  *)
WiresApart ==
    \A i \in 1 .. wired :
        {n \in IO : io[n].ch_sel = Wires[i][2]} = {Wires[i][1]}

(* The pad of the select line drives with the table's settings, is pulled  *)
(* the way the last drive mode said and holds no pull it had at reset.     *)
SelectReachesCard ==
    /\ hs.input_en \cap hs.output_en = {}
    /\ wired = Len(Wires) =>
         /\ io[32].on \ Pulls = InOut.on
         /\ 7 \notin hs.input_en \cup hs.output_en => io[32].on \cap Pulls = {}
         /\ 7 \in hs.output_en => io[32].on \cap Pulls = {"pd"}

(* Whatever the pads held at reset, the five wires of the card end up on   *)
(* one pad each and the level that the driver gives GPIOHS pin 7 reaches   *)
(* the card.  Two pads with one function would short a data line, or       *)
(* answer for each other in fpioa_get_io_by_function.                      *)
CardWired == PinsTypeOK /\ WiresApart /\ SelectReachesCard
=============================================================================
