------------------------------- MODULE SdCard -------------------------------
(***************************************************************************)
(* The SD card of the K210 board: device/Sdcard.cpp over driver/spi.cpp    *)
(* and driver/dmac.cpp, with the card itself (external, in SPI mode).      *)
(*                                                                         *)
(* At boot one task wakes the card up; then processes read and write       *)
(* sectors, one at a time under the sleep lock.  A command and its answer  *)
(* are one step, as the bytes are polled under the lock.  A sector is      *)
(* moved by DMA: the task starts it, and sleeps if it is not over.  The    *)
(* card may refuse a command, or not answer until the driver gives up.     *)
(***************************************************************************)
EXTENDS Integers, FiniteSets

CONSTANTS
    Procs, None,
    Contents,      \* contents of a sector; the buffer of a read is cleared first
    Zero,
    NSectors,
    BSIZE,     \* bytes in a sector
    Tries,     \* attempts that a loop on timeout makes, for 0xff and 0xfff
    MaxOps     \* calls that are made (bound)

ASSUME SdAssumption ==
    /\ Zero \in Contents
    /\ NSectors \in Nat \ {0} /\ BSIZE \in Nat \ {0} /\ Tries \in Nat \ {0} /\ MaxOps \in Nat

Sectors == 0 .. NSectors - 1

\* The states of the DMA channel while it is set.
Channels == [proc : Procs, src : {"page", "dr"}, dest : {"page", "dr"}, on : BOOLEAN,
             flow : {"MEM2PRF", "PRF2MEM"}]

ASSUME SdNoneAssumption == None \notin Procs \cup Contents \cup Channels \cup Nat

VARIABLES
    card,            \* the card: contents, mode, high capacity, block length, command under way
    cs,              \* the chip select, pin GPIOHS7
    is_standard_sd,
    boot, timeout,   \* the step of sd_init, and the attempts left
    lock,            \* holder of sleepLock
    pc, call, buf,   \* of each process: the step, the call, the buffer
    page,            \* the page allocated for a transfer, or None
    ssi,             \* the SPI controller: enabled and selected, and the direction
    dma,             \* channel 0: enabled until the block is through
    intr,            \* its interrupt is pending
    ops, panicked

sdVars == <<card, cs, is_standard_sd, boot, timeout, lock, pc, call, buf, page, ssi, dma, intr, ops, panicked>>
disk == <<lock, pc, call, buf, page, ssi, dma, intr, ops>>
started == <<is_standard_sd, boot, timeout>>

Steps == {"idle", "lock", "command", "token", "dma", "wait", "sleep", "asleep", "answer", "status"}
Phases == {"spi", "condition", "ocr", "capacity", "size", "block", "done"}

SdTypeOK ==
    /\ card.mem \in [Sectors -> Contents] /\ card.mode \in {"off", "idle", "ready"}
    /\ card.sdhc \in BOOLEAN /\ card.len \in Nat /\ card.cmd \in Sectors \cup {None}
    /\ cs \in {"high", "low"} /\ is_standard_sd \in BOOLEAN
    /\ boot \in Phases /\ timeout \in 0 .. Tries
    /\ lock \in Procs \cup {None}
    /\ pc \in [Procs -> Steps] /\ buf \in [Procs -> Contents]
    /\ \A p \in Procs : call[p] = None \/
         (call[p].write \in BOOLEAN /\ call[p].sector \in Sectors /\ call[p].end \in 1 .. NSectors)
    /\ page \in Contents \cup {None}
    /\ ssi \in [on : BOOLEAN, tmod : {"TRANS_RECV", "TRANS", "RECV"},
               dmacr : SUBSET {"tx", "rx"}, ser : BOOLEAN]
    /\ dma = None \/ (dma.flow \in {"MEM2PRF", "PRF2MEM"} /\ dma.proc \in Procs)
    /\ intr \in BOOLEAN /\ panicked \in BOOLEAN /\ ops \in 0 .. MaxOps

SdInit ==
    /\ \E sdhc \in BOOLEAN, len \in {1, BSIZE} :
         card = [mem |-> [s \in Sectors |-> Zero], mode |-> "off", sdhc |-> sdhc,
                 len |-> IF sdhc THEN BSIZE ELSE len, cmd |-> None]
    /\ cs = "low" /\ is_standard_sd = FALSE   \* sd_init up to the 80 clock cycles
    /\ boot = "spi" /\ timeout = Tries
    /\ lock = None /\ pc = [p \in Procs |-> "idle"] /\ call = [p \in Procs |-> None]
    /\ buf = [p \in Procs |-> Zero]
    /\ page = None /\ ssi = [on |-> FALSE, tmod |-> "TRANS_RECV", dmacr |-> {}, ser |-> FALSE]
    /\ dma = None /\ intr = FALSE
    /\ ops = 0 /\ panicked = FALSE

Panic == panicked' = TRUE /\ UNCHANGED <<card, cs, started, disk>>

-----------------------------------------------------------------------------
(* sd_init.  Every attempt sends a command, reads R1 and ends the command  *)
(* with the chip select high.                                              *)

\* The loops end at 0, and the one of check_block_size, which tests before it
\* counts, one attempt later.
More == timeout > (IF boot = "size" THEN 0 ELSE 1)

\* An attempt: the answer is right and the next phase starts, or the loop goes on.
Attempt(phase, next) ==
    /\ boot = phase /\ More /\ ~panicked /\ cs' = "high"
    /\ UNCHANGED <<disk, panicked>>
    /\ \/ boot' = next /\ timeout' = Tries
       \/ boot' = phase /\ timeout' = timeout - 1 /\ UNCHANGED <<card, is_standard_sd>>

\* sd_init returns 0xff and SdCard::init panics: no attempt is left, or CMD8 or
\* CMD55 is not answered as it should be.
Fail ==
    /\ boot # "done" /\ ~panicked
    /\ boot \in {"condition", "capacity"} \/ ~More
    /\ Panic

switch_to_SPI_mode ==
    /\ Attempt("spi", "condition")
    /\ boot' = "condition" => card' = [card EXCEPT !.mode = "idle"] /\ UNCHANGED is_standard_sd

verify_operation_condition ==
    /\ boot = "condition" /\ card.mode = "idle" /\ ~panicked
    /\ boot' = "ocr" /\ timeout' = Tries /\ cs' = "high"
    /\ UNCHANGED <<card, is_standard_sd, disk, panicked>>

read_OCR ==
    /\ card.mode = "idle" /\ Attempt("ocr", "capacity")
    /\ boot' = "capacity" => UNCHANGED <<card, is_standard_sd>>

\* CMD55 and ACMD41, until the card has left the idle state.
set_SDXC_capacity ==
    /\ Attempt("capacity", "size")
    /\ boot' = "size" => card' = [card EXCEPT !.mode = "ready"] /\ UNCHANGED is_standard_sd

\* CMD58: a card without high capacity has its block length set first.
check_block_size ==
    /\ card.mode = "ready" /\ Attempt("size", IF card.sdhc THEN "done" ELSE "block")
    /\ boot' \in {"block", "done"} => is_standard_sd' = FALSE /\ UNCHANGED card

set_block_size ==
    /\ Attempt("block", "done")
    /\ boot' = "done" => card' = [card EXCEPT !.len = BSIZE] /\ is_standard_sd' = TRUE

-----------------------------------------------------------------------------
(* A call.  All of it but the wait for the lock and for the DMA is polled. *)

Up == boot = "done" /\ ~panicked /\ UNCHANGED <<started, panicked>>

\* SdCard::read and write; a call that is not of whole sectors returns -1.
Call(p, write, sector, end, d) ==
    /\ Up /\ pc[p] = "idle" /\ ops < MaxOps /\ ops' = ops + 1
    /\ sector < end
    /\ call' = [call EXCEPT ![p] = [write |-> write, sector |-> sector, end |-> end]]
    /\ buf' = [buf EXCEPT ![p] = IF write THEN d ELSE Zero]
    /\ pc' = [pc EXCEPT ![p] = "lock"]
    /\ UNCHANGED <<card, cs, lock, page, ssi, dma, intr>>

\* Mutant: the lock is not waited for.
Lock_Not(p) ==
    /\ Up /\ pc[p] = "lock"
    /\ lock' = p /\ pc' = [pc EXCEPT ![p] = "command"]
    /\ UNCHANGED <<card, cs, call, buf, page, ssi, dma, intr, ops>>

Lock(p) ==
    /\ Up /\ pc[p] = "lock" /\ lock = None
    /\ lock' = p /\ pc' = [pc EXCEPT ![p] = "command"]
    /\ UNCHANGED <<card, cs, call, buf, page, ssi, dma, intr, ops>>

\* The address that the driver sends, and the sector that the card takes it for.
Address(s) == IF is_standard_sd THEN s * BSIZE ELSE s
Decode(a)  == IF card.sdhc THEN a ELSE a \div card.len

\* CMD17 or CMD24 and its R1: accepted, or the driver panics.
sd_send_cmd(p) ==
    /\ boot = "done" /\ ~panicked /\ pc[p] = "command"
    /\ \/ Panic
       \/ /\ Decode(Address(call[p].sector)) \in Sectors
          /\ cs' = "low"
          /\ card' = [card EXCEPT !.cmd = Decode(Address(call[p].sector))]
          /\ pc' = [pc EXCEPT ![p] = "token"]
          /\ UNCHANGED <<started, panicked, lock, call, buf, page, ssi, dma, intr, ops>>

\* The start token comes from the card, or goes to it; without it the driver panics.
Token(p) ==
    /\ boot = "done" /\ ~panicked /\ pc[p] = "token"
    /\ \/ ~call[p].write /\ Panic
       \/ /\ pc' = [pc EXCEPT ![p] = "dma"]
          /\ UNCHANGED <<card, cs, started, panicked, lock, call, buf, page, ssi, dma, intr, ops>>

\* spi_init switches the controller off and clears its directions.
spi_init == [on |-> FALSE, tmod |-> "TRANS_RECV", dmacr |-> {}, ser |-> FALSE]

spi_set_tmod(s, tmod) == [s EXCEPT !.tmod = tmod]

\* The data register of the controller is no memory, the allocator's pages are.
is_memory(a) == a # "dr"

\* The channel's source and destination, and with them who sets the pace.
dmac_set_channel_param(p, src, dest) ==
    [proc |-> p, src |-> src, dest |-> dest, on |-> FALSE,
     flow |-> CASE is_memory(src) /\ ~is_memory(dest) -> "MEM2PRF"
                [] ~is_memory(src) /\ is_memory(dest) -> "PRF2MEM"
                [] OTHER -> "MEM2MEM"]

dmac_channel_enable(d) == [d EXCEPT !.on = TRUE]

\* The interrupt is cleared and the channel stopped, set and started.
dmac_set_single_mode(p, src, dest) ==
    /\ intr' = FALSE
    /\ dma' = dmac_channel_enable(dmac_set_channel_param(p, src, dest))

\* A page is allocated for the words of the sector: the data that is sent, or
\* whatever the page held before.
spi_send_data_standard_dma(p) ==
    /\ Up /\ pc[p] = "dma" /\ call[p].write
    /\ page' = buf[p]
    /\ ssi' = [spi_set_tmod(spi_init, "TRANS") EXCEPT !.dmacr = {"tx"}, !.on = TRUE, !.ser = TRUE]
    /\ dmac_set_single_mode(p, "page", "dr")
    /\ pc' = [pc EXCEPT ![p] = "wait"]
    /\ UNCHANGED <<card, cs, lock, call, buf, ops>>

spi_receive_data_standard_dma(p) ==
    /\ Up /\ pc[p] = "dma" /\ ~call[p].write
    /\ page' \in Contents
    /\ ssi' = [spi_set_tmod(spi_init, "RECV") EXCEPT !.dmacr = {"tx", "rx"}, !.on = TRUE, !.ser = TRUE]
    /\ dmac_set_single_mode(p, "dr", "page")
    /\ pc' = [pc EXCEPT ![p] = "wait"]
    /\ UNCHANGED <<card, cs, lock, call, buf, ops>>

\* Mutant: the transfer is not waited for.
dmac_wait_idle_Not(p) ==
    /\ Up /\ pc[p] = "wait"
    /\ pc' = [pc EXCEPT ![p] = "answer"]
    /\ UNCHANGED <<card, cs, lock, call, buf, page, ssi, dma, intr, ops>>

\* dmac_wait_idle: the test, and then, with the task's lock, the sleep.
dmac_wait_idle(p) ==
    /\ Up /\ pc[p] = "wait"
    /\ pc' = [pc EXCEPT ![p] = IF dma = None THEN "answer" ELSE "sleep"]
    /\ UNCHANGED <<card, cs, lock, call, buf, page, ssi, dma, intr, ops>>

Sleep(p) ==
    /\ Up /\ pc[p] = "sleep"
    /\ pc' = [pc EXCEPT ![p] = "asleep"]
    /\ UNCHANGED <<card, cs, lock, call, buf, page, ssi, dma, intr, ops>>

\* The channel moves the sector between the card and the page and stops.
DmaFinish ==
    /\ dma # None /\ dma.on /\ ssi.on /\ ssi.ser /\ card.cmd # None /\ cs = "low"
    /\ \/ /\ dma.flow = "PRF2MEM" /\ ssi.tmod = "RECV" /\ "rx" \in ssi.dmacr
          /\ page' = card.mem[card.cmd] /\ UNCHANGED card
       \/ /\ dma.flow = "MEM2PRF" /\ ssi.tmod = "TRANS" /\ "tx" \in ssi.dmacr
          /\ card' = [card EXCEPT !.mem[card.cmd] = page] /\ UNCHANGED page
    /\ dma' = None /\ intr' = TRUE
    /\ UNCHANGED <<cs, started, panicked, lock, pc, call, buf, ssi, ops>>

dmac_intr ==
    /\ intr /\ intr' = FALSE
    /\ pc' = [p \in Procs |-> IF pc[p] = "asleep" THEN "wait" ELSE pc[p]]
    /\ UNCHANGED <<card, cs, started, panicked, lock, call, buf, page, ssi, dma, ops>>

\* The controller is switched off and the page copied out and freed; the CRC;
\* for a write the data response and the end of programming, or a panic; then
\* the command ends.
Answer(p) ==
    /\ boot = "done" /\ ~panicked /\ pc[p] = "answer"
    /\ \/ call[p].write /\ Panic
       \/ /\ ssi' = [ssi EXCEPT !.on = FALSE, !.ser = FALSE]
          /\ buf' = IF call[p].write THEN buf ELSE [buf EXCEPT ![p] = page]
          /\ page' = None
          /\ card' = [card EXCEPT !.cmd = None]
          /\ cs' = "high"
          /\ pc' = [pc EXCEPT ![p] = "status"]
          /\ UNCHANGED <<started, panicked, lock, call, dma, intr, ops>>

\* For a write CMD13, which may report an error; then the lock is released and
\* the call goes on with its next sector.
Status(p) ==
    /\ boot = "done" /\ ~panicked /\ pc[p] = "status"
    /\ \/ call[p].write /\ Panic
       \/ LET more == call[p].sector + 1 < call[p].end
          IN /\ lock' = None
             /\ call' = [call EXCEPT ![p] = IF more THEN [call[p] EXCEPT !.sector = call[p].sector + 1] ELSE None]
             /\ buf' = [buf EXCEPT ![p] = IF more /\ call[p].write THEN @ ELSE Zero]
             /\ pc' = [pc EXCEPT ![p] = IF more THEN "lock" ELSE "idle"]
             /\ UNCHANGED <<card, cs, started, panicked, page, ssi, dma, intr, ops>>

StartUp == switch_to_SPI_mode \/ verify_operation_condition \/ read_OCR \/ set_SDXC_capacity
        \/ check_block_size \/ set_block_size

SdNext ==
    \/ StartUp \/ Fail \/ DmaFinish \/ dmac_intr
    \/ \E p \in Procs :
         \/ \E write \in BOOLEAN, s \in Sectors, e \in 1 .. NSectors, d \in Contents \ {Zero} :
              Call(p, write, s, e, d)
         \/ Lock(p) \/ sd_send_cmd(p) \/ Token(p)
         \/ spi_send_data_standard_dma(p) \/ spi_receive_data_standard_dma(p)
         \/ dmac_wait_idle(p) \/ Sleep(p) \/ Answer(p) \/ Status(p)

SdSpec == SdInit /\ [][SdNext]_sdVars

-----------------------------------------------------------------------------
(* Properties.                                                             *)

\* The card is out of the idle state, its blocks have BSIZE bytes, and the
\* driver knows how to address it.
CardStarted ==
    card.mode = "ready" /\ card.len = BSIZE /\ is_standard_sd = ~card.sdhc

\* When sd_init has returned 0, whatever the card refused on the way, the card
\* is as the driver takes it to be.  From then on the command, the chip select,
\* the SPI controller and the DMA channel belong to the process that holds
\* sleepLock, and none of them is left over when the lock is free.
BusHeld ==
    /\ SdTypeOK
    /\ boot = "done" /\ ~panicked =>
        /\ CardStarted
        /\ \A p \in Procs : pc[p] \notin {"idle", "lock"} => lock = p
        /\ card.cmd # None => /\ cs = "low" /\ lock # None
                              /\ card.cmd = call[lock].sector
        /\ ssi.on => lock # None /\ pc[lock] \in {"wait", "sleep", "asleep", "answer"}
        /\ dma # None => dma.proc = lock /\ ssi.on /\ page # None

\* A sector that was read is what the card has, and a sector that was written
\* is what the caller gave, when the lock is released.
SectorMoved ==
    \A p \in Procs : pc[p] = "status" => buf[p] = card.mem[call[p].sector]

\* dmac_wait_done waits for the transfer: a process sleeps only while the
\* transfer is under way or its interrupt is still to come.
SleepsWhileBusy ==
    \A p \in Procs : pc[p] = "asleep" => dma # None \/ intr

=============================================================================
