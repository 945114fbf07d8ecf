-------------------------------- MODULE Ata --------------------------------
(***************************************************************************)
(* The disk driver, src/drivers/ata/ata.c, and the device it polls: one    *)
(* caller reads and writes sectors while the device works at its own pace, *)
(* reports errors, or answers too late.  The device is external: it keeps  *)
(* what is written in a cache until it is flushed, is busy from the moment *)
(* a command is accepted, ignores commands while it waits for a transfer   *)
(* (DRQ), and keeps ERR set until the next command.                        *)
(***************************************************************************)
EXTENDS Integers, FiniteSets

CONSTANTS
  Sectors, Values,
  Initial,      \* what the sectors hold at first
  Timeout,      \* polls before a wait gives up, 1000000
  MaxCalls      \* bound: calls

NoValue == "none"

ASSUME AtaAssumption ==
  /\ Initial \in Values /\ NoValue \notin Values
  /\ Timeout \in Nat \ {0} /\ MaxCalls \in Nat

VARIABLES
  bsy, drq, err,       \* the status register; RDY is set whenever BSY is not
  command, sector,     \* what the device is executing, and where
  data,                \* its transfer buffer
  media, cache,
  pc,                  \* where the driver is
  polls,               \* polls left
  call,                \* the call: operation, lba and buffer
  result,              \* what the last call returned
  possible,            \* history: what a sector may hold
  late,                \* history: a wait timed out
  calls                \* bound: calls so far

deviceVars == <<bsy, drq, err, command, sector, data, media, cache>>
vars == <<deviceVars, pc, polls, call, result, possible, late, calls>>

Init ==
  /\ bsy = FALSE /\ drq = FALSE /\ err = FALSE
  /\ command = "none" /\ sector \in Sectors /\ data = NoValue
  /\ media = [s \in Sectors |-> Initial]
  /\ cache = [s \in Sectors |-> NoValue]
  /\ pc = "idle" /\ polls = 0
  /\ call = [op |-> "none", lba |-> sector, buffer |-> NoValue]
  /\ result = "none"
  /\ possible = [s \in Sectors |-> {Initial}]
  /\ late = FALSE /\ calls = 0

-----------------------------------------------------------------------------
(* The driver.  pc is "ready", "drq", "written" or "flushed" while it waits  *)
(* for readiness, for DRQ, or for the end of the write or of the flush, and *)
(* "transfer" between a DRQ it has seen and the transfer.                    *)

Begin(op, lba, buffer) ==
  /\ pc = "idle" /\ calls < MaxCalls
  /\ calls' = calls + 1
  /\ pc' = "ready" /\ polls' = Timeout
  /\ call' = [op |-> op, lba |-> lba, buffer |-> buffer]
  /\ result' = "none"
  /\ UNCHANGED <<deviceVars, late>>

ata_read_sector(lba) == Begin("read", lba, NoValue) /\ UNCHANGED possible

\* From here on the sector may hold the new value.
ata_write_sector(lba, buffer) ==
  /\ Begin("write", lba, buffer)
  /\ possible' = [possible EXCEPT ![lba] = @ \cup {buffer}]

Return(status) == pc' = "idle" /\ result' = status

commandVars == <<bsy, command, sector, data>>

\* The device takes a command unless it is waiting for a transfer.
Issue(op) ==
  IF drq
  THEN UNCHANGED commandVars
  ELSE bsy' = TRUE /\ command' = op /\ sector' = call.lba /\ data' = NoValue

\* A status that ends the wait with success.
Awaited == IF pc = "drq" THEN ~bsy /\ drq ELSE ~bsy

\* The wait is over: the driver goes on up to its next wait or transfer.
wait_done ==
  /\ CASE pc = "ready" ->
            Issue(call.op) /\ pc' = "drq" /\ polls' = Timeout
            /\ UNCHANGED <<result, possible>>
       [] pc = "drq" ->
            pc' = "transfer" /\ UNCHANGED <<commandVars, polls, result, possible>>
       [] pc = "written" ->
            Issue("flush") /\ pc' = "flushed" /\ polls' = Timeout
            /\ UNCHANGED <<result, possible>>
       [] pc = "flushed" ->
            /\ Return("ok")
            /\ possible' = [possible EXCEPT ![call.lba] = {call.buffer}]
            /\ UNCHANGED <<commandVars, polls>>
  /\ UNCHANGED late

poll_forever ==
  /\ pc \in {"ready", "drq", "written", "flushed"}
  /\ CASE err -> Return("fail") /\ UNCHANGED <<commandVars, polls, possible, late>>
       [] ~err /\ Awaited -> wait_done
       [] OTHER -> UNCHANGED <<commandVars, pc, polls, result, possible, late>>
  /\ UNCHANGED <<drq, err, media, cache, call, calls>>

\* One read of the status in ata_wait_ready or ata_wait_drq.
poll ==
  /\ pc \in {"ready", "drq", "written", "flushed"}
  /\ CASE err -> Return("fail") /\ UNCHANGED <<commandVars, polls, possible, late>>
       [] ~err /\ Awaited -> wait_done
       [] ~err /\ ~Awaited /\ polls > 1 ->
            polls' = polls - 1
            /\ UNCHANGED <<commandVars, pc, result, possible, late>>
       [] OTHER ->
            Return("fail") /\ polls' = 0 /\ late' = TRUE
            /\ UNCHANGED <<commandVars, possible>>
  /\ UNCHANGED <<drq, err, media, cache, call, calls>>

\* The 256 words of the sector.  A device whose DRQ was for the other direction
\* goes on waiting.
transfer_read ==
  /\ pc = "transfer" /\ call.op = "read"
  /\ call' = [call EXCEPT !.buffer = data]
  /\ IF command = "read" THEN drq' = FALSE /\ command' = "none"
     ELSE UNCHANGED <<drq, command>>
  /\ Return("ok")
  /\ UNCHANGED <<bsy, err, sector, data, media, cache, polls, possible, late, calls>>

transfer_write_noflush ==
  /\ pc = "transfer" /\ call.op = "write"
  /\ IF command = "write" THEN data' = call.buffer /\ drq' = FALSE /\ bsy' = TRUE
     ELSE UNCHANGED <<data, drq, bsy>>
  /\ pc' = "flushed" /\ polls' = Timeout
  /\ UNCHANGED <<err, command, sector, media, cache, call, result, possible, late, calls>>

transfer_write ==
  /\ pc = "transfer" /\ call.op = "write"
  /\ IF command = "write" THEN data' = call.buffer /\ drq' = FALSE /\ bsy' = TRUE
     ELSE UNCHANGED <<data, drq, bsy>>
  /\ pc' = "written" /\ polls' = Timeout
  /\ UNCHANGED <<err, command, sector, media, cache, call, result, possible, late, calls>>

Driver == poll \/ transfer_read \/ transfer_write

-----------------------------------------------------------------------------
(* The device *)

driverVars == <<pc, polls, call, result, possible, late, calls>>

Cached(s) == IF cache[s] = NoValue THEN media[s] ELSE cache[s]

\* A read is ready for transfer; a write waits for its data, then keeps them.
device_serve ==
  /\ bsy
  /\ bsy' = FALSE
  /\ CASE command = "read" ->
            drq' = TRUE /\ data' = Cached(sector) /\ UNCHANGED <<command, media, cache>>
       [] command = "write" /\ data = NoValue ->
            drq' = TRUE /\ UNCHANGED <<command, data, media, cache>>
       [] command = "write" /\ data # NoValue ->
            /\ cache' = [cache EXCEPT ![sector] = data]
            /\ data' = NoValue /\ command' = "none"
            /\ UNCHANGED <<drq, media>>
       [] command = "flush" ->
            /\ media' = [s \in Sectors |-> Cached(s)]
            /\ cache' = [s \in Sectors |-> NoValue]
            /\ command' = "none"
            /\ UNCHANGED <<drq, data>>
  /\ UNCHANGED <<err, sector, driverVars>>

\* The command fails.
device_error ==
  /\ bsy
  /\ bsy' = FALSE /\ err' = TRUE /\ command' = "none" /\ data' = NoValue
  /\ UNCHANGED <<drq, sector, media, cache, driverVars>>

\* A cached sector goes to the media before it is flushed.
device_write_back(s) ==
  /\ cache[s] # NoValue
  /\ media' = [media EXCEPT ![s] = cache[s]]
  /\ cache' = [cache EXCEPT ![s] = NoValue]
  /\ UNCHANGED <<bsy, drq, err, command, sector, data, driverVars>>

Next ==
  \/ \E lba \in Sectors : ata_read_sector(lba)
  \/ \E lba \in Sectors, buffer \in Values : ata_write_sector(lba, buffer)
  \/ Driver
  \/ device_serve \/ device_error
  \/ \E s \in Sectors : device_write_back(s)

\* Only the caller is sure to go on; the device may hang.
Spec == Init /\ [][Next]_vars /\ WF_vars(Driver)

-----------------------------------------------------------------------------
(* Properties *)

\* A call that returns success did what it says: a read returned what its
\* sector holds, a write is on the media and not only in the device's cache,
\* and no error was reported in this call or before.  At any other time a
\* sector holds, should the power fail, its old value or that of the write
\* in progress.  As long as no wait has timed out: the driver does not
\* abandon a command that it stops waiting for.
SectorsHold ==
  ~late =>
    /\ \A s \in Sectors : media[s] \in possible[s]
    /\ result = "ok" => /\ ~err
                        /\ call.buffer \in possible[call.lba]
                        /\ Cardinality(possible[call.lba]) = 1

\* Every call ends, whatever the device does.
CallsEnd == pc # "idle" ~> pc = "idle"
=============================================================================
