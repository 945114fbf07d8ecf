------------------------------ MODULE AtaProof ------------------------------
(***************************************************************************)
(* SectorsHold for any number of sectors, values and calls, and any number *)
(* of polls before a wait gives up.                                        *)
(*                                                                         *)
(* The inductive invariant says, for as long as no wait has timed out,     *)
(* which state the device is in at every place the driver can be (InStep), *)
(* that neither the media nor the cache holds anything a sector may not    *)
(* hold (Sound), and that, without an error, only the sector being written *)
(* may hold more than one value (Certain).                                 *)
(***************************************************************************)
EXTENDS Ata, FiniteSetTheorems, TLAPS

Bytes == Values \cup {NoValue}

TypeOK ==
  /\ bsy \in BOOLEAN /\ drq \in BOOLEAN /\ err \in BOOLEAN /\ late \in BOOLEAN
  /\ sector \in Sectors
  /\ bsy => ~drq /\ command \in {"read", "write", "flush"}
  /\ call \in [op : {"none", "read", "write"}, lba : Sectors, buffer : Bytes]
  /\ media \in [Sectors -> Values] /\ cache \in [Sectors -> Bytes]
  /\ data \in Bytes
  /\ possible \in [Sectors -> SUBSET Values]
  /\ pc \in {"idle", "ready", "drq", "transfer", "written", "flushed"}
  /\ call.op = "write" => call.buffer \in Values
  /\ pc # "idle" => call.op # "none"
  /\ pc = "transfer" => drq
  /\ pc \in {"written", "flushed"} => call.op = "write"

Sound == \A s \in Sectors : /\ media[s] \in possible[s]
                            /\ cache[s] # NoValue => cache[s] \in possible[s]

Certain ==
  \A s \in Sectors :
    \/ pc # "idle" /\ call.op = "write" /\ s = call.lba
    \/ \E v \in Values : possible[s] = {v}

Resting == ~bsy /\ ~drq /\ command = "none"

Executing(op) == command = op /\ sector = call.lba

\* The device while the driver is at pc, without errors.
InStep ==
  /\ pc \in {"idle", "ready"} => Resting
  /\ pc \in {"drq", "transfer"} =>
       /\ Executing(call.op)
       /\ bsy \/ drq
       /\ call.op = "read" /\ drq => data \in possible[call.lba]
       /\ call.op = "write" => data = NoValue
  /\ pc = "written" =>
       /\ ~drq /\ call.op = "write"
       /\ \/ bsy /\ Executing("write") /\ data = call.buffer
          \/ Resting /\ Cached(call.lba) = call.buffer
  /\ pc = "flushed" =>
       /\ ~drq /\ call.op = "write"
       /\ \/ bsy /\ command = "flush" /\ Cached(call.lba) = call.buffer
          \/ Resting /\ media[call.lba] = call.buffer /\ cache[call.lba] = NoValue

Inv ==
  /\ TypeOK
  /\ ~late =>
       /\ Sound
       /\ call.op = "write" /\ pc # "idle" => call.buffer \in possible[call.lba]
       /\ err => ~bsy /\ pc # "transfer" /\ result # "ok"
       /\ ~err => Certain /\ InStep
       /\ result = "ok" => pc = "idle" /\ call.buffer \in possible[call.lba]

-----------------------------------------------------------------------------
(* Inv holds at first and is preserved by every step. *)

\* The device is at rest and every sector has its initial value.
LEMMA InitInv == Init => Inv
<1> SUFFICES ASSUME Init PROVE Inv
  OBVIOUS
<1>1. TypeOK
  BY AtaAssumption, Zenon DEF Init, TypeOK, Bytes
<1>2. Sound /\ Certain /\ InStep
  BY AtaAssumption DEF Init, Sound, Certain, InStep, Resting
<1> QED
  BY <1>1, <1>2 DEF Init, Inv

\* A call begins with the device at rest, or after an error; a write adds its
\* value to those its sector may hold.
LEMMA BeginInv ==
  ASSUME Inv,
         \/ \E lba \in Sectors : ata_read_sector(lba)
         \/ \E lba \in Sectors, buffer \in Values : ata_write_sector(lba, buffer)
  PROVE  Inv'
<1>1. CASE \E lba \in Sectors : ata_read_sector(lba)
  <2>1. PICK lba \in Sectors : ata_read_sector(lba)
    BY <1>1
  <2>2. TypeOK'
    BY <2>1 DEF Inv, TypeOK, ata_read_sector, Begin, deviceVars, Bytes
  <2> QED
    BY <2>1, <2>2 DEF Inv, TypeOK, Sound, Certain, InStep, Resting,
                      ata_read_sector, Begin, deviceVars
<1>2. CASE \E lba \in Sectors, buffer \in Values : ata_write_sector(lba, buffer)
  <2>1. PICK lba \in Sectors, buffer \in Values : ata_write_sector(lba, buffer)
    BY <1>2
  <2>2. TypeOK'
    BY <2>1 DEF Inv, TypeOK, ata_write_sector, Begin, deviceVars, Bytes
  <2> QED
    BY <2>1, <2>2 DEF Inv, TypeOK, Sound, Certain, InStep, Resting,
                      ata_write_sector, Begin, deviceVars
<1> QED
  BY <1>1, <1>2

\* One poll: the wait fails, ends, or goes on.
LEMMA PollInv == ASSUME Inv, poll PROVE Inv'
<1> USE DEF Inv, poll, commandVars
<1>1. CASE err
  <2>1. TypeOK'
    BY <1>1 DEF TypeOK, Return
  <2> QED
    BY <1>1, <2>1 DEF TypeOK, Return, Sound
<1>2. CASE ~err /\ ~Awaited
  <2>1. TypeOK'
    BY <1>2, Zenon DEF TypeOK, Return
  <2> QED
    BY <1>2, <2>1 DEF TypeOK, Return, Sound, Certain, InStep, Resting, Executing, Cached
<1>3. CASE ~err /\ Awaited /\ pc = "ready"
  <2>1. TypeOK'
    BY <1>3, Zenon DEF TypeOK, wait_done, Issue, Bytes
  <2> QED
    BY <1>3, <2>1 DEF TypeOK, wait_done, Issue, Awaited, Sound, Certain, InStep,
                      Resting, Executing
<1>4. CASE ~err /\ Awaited /\ pc = "drq"
  <2>1. TypeOK'
    BY <1>4 DEF TypeOK, wait_done, Awaited
  <2> QED
    BY <1>4, <2>1 DEF TypeOK, wait_done, Awaited, Sound, Certain, InStep, Executing
<1>5. CASE ~err /\ Awaited /\ pc = "written"
  <2>1. TypeOK'
    BY <1>5, Zenon DEF TypeOK, wait_done, Issue, Bytes
  <2> QED
    BY <1>5, <2>1 DEF TypeOK, wait_done, Issue, Awaited, Sound, Certain, InStep,
                      Resting, Executing, Cached
<1>6. CASE ~err /\ Awaited /\ pc = "flushed"
  <2>1. TypeOK'
    BY <1>6 DEF TypeOK, wait_done, Return
  <2> QED
    BY <1>6, <2>1 DEF TypeOK, wait_done, Return, Awaited, Sound, Certain, InStep,
                      Resting
<1> QED
  BY <1>1, <1>2, <1>3, <1>4, <1>5, <1>6

\* The transfer of a sector in either direction.
LEMMA TransferInv == ASSUME Inv, transfer_read \/ transfer_write PROVE Inv'
<1>1. CASE transfer_read
  <2>1. TypeOK'
    BY <1>1, Zenon DEF Inv, TypeOK, transfer_read, Return
  <2> QED
    BY <1>1, <2>1, Zenon DEF Inv, TypeOK, transfer_read, Return, Sound, Certain, InStep,
                      Resting, Executing
<1>2. CASE transfer_write
  <2>1. TypeOK'
    BY <1>2, Zenon DEF Inv, TypeOK, transfer_write
  <2> QED
    BY <1>2, <2>1, Zenon DEF Inv, TypeOK, transfer_write, Sound, Certain, InStep,
                      Resting, Executing
<1> QED
  BY <1>1, <1>2

\* The device finishes a command, fails, or writes back a cached sector.
LEMMA DeviceInv ==
  ASSUME Inv,
         device_serve \/ device_error \/ \E s \in Sectors : device_write_back(s)
  PROVE  Inv'
<1> USE DEF Inv, driverVars
<1>1. CASE device_serve
  <2>0. \A s \in Sectors : Cached(s) \in Values /\ (Sound => Cached(s) \in possible[s])
    BY DEF TypeOK, Cached, Sound, Bytes
  <2>1. CASE command = "read"
    <3>1. TypeOK'
      BY <1>1, <2>0, <2>1, Zenon DEF TypeOK, device_serve, Bytes
    <3> QED
      BY <1>1, <2>0, <2>1, <3>1
      DEF TypeOK, device_serve, Sound, Certain, InStep, Resting, Executing
  <2>2. CASE command = "write" /\ data = NoValue
    <3>1. TypeOK'
      BY <1>1, <2>2, Zenon DEF TypeOK, device_serve
    <3> QED
      BY <1>1, <2>2, <3>1, AtaAssumption
      DEF TypeOK, device_serve, Sound, Certain, InStep, Resting, Executing
  <2>3. CASE command = "write" /\ data # NoValue
    <3>1. TypeOK'
      BY <1>1, <2>3, Zenon DEF TypeOK, device_serve, Bytes
    <3>2. /\ bsy /\ ~bsy' /\ command' = "none"
          /\ cache' = [cache EXCEPT ![sector] = data]
          /\ UNCHANGED <<drq, err, sector, media, pc, call, result, possible, late>>
      BY <1>1, <2>3 DEF device_serve, driverVars
    <3>3. Sound /\ data \in possible[sector] => Sound'
      BY <3>2 DEF TypeOK, Sound
    <3>4. Certain => Certain'
      BY <3>2 DEF Certain
    <3>5. InStep => /\ pc = "written" /\ sector = call.lba /\ data = call.buffer
      BY <2>3, <3>2 DEF TypeOK, InStep, Resting, Executing
    <3>6. InStep => InStep'
      BY <2>3, <3>2, <3>5 DEF TypeOK, InStep, Resting, Cached
    <3> QED
      BY <3>1, <3>2, <3>3, <3>4, <3>5, <3>6 DEF TypeOK
  <2>4. CASE command = "flush"
    <3>0. media' = [s \in Sectors |-> Cached(s)] /\ cache' = [s \in Sectors |-> NoValue]
      BY <1>1, <2>4 DEF device_serve
    <3>1. TypeOK'
      <4>1. media' \in [Sectors -> Values] /\ cache' \in [Sectors -> Bytes]
        BY <2>0, <3>0 DEF Bytes
      <4> QED
        BY <1>1, <2>4, <4>1, Zenon DEF TypeOK, device_serve
    <3>2. Sound => Sound'
      BY <1>1, <2>0, <2>4 DEF device_serve, Sound
    <3>3. /\ bsy /\ ~bsy' /\ command' = "none"
          /\ UNCHANGED <<drq, err, sector, data, pc, call, result, possible, late>>
      BY <1>1, <2>4 DEF device_serve, driverVars
    <3>4. Certain => Certain'
      BY <3>3 DEF Certain
    <3>5. InStep => InStep'
      <4>1. call.lba \in Sectors /\ call.op \in {"none", "read", "write"}
        BY DEF TypeOK
      <4>2. media'[call.lba] = Cached(call.lba) /\ cache'[call.lba] = NoValue
        BY <3>0, <4>1
      <4> QED
        BY <2>4, <3>3, <4>1, <4>2 DEF InStep, Resting, Executing
    <3> QED
      BY <3>1, <3>2, <3>3, <3>4, <3>5
  <2> QED
    BY <1>1, <2>1, <2>2, <2>3, <2>4 DEF TypeOK, device_serve
<1>2. CASE device_error
  <2>1. TypeOK'
    BY <1>2, Zenon DEF TypeOK, device_error, Bytes
  <2> QED
    BY <1>2, <2>1 DEF TypeOK, device_error, Sound, InStep, Resting
<1>3. CASE \E s \in Sectors : device_write_back(s)
  <2>1. PICK s \in Sectors : device_write_back(s)
    BY <1>3
  <2>2. TypeOK'
    BY <2>1 DEF TypeOK, device_write_back, Bytes
  <2>3. UNCHANGED <<bsy, drq, err, command, sector, data, pc, call, result, possible, late>>
    BY <2>1 DEF device_write_back
  <2>4. \A u \in Sectors : UNCHANGED Cached(u)
    BY <2>1 DEF TypeOK, device_write_back, Cached
  <2>5. \A u \in Sectors : cache[u] = NoValue => UNCHANGED <<media[u], cache[u]>>
    BY <2>1 DEF TypeOK, device_write_back
  <2>6. Sound => Sound'
    BY <2>1 DEF TypeOK, device_write_back, Sound
  <2>7. Certain => Certain'
    BY <2>3 DEF Certain
  <2>8. InStep => InStep'
    <3>1. call.lba \in Sectors
      BY DEF TypeOK
    <3> QED
      BY <2>3, <2>4, <2>5, <3>1 DEF InStep, Resting, Executing
  <2> QED
    BY <2>2, <2>3, <2>6, <2>7, <2>8
<1> QED
  BY <1>1, <1>2, <1>3

LEMMA StepInv == Inv /\ [Next]_vars => Inv'
<1> SUFFICES ASSUME Inv, [Next]_vars PROVE Inv'
  OBVIOUS
<1>1. CASE UNCHANGED vars
  <2>1. UNCHANGED <<bsy, drq, err, command, sector, data, media, cache, pc, call,
                    result, possible, late>>
    BY <1>1 DEF vars, deviceVars
  <2>2. TypeOK'
    BY <2>1 DEF Inv, TypeOK
  <2>3. (Sound => Sound') /\ (Certain => Certain')
    BY <2>1 DEF Sound, Certain
  <2>4. InStep => InStep'
    BY <2>1 DEF InStep, Resting, Executing, Cached
  <2> QED
    BY <2>1, <2>2, <2>3, <2>4 DEF Inv
<1> QED
  BY <1>1, BeginInv, PollInv, TransferInv, DeviceInv DEF Next, Driver

-----------------------------------------------------------------------------

\* A disk call that returns success has done its work, down to the media, for
\* any disk and any device, as long as no wait has timed out.
THEOREM SectorsCorrect == Spec => []SectorsHold
<1>1. Inv => SectorsHold
  <2> SUFFICES ASSUME Inv, ~late PROVE SectorsHold
    BY DEF SectorsHold
  <2>1. result = "ok" => \E v \in Values : possible[call.lba] = {v}
    BY DEF Inv, TypeOK, Certain
  <2>2. \A v : Cardinality({v}) = 1
    BY FS_Singleton, Zenon
  <2> QED
    BY <2>1, <2>2 DEF Inv, TypeOK, Sound, SectorsHold
<1> QED
  BY <1>1, InitInv, StepInv, PTL DEF Spec
=============================================================================
