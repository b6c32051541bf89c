------------------------------ MODULE AtaDrive ------------------------------
(***************************************************************************)
(* The ATA PIO driver (kernel/src/drivers/disk/ata_pio.rs) and the drive   *)
(* it talks to.                                                            *)
(*                                                                         *)
(* The driver polls; the drive works on its own between two polls.  A step *)
(* of the driver ends where it polls the status register again: nothing    *)
(* the drive does can be seen in between, so that the 256 words of a       *)
(* sector, or the registers and the command that follows them, are one     *)
(* step.  Bytes are opaque: a byte of the disk is known by where it comes  *)
(* from.                                                                   *)
(***************************************************************************)
EXTENDS Integers

CONSTANTS SectorSize,   \* bytes in a sector (512)
          DiskSectors,  \* sectors on the drive
          CountMod,     \* values of the sector count, a u8 (256)
          LbaMod,       \* values of the 28-bit sector number (2^28)
          NoOp,         \* no operation under way
          None,         \* the None of Option<Sector>
          MaxOps        \* bound on the reads and writes of a behaviour

ASSUME SectorSizeAssumption == SectorSize \in Nat \ {0} /\ SectorSize % 2 = 0
ASSUME CountModAssumption == CountMod \in Nat \ {0, 1}
ASSUME DiskAssumption == DiskSectors \in Nat /\ LbaMod \in Nat /\ DiskSectors <= LbaMod

VARIABLES
  position,      \* AtaDrive::position
  pc,            \* where the driver is
  op,            \* the call under way: its kind, its length, the data to write
  sector,        \* the loop variable of read and write
  buf,           \* the caller's buffer of a read
  start_sector,  \* see get_partial_write_sectors
  end_sector,
  out,           \* the buffer the last read returned
  ops            \* reads and writes begun so far

driverVars == <<position, pc, op, sector, buf, start_sector, end_sector, out, ops>>

VARIABLES
  media,  \* the bytes on the drive
  dev,    \* what the drive is doing
  lba,    \* the sector it is at
  left,   \* sectors left of the command
  dbuf    \* its sector buffer

deviceVars == <<media, dev, lba, left, dbuf>>
vars == <<driverVars, deviceVars>>

DiskSize == SectorSize * DiskSectors
Offset == 0..(SectorSize - 1)
Word == 0..((SectorSize \div 2) - 1)

(* Where a byte comes from: the operation that wrote it (0: it was there) and its
   place in that operation's data (on the disk). *)
Byte == Nat \X Nat
Data == UNION {[0..(n - 1) -> Byte] : n \in 0..DiskSize}

ASSUME NoneAssumption == None \notin [Offset -> Byte]
ASSUME NoOpAssumption == NoOp \notin [kind : {"read", "write"}, len : 0..DiskSize, data : Data]

-----------------------------------------------------------------------------
(* Sector arithmetic. *)

is_sector_aligned(value) == value % SectorSize = 0
pos_aligned == is_sector_aligned(position)
calc_lba(pos) == (pos \div SectorSize) % LbaMod

(* Mutant: a write that ends with the sector bleeds into the next. *)
bleeds_if_full(bytes) ==
  IF is_sector_aligned(bytes) /\ bytes # 0
  THEN ~pos_aligned
  ELSE (position % SectorSize) + (bytes % SectorSize) >= SectorSize

(* The u8 sum of min_required_sector_count; the first operand is truncated. *)
bleeds_into_next(bytes) ==
  IF is_sector_aligned(bytes) /\ bytes # 0
  THEN ~pos_aligned
  ELSE (position % SectorSize) + (bytes % SectorSize) > SectorSize
sector_sum(bytes) ==
  ((bytes \div SectorSize) % CountMod)
    + (IF bleeds_into_next(bytes) THEN 1 ELSE 0)
    + (IF is_sector_aligned(bytes) /\ bytes # 0 THEN 0 ELSE 1)
min_required_sector_count(bytes) == sector_sum(bytes) % CountMod

(* The additions are checked in the build the repository's cargo aliases make. *)
CountOverflows(bytes) == sector_sum(bytes) >= CountMod

-----------------------------------------------------------------------------
(* The drive (external): the part of the ATA protocol the driver relies on. *)

Busy == dev \in {"fetching", "committing", "flushing"}
RwReady == dev \in {"full", "empty"}

SectorAt(n) == [i \in Offset |-> media[n * SectorSize + i]]

(* The drive with the sector it is committing already in its place. *)
Committed ==
  [a \in DOMAIN media |-> IF dev = "committing" /\ a \div SectorSize = lba
                          THEN dbuf[a % SectorSize] ELSE media[a]]

(* A command with its registers; a count of zero asks for all CountMod. *)
Accepts(kind, at, count) ==
  /\ dev' = IF kind = "read" THEN "fetching" ELSE "empty"
  /\ lba' = at
  /\ left' = IF count = 0 THEN CountMod ELSE count
  /\ UNCHANGED <<media, dbuf>>

(* The drive is done with a sector; what its registers and its buffer hold after a
   command is not used again. *)
NextSector == IF left = 1 THEN 0 ELSE lba + 1
NoSector == [i \in Offset |-> None]

DeviceFetches == /\ dev = "fetching" /\ lba < DiskSectors
                 /\ dbuf' = SectorAt(lba) /\ dev' = "full"
                 /\ UNCHANGED <<media, lba, left, driverVars>>

DeviceCommits == /\ dev = "committing"
                 /\ media' = Committed
                 /\ left' = left - 1 /\ lba' = NextSector
                 /\ dev' = IF left = 1 THEN "idle" ELSE "empty"
                 /\ dbuf' = NoSector
                 /\ UNCHANGED driverVars

DeviceFlushes == /\ dev = "flushing" /\ dev' = "idle"
                 /\ UNCHANGED <<media, lba, left, dbuf, driverVars>>

(* The host read the sector buffer through the data port. *)
SectorTaken == /\ left' = left - 1 /\ lba' = NextSector
               /\ dev' = IF left = 1 THEN "idle" ELSE "fetching"
               /\ dbuf' = NoSector
               /\ UNCHANGED media

-----------------------------------------------------------------------------
(* The driver. *)

Len_ == op.len
sector_count == min_required_sector_count(Len_)

(* wait for Busy to clear, write the registers, send the command. *)
Issue(kind, pos, count, from, to) ==
  /\ pc = from /\ ~Busy /\ pc' = to
  /\ Accepts(kind, calc_lba(pos), count)

(* read and write begin: the sector count is computed, which may overflow. *)
Begin(kind, bytes) ==
  /\ pc = "idle" /\ ops < MaxOps /\ ops' = ops + 1
  /\ op' = [kind |-> kind, len |-> bytes,
            data |-> [i \in 0..(bytes - 1) |-> <<ops', i>>]]
  /\ pc' = IF CountOverflows(bytes) THEN "panicked"
           ELSE IF kind = "read" THEN "read" ELSE "start"
  /\ buf' = [i \in 0..(bytes - 1) |-> None]
  /\ out' = <<>>
  /\ UNCHANGED <<position, sector, start_sector, end_sector, deviceVars>>

(* The locals of read and write go out of scope. *)
Return == /\ pc' = "idle" /\ op' = NoOp
          /\ position' = position + Len_
          /\ sector' = 0 /\ buf' = <<>>
          /\ start_sector' = None /\ end_sector' = None
          /\ UNCHANGED ops

(* Mutant: one sector more than the loop reads. *)
ReadIssueExtra ==
  /\ Issue("read", position, sector_count + 1, "read", "reading")
  /\ UNCHANGED <<position, op, sector, buf, start_sector, end_sector, out, ops>>

ReadIssue == /\ Issue("read", position, sector_count, "read", "reading")
             /\ UNCHANGED <<position, op, sector, buf, start_sector, end_sector, out, ops>>

(* Where word w of the current sector lies in the caller's buffer. *)
Index(w) == (sector * (SectorSize \div 2) + w) * 2 - (position % SectorSize)

(* What the match of `read` assigns from word w: pairs of an index in the buffer
   and the byte of the sector that goes there. *)
Assigned(w) ==
  LET index == Index(w) IN
  IF index = -1 THEN {<<0, 2 * w + 1>>}
  ELSE IF index < -1 THEN {}
  ELSE IF index + 1 < Len_ THEN {<<index, 2 * w>>, <<index + 1, 2 * w + 1>>}
  ELSE IF index < Len_ THEN {<<index, 2 * w>>}
  ELSE {}
AllAssigned == UNION {Assigned(w) : w \in Word}

(* The body of the sector loop of `read`: wait_ready, then the words.  An index
   outside the buffer panics. *)
ReadSector ==
  /\ pc = "reading" /\ sector < sector_count /\ ~Busy /\ RwReady
  /\ \A a \in AllAssigned : a[1] < Len_
  /\ buf' = [i \in DOMAIN buf |->
               IF \E b \in Offset : <<i, b>> \in AllAssigned
               THEN dbuf[CHOOSE b \in Offset : <<i, b>> \in AllAssigned]
               ELSE buf[i]]
  /\ sector' = sector + 1
  /\ SectorTaken
  /\ UNCHANGED <<position, pc, op, start_sector, end_sector, out, ops>>

ReadPanics ==
  /\ pc = "reading" /\ sector < sector_count /\ ~Busy /\ RwReady
  /\ \E a \in AllAssigned : a[1] >= Len_
  /\ pc' = "panicked"
  /\ UNCHANGED <<position, op, sector, buf, start_sector, end_sector, out, ops, deviceVars>>

ReadReturns == /\ pc = "reading" /\ sector = sector_count
               /\ out' = buf
               /\ Return
               /\ UNCHANGED deviceVars

-----------------------------------------------------------------------------
(* get_partial_write_sectors: read the sector of the position, and the one of the
   end of the write, each only if it lies inside a sector. *)

PartialIssue(pos, from, fetch, skip) ==
  /\ pc = from
  /\ \/ ~is_sector_aligned(pos) /\ Issue("read", pos, 1, from, fetch)
     \/ is_sector_aligned(pos) /\ pc' = skip /\ UNCHANGED deviceVars
  /\ UNCHANGED <<position, op, sector, buf, start_sector, end_sector, out, ops>>

(* Mutant: the sector of the last byte, not of the one after it. *)
EndIssueLast == PartialIssue(position + Len_ - 1, "end", "end_fetch", "write")

StartIssue == PartialIssue(position, "start", "start_fetch", "end")
EndIssue == PartialIssue(position + Len_, "end", "end_fetch", "write")

StartFetch == /\ pc = "start_fetch" /\ ~Busy /\ RwReady /\ pc' = "end"
              /\ start_sector' = dbuf /\ SectorTaken
              /\ UNCHANGED <<position, op, sector, buf, end_sector, out, ops>>

EndFetch == /\ pc = "end_fetch" /\ ~Busy /\ RwReady /\ pc' = "write"
            /\ end_sector' = dbuf /\ SectorTaken
            /\ UNCHANGED <<position, op, sector, buf, start_sector, out, ops>>

WriteIssue == /\ Issue("write", position, sector_count, "write", "writing")
              /\ UNCHANGED <<position, op, sector, buf, start_sector, end_sector, out, ops>>

(* Where the match of `write` takes byte b of the current sector from. *)
Source(b) ==
  LET index == Index(b \div 2)  high == b % 2 IN
  IF index < -1 \/ (index = -1 /\ high = 0) THEN "start"
  ELSE IF index = -1 \/ index + 1 < Len_ \/ (index < Len_ /\ high = 0) THEN "data"
  ELSE "end"

(* The unwraps and the buffer accesses of the match succeed. *)
Available(b) == CASE Source(b) = "start" -> start_sector # None
                  [] Source(b) = "data" -> Len_ > 0
                  [] Source(b) = "end" -> end_sector # None

(* The body of the sector loop of `write`. *)
WriteSector ==
  /\ pc = "writing" /\ sector < sector_count /\ ~Busy /\ RwReady
  /\ \A b \in Offset : Available(b)
  /\ dbuf' = [b \in Offset |->
                CASE Source(b) = "start" -> start_sector[b]
                  [] Source(b) = "data" -> op.data[Index(b \div 2) + (b % 2)]
                  [] Source(b) = "end" -> end_sector[b]]
  /\ dev' = "committing"
  /\ sector' = sector + 1
  /\ UNCHANGED <<position, pc, op, buf, start_sector, end_sector, out, ops,
                 media, lba, left>>

WritePanics ==
  /\ pc = "writing" /\ sector < sector_count /\ ~Busy /\ RwReady
  /\ \E b \in Offset : ~Available(b)
  /\ pc' = "panicked"
  /\ UNCHANGED <<position, op, sector, buf, start_sector, end_sector, out, ops, deviceVars>>

(* CacheFlush is sent without a wait: a drive that is still committing the last
   sector ignores the command. *)
WriteReturns == /\ pc = "writing" /\ sector = sector_count
                /\ dev' = IF Busy THEN dev ELSE "flushing"
                /\ Return
                /\ UNCHANGED <<out, media, lba, left, dbuf>>

-----------------------------------------------------------------------------
(* seek: from the start, from the current position; an error changes nothing. *)
SeekStart == /\ pc = "idle" /\ position' \in 0..DiskSize
             /\ UNCHANGED <<pc, op, sector, buf, start_sector, end_sector, out, ops, deviceVars>>

SeekCurrent == \E by \in {-SectorSize - 1, -1, 1} :
                 /\ pc = "idle" /\ position + by <= DiskSize
                 /\ position' = IF position + by >= 0 THEN position + by ELSE position
                 /\ UNCHANGED <<pc, op, sector, buf, start_sector, end_sector, out, ops,
                                deviceVars>>

(* A panic ends in hlt_loop; the drive goes on. *)
HltLoop == pc = "panicked" /\ UNCHANGED vars

(* AtaDrive::new on an idle drive. *)
Init == /\ position = 0 /\ pc = "idle" /\ op = NoOp /\ sector = 0
        /\ buf = <<>> /\ start_sector = None /\ end_sector = None
        /\ out = <<>> /\ ops = 0
        /\ media = [a \in 0..(DiskSize - 1) |-> <<0, a>>]
        /\ dev = "idle" /\ lba = 0 /\ left = 0
        /\ dbuf = NoSector

(* The file system stays on the disk. *)
Calls == \E kind \in {"read", "write"}, bytes \in 0..(DiskSize - position) :
           position < DiskSize /\ Begin(kind, bytes)

DriverStep == \/ ReadIssue \/ ReadSector \/ ReadPanics \/ ReadReturns
              \/ StartIssue \/ StartFetch \/ EndIssue \/ EndFetch
              \/ WriteIssue \/ WriteSector \/ WritePanics \/ WriteReturns

DeviceStep == DeviceFetches \/ DeviceCommits \/ DeviceFlushes

Next == Calls \/ SeekStart \/ SeekCurrent \/ DriverStep \/ DeviceStep \/ HltLoop

(* The processor keeps polling, and the drive carries out what it accepted. *)
Fairness == WF_vars(DriverStep) /\ WF_vars(DeviceStep)

Spec == Init /\ [][Next]_vars /\ Fairness

-----------------------------------------------------------------------------
(* Properties. *)

(* The sectors that the bytes from the position on lie in. *)
Touched(bytes) == (position + bytes - 1) \div SectorSize - position \div SectorSize + 1

(* "Calculate the amount of sectors to be read/written when doing an operation
   starting at `self.current` of size `len`": min_required_sector_count is the
   number of sectors that the bytes lie in, wherever the position is, and its
   additions do not overflow, as long as that number is a u8. *)
SectorCountExact ==
  \A bytes \in 1..(DiskSize - position) :
    Touched(bytes) < CountMod =>
      /\ min_required_sector_count(bytes) = Touched(bytes)
      /\ ~CountOverflows(bytes)

(* A read that returns has filled the caller's buffer, whatever its length. *)
ReadFillsBuffer == \A i \in DOMAIN out : out[i] # None

(* Between two calls the drive has nothing left to transfer: read and write move
   exactly as many sectors as their command announced, so that no later command
   meets a drive that waits for data. *)
TransfersComplete == pc = "idle" => dev \in {"idle", "committing", "flushing"} /\
                                    (dev = "committing" => left = 1)

(* Bytes of a write the driver is done with. *)
Done == LET n == sector * SectorSize - (position % SectorSize) IN
        IF pc # "writing" \/ n < 0 THEN 0 ELSE IF n < Len_ THEN n ELSE Len_

(* The driver implements a plain array of bytes: a read returns the bytes at the
   position, a write changes those bytes and at no time any other (the rest of
   the first and last sector included), whatever the alignment; only an
   operation on zero bytes panics; every operation ends. *)
Disk == INSTANCE ByteDisk
          WITH disk <- Committed, done <- Done, stopped <- pc = "panicked"
ImplementsByteDisk == Disk!Spec
=============================================================================
