--------------------------- MODULE AtaDriveProofs ---------------------------
(***************************************************************************)
(* The sector arithmetic of AtaDrive, for every even sector size, position *)
(* and length; and, for transfers whose sectors fit the count, that driver *)
(* and drive are an array of bytes.                                        *)
(***************************************************************************)
EXTENDS AtaDrive, TLAPS

(* Quotient and remainder. *)
LEMMA DivMod ==
  ASSUME NEW a \in Int, NEW s \in Nat \ {0}
  PROVE  /\ a \div s \in Int /\ a % s \in 0..(s - 1)
         /\ a = s * (a \div s) + (a % s)
PROOF OBVIOUS

(* They are unique. *)
LEMMA DivUnique ==
  ASSUME NEW s \in Nat \ {0}, NEW q \in Int, NEW r \in 0..(s - 1)
  PROVE  (s * q + r) \div s = q
PROOF OBVIOUS

(* A value below the modulus is its own remainder. *)
LEMMA ModSmall ==
  ASSUME NEW m \in Nat \ {0}, NEW a \in 0..(m - 1)
  PROVE  a % m = a
PROOF OBVIOUS

(* min_required_sector_count counts the sectors between the first and the last
   byte: the four cases are whether the length is a multiple of the sector size,
   and whether the last partial sector bleeds into one more. *)
LEMMA SectorCount ==
  ASSUME position \in Nat, NEW n \in Nat \ {0}, Touched(n) < CountMod
  PROVE  min_required_sector_count(n) = Touched(n) /\ ~CountOverflows(n)
<1> DEFINE S == SectorSize
           qp == position \div S
           rp == position % S
           qn == n \div S
           rn == n % S
           last == (position + n - 1) \div S
<1>1. S \in Nat \ {0} /\ CountMod \in Nat \ {0}
  BY SectorSizeAssumption, CountModAssumption
<1>2. /\ qp \in Int /\ rp \in 0..(S - 1) /\ position = S * qp + rp
      /\ qn \in Int /\ rn \in 0..(S - 1) /\ n = S * qn + rn
      /\ last \in Int
  <2> HIDE DEF S
  <2>0. position \in Int
    OBVIOUS
  <2>1. qp \in Int /\ rp \in 0..(S - 1) /\ position = S * qp + rp
    BY <1>1, <2>0, DivMod
  <2>2. qn \in Int /\ rn \in 0..(S - 1) /\ n = S * qn + rn
    BY <1>1, DivMod
  <2>3. last \in Int
    BY <1>1, DivMod
  <2> QED BY <2>1, <2>2, <2>3
<1>3. qn \in Nat
  BY <1>1
<1>4. Touched(n) = last - qp + 1
  BY DEF Touched
<1>5. is_sector_aligned(n) <=> rn = 0
  BY DEF is_sector_aligned
<1>6. pos_aligned <=> rp = 0
  BY DEF pos_aligned, is_sector_aligned
<1>7. /\ bleeds_into_next(n) <=> IF rn = 0 THEN rp # 0 ELSE rp + rn > S
      /\ sector_sum(n) = (qn % CountMod) + (IF bleeds_into_next(n) THEN 1 ELSE 0)
                           + (IF rn = 0 THEN 0 ELSE 1)
  BY <1>5, <1>6 DEF bleeds_into_next, sector_sum
<1> HIDE DEF S, qp, rp, qn, rn, last
<1>8. ASSUME NEW k \in Int, last = qp + qn + k,
             (IF bleeds_into_next(n) THEN 1 ELSE 0) + (IF rn = 0 THEN 0 ELSE 1) = k + 1,
             k + 1 >= 0
      PROVE  min_required_sector_count(n) = Touched(n) /\ ~CountOverflows(n)
  <2>1. Touched(n) = qn + k + 1
    BY <1>2, <1>4, <1>8
  <2>2. qn \in 0..(CountMod - 1) /\ Touched(n) \in 0..(CountMod - 1)
    BY <1>1, <1>3, <1>8, <2>1
  <2>3. qn % CountMod = qn /\ Touched(n) % CountMod = Touched(n)
    BY <1>1, <2>2, ModSmall
  <2>4. sector_sum(n) = Touched(n)
    BY <1>3, <1>7, <1>8, <2>1, <2>3
  <2> QED BY <1>1, <2>2, <2>3, <2>4 DEF min_required_sector_count, CountOverflows
<1>9. CASE rn = 0 /\ rp = 0
  <2>1. position + n - 1 = S * (qp + qn - 1) + (S - 1)
    BY <1>1, <1>2, <1>9
  <2>2. last = qp + qn + (-1)
    BY <1>1, <1>2, <2>1, DivUnique DEF last
  <2>3. (IF bleeds_into_next(n) THEN 1 ELSE 0) + (IF rn = 0 THEN 0 ELSE 1) = -1 + 1
    BY <1>7, <1>9
  <2> QED BY <1>8, <2>2, <2>3
<1>10. CASE rn = 0 /\ rp # 0
  <2>1. position + n - 1 = S * (qp + qn) + (rp - 1)
    BY <1>1, <1>2, <1>10
  <2>2. last = qp + qn + 0
    BY <1>1, <1>2, <1>10, <2>1, DivUnique DEF last
  <2>3. (IF bleeds_into_next(n) THEN 1 ELSE 0) + (IF rn = 0 THEN 0 ELSE 1) = 0 + 1
    BY <1>7, <1>10
  <2> QED BY <1>8, <2>2, <2>3
<1>11. CASE rn # 0 /\ rp + rn <= S
  <2>1. position + n - 1 = S * (qp + qn) + (rp + rn - 1)
    BY <1>1, <1>2, <1>11
  <2>2. last = qp + qn + 0
    BY <1>1, <1>2, <1>11, <2>1, DivUnique DEF last
  <2>3. (IF bleeds_into_next(n) THEN 1 ELSE 0) + (IF rn = 0 THEN 0 ELSE 1) = 0 + 1
    BY <1>1, <1>2, <1>7, <1>11
  <2> QED BY <1>8, <2>2, <2>3
<1>12. CASE rn # 0 /\ rp + rn > S
  <2>1. position + n - 1 = S * (qp + qn + 1) + (rp + rn - 1 - S)
    BY <1>1, <1>2, <1>12
  <2>2. last = qp + qn + 1
    BY <1>1, <1>2, <1>12, <2>1, DivUnique DEF last
  <2>3. (IF bleeds_into_next(n) THEN 1 ELSE 0) + (IF rn = 0 THEN 0 ELSE 1) = 1 + 1
    BY <1>7, <1>12
  <2> QED BY <1>8, <2>2, <2>3
<1> QED BY <1>1, <1>2, <1>9, <1>10, <1>11, <1>12

(* Positions and lengths are natural numbers throughout. *)
NatInv == position \in Nat /\ (pc # "idle" => op.len \in Nat)

(* Every step keeps them so: a read or write only adds its length to the
   position, and seek rejects a negative result. *)
LEMMA NatStep == NatInv /\ [Next]_vars => NatInv'
<1> SUFFICES ASSUME NatInv, [Next]_vars PROVE NatInv'
  OBVIOUS
<1> USE DEF NatInv
<1>1. CASE Calls
  <2>1. PICK kind \in {"read", "write"}, bytes \in 0..(DiskSize - position) :
          Begin(kind, bytes)
    BY <1>1 DEF Calls
  <2>2. bytes \in Nat /\ op'.len = bytes /\ position' = position
    BY <2>1 DEF Begin
  <2> QED BY <2>2
<1>2. CASE SeekStart
  BY <1>2 DEF SeekStart
<1>3. CASE SeekCurrent
  BY <1>3, SectorSizeAssumption DEF SeekCurrent
<1>4. CASE ReadReturns \/ WriteReturns
  BY <1>4 DEF ReadReturns, WriteReturns, Return, Len_
<1>5. CASE ReadIssue \/ ReadSector \/ ReadPanics \/ WriteIssue \/ WriteSector \/ WritePanics
  BY <1>5 DEF ReadIssue, ReadSector, ReadPanics, WriteIssue, WriteSector, WritePanics, Issue
<1>6. CASE StartIssue \/ StartFetch \/ EndIssue \/ EndFetch
  BY <1>6 DEF StartIssue, StartFetch, EndIssue, EndFetch, PartialIssue
<1>7. CASE DeviceStep \/ HltLoop \/ UNCHANGED vars
  BY <1>7 DEF DeviceStep, DeviceFetches, DeviceCommits, DeviceFlushes, HltLoop, vars,
              driverVars
<1> QED BY <1>1, <1>2, <1>3, <1>4, <1>5, <1>6, <1>7 DEF Next, DriverStep

(* For every sector size, disk and history of calls, min_required_sector_count is
   the number of sectors the transfer touches. *)
THEOREM SectorCountIsExact == Spec => []SectorCountExact
<1>1. Init => NatInv
  BY DEF Init, NatInv
<1>2. NatInv => SectorCountExact
  BY SectorCount DEF NatInv, SectorCountExact
<1> QED BY <1>1, <1>2, NatStep, PTL DEF Spec

-----------------------------------------------------------------------------
(* The transfers. *)

(* The sector the position lies in, and the place in it. *)
first == position \div SectorSize
skip == position % SectorSize

(* Every call transfers fewer sectors than the count can name. *)
ShortTransfers == op # NoOp => op.len = 0 \/ Touched(op.len) < CountMod

(* Where a driver waits for nothing the drive still owes. *)
Quiet == dev \in {"idle", "committing", "flushing"} /\ (dev = "committing" => left = 1)

(* A drive on its way to hand out sector n, the last of `todo`. *)
Fetches(n, todo) == /\ dev \in {"fetching", "full"} /\ left = todo /\ lba = n
                    /\ dev = "full" => dbuf = SectorAt(n)

TypeInv ==
  /\ position \in 0..DiskSize /\ sector \in Nat /\ ops \in Nat
  /\ pc \in {"idle", "read", "reading", "start", "start_fetch", "end", "end_fetch",
             "write", "writing", "panicked"}
  /\ pc = "idle" <=> op = NoOp
  /\ op # NoOp => /\ op.kind \in {"read", "write"} /\ op.len \in Nat
                  /\ op.data \in [0..(op.len - 1) -> Byte]
                  /\ position < DiskSize /\ position + op.len <= DiskSize
  /\ pc \in {"read", "reading"} => op.kind = "read"
  /\ pc \in {"start", "start_fetch", "end", "end_fetch", "write", "writing"}
       => op.kind = "write"
  /\ pc \notin {"reading", "writing", "panicked"} => sector = 0
  /\ media \in [0..(DiskSize - 1) -> Byte]
  /\ dev = "committing" => dbuf \in [Offset -> Byte]

(* How the drive stands to the driver's loops: as many sectors are left of the
   command as turns of the loop. *)
DevInv ==
  /\ pc \in {"idle", "read", "start", "end", "write"} => Quiet
  /\ pc = "start_fetch" => Fetches(first, 1)
  /\ pc = "end_fetch" => /\ ~is_sector_aligned(position + op.len)
                         /\ Fetches((position + op.len) \div SectorSize, 1)
  /\ pc = "reading" => /\ sector <= sector_count
                       /\ sector < sector_count =>
                            Fetches(first + sector, sector_count - sector)
                       /\ sector = sector_count => dev = "idle"
  /\ pc = "writing" =>
       /\ sector <= sector_count /\ dev \in {"empty", "committing", "idle"}
       /\ dev = "empty" => /\ sector < sector_count /\ left = sector_count - sector
                           /\ lba = first + sector
       /\ dev = "committing" => /\ sector >= 1 /\ left = sector_count - sector + 1
                                /\ lba = first + sector - 1
       /\ dev = "idle" => sector = sector_count

(* What the buffers hold: a read has filled its buffer up to the sector it is at;
   start_sector and end_sector keep the bytes before and after those to write; a write
   is on the disk up to the sector it is at. *)
DataInv ==
  /\ pc \in {"read", "reading"} =>
       /\ buf \in [0..(op.len - 1) -> Byte \cup {None}]
       /\ \A i \in DOMAIN buf :
            i < sector * SectorSize - skip => buf[i] = media[position + i]
  /\ pc \in {"end", "end_fetch", "write", "writing"} /\ skip # 0 =>
       /\ start_sector # None
       /\ \A b \in 0..(skip - 1) : start_sector[b] = Committed[first * SectorSize + b]
  /\ end_sector # None => pc \in {"write", "writing", "panicked"}
  /\ pc \in {"write", "writing"} =>
       LET end == position + op.len IN
         IF end % SectorSize = 0 THEN end_sector = None
         ELSE /\ end_sector # None
              /\ \A b \in (end % SectorSize)..(SectorSize - 1) :
                   end_sector[b] = Committed[(end \div SectorSize) * SectorSize + b]
  /\ pc = "writing" =>
       \A i \in 0..(op.len - 1) :
         i < sector * SectorSize - skip => Committed[position + i] = op.data[i]

Inv == TypeInv /\ DevInv /\ DataInv

(* The sector count of a call that ShortTransfers allows: at least one, no overflow,
   and the sectors reach just past the last byte. *)
LEMMA Span ==
  ASSUME position \in Nat, NEW n \in Nat, n = 0 \/ Touched(n) < CountMod,
         NEW c, c = min_required_sector_count(n)
  PROVE  /\ c \in Nat /\ c >= 1 /\ c < CountMod /\ ~CountOverflows(n)
         /\ c * SectorSize - skip >= n
         /\ n > 0 => (c - 1) * SectorSize - skip < n
         /\ n = 0 => c = 1
<1>1. SectorSize \in Nat \ {0} /\ CountMod \in Nat \ {0, 1}
  BY SectorSizeAssumption, CountModAssumption
<1>2. /\ first \in Int /\ skip \in 0..(SectorSize - 1)
      /\ position = SectorSize * first + skip
  BY <1>1, DivMod DEF first, skip
<1>3. CASE n = 0
  <2>1. n % SectorSize = 0 /\ n \div SectorSize = 0 /\ n % CountMod = 0 /\ 1 % CountMod = 1
    BY <1>1, <1>3
  <2>2. sector_sum(n) = 1
    BY <1>1, <1>2, <1>3, <2>1 DEF sector_sum, bleeds_into_next, is_sector_aligned, skip
  <2>3. c = 1 /\ ~CountOverflows(n)
    BY <1>1, <2>1, <2>2 DEF min_required_sector_count, CountOverflows
  <2> QED BY <1>1, <1>2, <1>3, <2>3
<1>4. CASE n > 0
  <2>1. c = Touched(n) /\ ~CountOverflows(n) /\ Touched(n) < CountMod
    BY <1>4, SectorCount
  <2> DEFINE last == (position + n - 1) \div SectorSize
             rest == (position + n - 1) % SectorSize
  <2>2. last \in Int /\ rest \in 0..(SectorSize - 1) /\ position + n - 1 = SectorSize * last + rest
    <3>1. position + n - 1 \in Int
      OBVIOUS
    <3> QED BY <1>1, <3>1, DivMod
  <2>3. c = last - first + 1
    BY <2>1 DEF Touched, first
  <2> HIDE DEF last, rest
  <2>4. c \in Int /\ c * SectorSize = SectorSize * last - SectorSize * first + SectorSize
                  /\ (c - 1) * SectorSize = SectorSize * last - SectorSize * first
    BY <1>1, <1>2, <2>2, <2>3
  <2>5. c * SectorSize - skip >= n /\ (c - 1) * SectorSize - skip < n
    BY <1>1, <1>2, <2>2, <2>4
  <2>6. c >= 1
    <3> SUFFICES ASSUME c <= 0 PROVE FALSE
      BY <2>4
    <3>1. c * SectorSize <= 0
      BY <1>1, <2>4
    <3> QED BY <1>1, <1>2, <1>4, <2>5, <2>4, <3>1
  <2> QED BY <1>4, <2>1, <2>4, <2>5, <2>6
<1> QED BY <1>3, <1>4

(* A call keeps its sectors while it is under way. *)
LEMMA SameCall ==
  ASSUME position' = position, op' = op
  PROVE  first' = first /\ skip' = skip /\ sector_count' = sector_count
BY DEF first, skip, sector_count, min_required_sector_count, sector_sum, bleeds_into_next,
       pos_aligned, is_sector_aligned, Len_

(* Every sector of the drive can be addressed. *)
LEMMA Addressable ==
  ASSUME NEW pos \in Nat, pos < DiskSize
  PROVE  calc_lba(pos) = pos \div SectorSize /\ pos \div SectorSize \in Nat
                                              /\ pos \div SectorSize < DiskSectors
<1>1. SectorSize \in Nat \ {0} /\ DiskSectors \in Nat /\ LbaMod \in Nat /\ DiskSectors <= LbaMod
  BY SectorSizeAssumption, DiskAssumption
<1> DEFINE q == pos \div SectorSize
<1>2. q \in Int /\ pos % SectorSize \in 0..(SectorSize - 1)
      /\ pos = SectorSize * q + (pos % SectorSize)
  BY <1>1, DivMod
<1> HIDE DEF q
<1>3. q \in Nat
  BY <1>1, <1>2
<1>4. q < DiskSectors
  <2> SUFFICES ASSUME q >= DiskSectors PROVE FALSE
    BY <1>1, <1>3
  <2>1. SectorSize * q >= SectorSize * DiskSectors
    BY <1>1, <1>3
  <2> QED BY <1>1, <1>2, <1>3, <2>1 DEF DiskSize
<1>5. q % LbaMod = q
  BY <1>1, <1>3, <1>4, ModSmall
<1> QED BY <1>3, <1>4, <1>5 DEF calc_lba, q

(* Where byte b of the current sector lies in the caller's buffer. *)
place(b) == sector * SectorSize + b - skip

(* A sector is its words, a word two bytes. *)
LEMMA Words ==
  ASSUME position \in Nat, sector \in Nat
  PROVE  /\ \A w \in Word : /\ Index(w) = place(2 * w) /\ place(2 * w) \in Int
                            /\ 2 * w \in Offset /\ 2 * w + 1 \in Offset
                            /\ (2 * w) \div 2 = w /\ (2 * w + 1) \div 2 = w
         /\ \A b \in Offset : /\ b \div 2 \in Word /\ b % 2 \in {0, 1}
                              /\ b = 2 * (b \div 2) + (b % 2) /\ place(b) \in Int
                              /\ Index(b \div 2) = place(b) - (b % 2)
<1> DEFINE H == SectorSize \div 2
<1>1. SectorSize \in Nat \ {0} /\ H \in Nat /\ SectorSize = 2 * H
  BY SectorSizeAssumption
<1>2. skip \in Nat /\ sector * SectorSize \in Nat
  BY <1>1 DEF skip
<1>3. Word = 0..(H - 1) /\ Offset = 0..(SectorSize - 1)
  BY DEF Word, Offset
<1>4. ASSUME NEW w \in Word
      PROVE  Index(w) = place(2 * w) /\ place(2 * w) \in Int
  <2>1. w \in Int /\ (sector * H + w) * 2 = sector * SectorSize + 2 * w
    BY <1>1, <1>3
  <2> QED BY <1>2, <2>1 DEF Index, place, skip
<1> HIDE DEF H
<1>5. ASSUME NEW w \in Word
      PROVE  2 * w \in Offset /\ 2 * w + 1 \in Offset /\ (2 * w) \div 2 = w /\ (2 * w + 1) \div 2 = w
  BY <1>1, <1>3
<1>6. ASSUME NEW b \in Offset
      PROVE  /\ b \div 2 \in Word /\ b % 2 \in {0, 1} /\ b = 2 * (b \div 2) + (b % 2)
             /\ place(b) \in Int /\ Index(b \div 2) = place(b) - (b % 2)
  <2>1. b \div 2 \in Word /\ b % 2 \in {0, 1} /\ b = 2 * (b \div 2) + (b % 2) /\ b \in Int
    BY <1>1, <1>3
  <2>2. Index(b \div 2) = place(2 * (b \div 2))
    BY <1>4, <2>1
  <2>3. 2 * (b \div 2) = b - (b % 2) /\ b % 2 \in Int
    BY <2>1
  <2> QED BY <1>2, <2>1, <2>2, <2>3 DEF place
<1> QED BY <1>4, <1>5, <1>6

(* The match of `write`: the bytes before the position, the data, the bytes after. *)
LEMMA Sources ==
  ASSUME position \in Nat, sector \in Nat, op.len \in Nat, NEW b \in Offset
  PROVE  /\ Source(b) = "start" <=> place(b) < 0
         /\ op.len > 0 /\ Source(b) = "data" => /\ place(b) \in 0..(op.len - 1)
                                                /\ Index(b \div 2) + (b % 2) = place(b)
         /\ Source(b) = "end" => place(b) >= op.len
         /\ Source(b) \in {"start", "data", "end"}
<1>1. place(b) \in Int /\ b % 2 \in {0, 1} /\ Index(b \div 2) = place(b) - (b % 2)
  BY Words
<1> DEFINE x == place(b)
           h == b % 2
<1>2. Source(b) = IF x - h < -1 \/ (x - h = -1 /\ h = 0) THEN "start"
                  ELSE IF x - h = -1 \/ x - h + 1 < op.len \/ (x - h < op.len /\ h = 0)
                  THEN "data" ELSE "end"
  BY <1>1 DEF Source, Len_
<1>3. x \in Int /\ h \in {0, 1}
  BY <1>1
<1>4. Index(b \div 2) + (b % 2) = x
  BY <1>1
<1> HIDE DEF x, h
<1>5. /\ Source(b) = "start" <=> x < 0
      /\ op.len > 0 /\ Source(b) = "data" => x \in 0..(op.len - 1)
      /\ Source(b) = "end" => x >= op.len
      /\ Source(b) \in {"start", "data", "end"}
  BY <1>2, <1>3
<1> QED BY <1>4, <1>5 DEF x

(* The match of `read`: every byte of the sector goes to its place in the buffer, and
   none beside it. *)
LEMMA Assigns ==
  ASSUME position \in Nat, sector \in Nat, op.len \in Nat \ {0}
  PROVE  /\ \A a \in AllAssigned : a[1] \in Int /\ a[1] < op.len
         /\ \A i \in 0..(op.len - 1), b \in Offset : <<i, b>> \in AllAssigned <=> i = place(b)
<1>1. ASSUME NEW w \in Word
      PROVE  Assigned(w) = LET x == place(2 * w) IN
                           IF x = -1 THEN {<<0, 2 * w + 1>>}
                           ELSE IF x < -1 THEN {}
                           ELSE IF x + 1 < op.len THEN {<<x, 2 * w>>, <<x + 1, 2 * w + 1>>}
                           ELSE IF x < op.len THEN {<<x, 2 * w>>}
                           ELSE {}
  BY Words DEF Assigned, Len_
<1>2. ASSUME NEW a \in AllAssigned PROVE a[1] \in Int /\ a[1] < op.len
  <2>1. PICK w \in Word : a \in Assigned(w)
    BY DEF AllAssigned
  <2>2. place(2 * w) \in Int
    BY Words
  <2> QED BY <1>1, <2>1, <2>2
<1>3. \A w \in Word : place(2 * w + 1) = place(2 * w) + 1
  <2>1. \A w \in Word : w \in Int
    BY DEF Word
  <2>2. sector * SectorSize \in Int /\ skip \in Int
    BY SectorSizeAssumption DEF skip
  <2> QED BY <2>1, <2>2 DEF place
<1>4. ASSUME NEW i \in 0..(op.len - 1), NEW b \in Offset, <<i, b>> \in AllAssigned
      PROVE  i = place(b)
  <2>1. PICK w \in Word : <<i, b>> \in Assigned(w)
    BY <1>4 DEF AllAssigned
  <2>2. place(2 * w) \in Int /\ place(2 * w + 1) = place(2 * w) + 1
    BY Words, <1>3
  <2>3. \/ place(2 * w) = -1 /\ i = 0 /\ b = 2 * w + 1
        \/ i = place(2 * w) /\ b = 2 * w
        \/ i = place(2 * w) + 1 /\ b = 2 * w + 1
    BY <1>1, <2>1, <2>2
  <2> QED BY <2>2, <2>3
<1>5. ASSUME NEW i \in 0..(op.len - 1), NEW b \in Offset, i = place(b)
      PROVE  <<i, b>> \in AllAssigned
  <2> DEFINE w == b \div 2
  <2>1. w \in Word /\ (b = 2 * w \/ b = 2 * w + 1) /\ place(2 * w) \in Int
    BY Words
  <2> HIDE DEF w
  <2>2. <<i, b>> \in Assigned(w)
    <3>1. CASE b = 2 * w
      BY <1>1, <1>5, <2>1, <3>1
    <3>2. CASE b = 2 * w + 1
      <4>1. place(2 * w) = i - 1
        BY <1>3, <1>5, <2>1, <3>2
      <4> QED BY <1>1, <2>1, <3>2, <4>1
    <3> QED BY <2>1, <3>1, <3>2
  <2> QED BY <2>1, <2>2 DEF AllAssigned
<1> QED BY <1>2, <1>4, <1>5

-----------------------------------------------------------------------------
(* Every step keeps Inv.  First the steps outside the sector loops. *)

(* What the constants are. *)
LEMMA Sizes == /\ SectorSize \in Nat \ {0} /\ DiskSectors \in Nat /\ CountMod \in Nat \ {0, 1}
               /\ DiskSize \in Nat /\ DiskSize = SectorSize * DiskSectors
BY SectorSizeAssumption, DiskAssumption, CountModAssumption DEF DiskSize

(* What the position is. *)
LEMMA Position ==
  ASSUME position \in Nat
  PROVE  /\ first \in Nat /\ skip \in 0..(SectorSize - 1)
         /\ position = SectorSize * first + skip
<1>1. first \in Int /\ skip \in 0..(SectorSize - 1) /\ position = SectorSize * first + skip
  BY Sizes, DivMod DEF first, skip
<1>2. first \in Nat
  BY <1>1, Sizes
<1> QED BY <1>1, <1>2

(* read or write is called: the buffer is new, the sector count is right and does not overflow. *)
LEMMA CallsKeep == ASSUME Inv, ShortTransfers', Calls PROVE Inv' /\ pc' # "panicked"
<1>1. PICK kind \in {"read", "write"}, bytes \in 0..(DiskSize - position) :
        position < DiskSize /\ Begin(kind, bytes)
  BY DEF Calls
<1>2. position \in Nat /\ position < DiskSize /\ pc = "idle" /\ sector = 0 /\ ops \in Nat
  BY <1>1, Sizes DEF Inv, TypeInv, Begin
<1>3. bytes \in Nat /\ bytes <= DiskSize /\ position + bytes <= DiskSize
  BY <1>2, Sizes
<1>4. /\ op' = [kind |-> kind, len |-> bytes,
                data |-> [i \in 0..(bytes - 1) |-> <<ops', i>>]]
      /\ op'.kind = kind /\ op'.len = bytes
      /\ op'.data = [i \in 0..(bytes - 1) |-> <<ops', i>>]
      /\ ops' \in Nat
  BY <1>1, <1>2 DEF Begin
<1>5. op'.data \in [0..(bytes - 1) -> Byte]
  BY <1>3, <1>4 DEF Byte
<1>6. op' # NoOp
  <2>1. op'.data \in Data
    BY <1>3, <1>5, Sizes DEF Data
  <2>2. op' \in [kind : {"read", "write"}, len : 0..DiskSize, data : Data]
    BY <1>3, <1>4, <2>1, Sizes
  <2> QED BY <2>2, NoOpAssumption
<1>7. bytes = 0 \/ Touched(bytes) < CountMod
  BY <1>1, <1>4, <1>6 DEF ShortTransfers, Touched, Begin
<1>8. ~CountOverflows(bytes)
  BY <1>2, <1>3, <1>7, Span
<1>9. /\ pc' = IF kind = "read" THEN "read" ELSE "start"
      /\ buf' = [i \in 0..(bytes - 1) |-> None]
      /\ UNCHANGED <<position, sector, start_sector, end_sector, media, dev, lba, left, dbuf>>
  BY <1>1, <1>8 DEF Begin, deviceVars
<1>10. skip' \in Nat
  BY <1>2, <1>9, Position DEF skip
<1>11. TypeInv'
  BY <1>1, <1>2, <1>3, <1>4, <1>5, <1>6, <1>9 DEF Inv, TypeInv
<1>12. DevInv'
  BY <1>2, <1>9 DEF Inv, DevInv, Quiet
<1>13. DataInv'
  <2>0. sector' * SectorSize = 0
    BY <1>2, <1>9, Sizes
  <2>1. \A i \in 0..(bytes - 1) : ~(i < sector' * SectorSize - skip')
    BY <1>3, <1>10, <2>0
  <2> QED BY <1>2, <1>4, <1>9, <2>1 DEF Inv, DataInv
<1> QED BY <1>9, <1>11, <1>12, <1>13 DEF Inv

(* seek moves the position between two calls. *)
LEMMA SeeksKeep == ASSUME Inv, SeekStart \/ SeekCurrent PROVE Inv'
<1>1. position' \in 0..DiskSize
  BY Sizes DEF Inv, TypeInv, SeekStart, SeekCurrent
<1>2. /\ pc = "idle"
      /\ UNCHANGED <<pc, op, sector, buf, start_sector, end_sector, out, ops,
                     media, dev, lba, left, dbuf>>
  BY DEF SeekStart, SeekCurrent, deviceVars
<1> QED BY <1>1, <1>2 DEF Inv, TypeInv, DevInv, DataInv, Quiet

(* The end of a call moves the position past what was transferred. *)
LEMMA ReturnsKeep == ASSUME Inv, ReadReturns \/ WriteReturns PROVE Inv'
<1>1. /\ position + op.len \in Nat /\ position' = position + op.len /\ position' \in 0..DiskSize
      /\ pc' = "idle" /\ op' = NoOp /\ sector' = 0 /\ end_sector' = None
      /\ UNCHANGED <<ops, media, lba, left, dbuf>>
  BY Sizes DEF Inv, TypeInv, ReadReturns, WriteReturns, Return, Len_, deviceVars
<1>2. Quiet'
  <2>1. CASE ReadReturns
    BY <2>1 DEF Inv, DevInv, Quiet, ReadReturns, deviceVars
  <2>2. CASE WriteReturns
    <3>1. sector_count \in Nat
      BY <2>2, Sizes DEF Inv, TypeInv, DevInv, WriteReturns
    <3> QED BY <2>2, <3>1 DEF Inv, TypeInv, DevInv, Quiet, WriteReturns, Busy
  <2> QED BY <2>1, <2>2
<1>3. dev' = "committing" => dev = "committing"
  BY DEF ReadReturns, WriteReturns, Busy, deviceVars
<1>4. TypeInv'
  BY <1>1, <1>3 DEF Inv, TypeInv
<1> QED BY <1>1, <1>2, <1>4 DEF Inv, DevInv, DataInv

(* A panic touches neither the drive nor the disk. *)
LEMMA PanicsKeep == ASSUME Inv, ReadPanics \/ WritePanics PROVE Inv'
BY DEF Inv, TypeInv, DevInv, DataInv, ReadPanics, WritePanics, deviceVars

(* While the drive is not committing, its bytes are the media's. *)
LEMMA CommittedIsMedia ==
  media \in [0..(DiskSize - 1) -> Byte] /\ dev # "committing" => Committed = media
BY DEF Committed

(* A command goes out only once the drive is not busy: nothing is lost by it. *)
LEMMA IssueKeeps ==
  ASSUME Inv, NEW kind, NEW pos, NEW count, NEW from, NEW to, Issue(kind, pos, count, from, to)
  PROVE  media' = media /\ Committed = media /\ Committed' = media
<1>1. media' = media /\ dev # "committing" /\ dev' # "committing"
  BY DEF Issue, Accepts, Busy
<1>2. media \in [0..(DiskSize - 1) -> Byte]
  BY DEF Inv, TypeInv
<1> QED BY <1>1, <1>2 DEF Committed

(* A call under way, and its sectors. *)
LEMMA Counted ==
  ASSUME Inv, ShortTransfers, pc # "idle"
  PROVE  /\ position \in Nat /\ position < DiskSize /\ op.len \in Nat /\ sector \in Nat
         /\ position + op.len <= DiskSize
         /\ sector_count \in Nat /\ sector_count >= 1
         /\ sector_count * SectorSize - skip >= op.len
         /\ op.len > 0 => (sector_count - 1) * SectorSize - skip < op.len
         /\ op.len = 0 => sector_count = 1
<1>1. /\ position \in Nat /\ position < DiskSize /\ op.len \in Nat /\ sector \in Nat /\ op # NoOp
      /\ position + op.len <= DiskSize
  BY Sizes DEF Inv, TypeInv
<1>2. op.len = 0 \/ Touched(op.len) < CountMod
  BY <1>1 DEF ShortTransfers
<1>3. sector_count = min_required_sector_count(op.len)
  BY DEF sector_count, Len_
<1> HIDE DEF ShortTransfers
<1> QED BY <1>1, <1>2, <1>3, Span

(* The read command, for as many sectors as the buffer touches. *)
LEMMA ReadIssueKeeps == ASSUME Inv, ShortTransfers, ReadIssue PROVE Inv'
<1>1. /\ position \in Nat /\ position < DiskSize /\ sector = 0 /\ op.len \in Nat /\ op # NoOp
      /\ pc = "read" /\ pc' = "reading"
      /\ UNCHANGED <<position, op, sector, buf, start_sector, end_sector, ops, media, dbuf>>
  BY Sizes DEF Inv, TypeInv, ReadIssue, Issue, Accepts
<1>2. sector_count \in Nat /\ sector_count >= 1
  BY <1>1, Span DEF ShortTransfers, sector_count, Len_
<1>3. dev' = "fetching" /\ lba' = first /\ left' = sector_count /\ first \in Nat
  BY <1>1, <1>2, Addressable DEF ReadIssue, Issue, Accepts, first
<1>4. first' = first /\ skip' = skip /\ sector_count' = sector_count
  BY <1>1, SameCall
<1>5. TypeInv'
  BY <1>1, <1>3 DEF Inv, TypeInv
<1>6. DevInv'
  BY <1>1, <1>2, <1>3, <1>4 DEF DevInv, Fetches
<1>7. DataInv'
  BY <1>1, <1>4 DEF Inv, DataInv
<1> QED BY <1>5, <1>6, <1>7 DEF Inv

(* write asks for the sector it starts in, to keep the bytes before the data. *)
LEMMA StartIssueKeeps == ASSUME Inv, StartIssue PROVE Inv'
<1>1. /\ position \in Nat /\ position < DiskSize /\ sector = 0 /\ op.len \in Nat
      /\ pc = "start" /\ op.kind = "write"
      /\ UNCHANGED <<position, op, sector, buf, start_sector, end_sector, ops>>
  BY Sizes DEF Inv, TypeInv, StartIssue, PartialIssue
<1>2. first' = first /\ skip' = skip
  BY <1>1, SameCall
<1>3. CASE Issue("read", position, 1, "start", "start_fetch")
  <2>1. /\ pc' = "start_fetch" /\ dev' = "fetching" /\ lba' = first /\ left' = 1
        /\ media' = media /\ dbuf' = dbuf
    BY <1>1, <1>3, Addressable DEF Issue, Accepts, first
  <2> QED BY <1>1, <1>2, <2>1 DEF Inv, TypeInv, DevInv, DataInv, Fetches
<1>4. CASE pc' = "end" /\ is_sector_aligned(position) /\ UNCHANGED deviceVars
  <2>1. skip' = 0
    BY <1>2, <1>4 DEF skip, is_sector_aligned
  <2> QED BY <1>1, <1>2, <1>4, <2>1 DEF Inv, TypeInv, DevInv, DataInv, Quiet, deviceVars
<1> QED BY <1>3, <1>4 DEF StartIssue, PartialIssue

(* write asks for the sector it ends in, to keep the bytes after the data. *)
LEMMA EndIssueKeeps == ASSUME Inv, EndIssue PROVE Inv'
<1> DEFINE end == position + op.len
<1>1. /\ position \in Nat /\ end \in Nat /\ end <= DiskSize /\ sector = 0 /\ op.len \in Nat
      /\ pc = "end" /\ op.kind = "write" /\ end_sector = None
      /\ UNCHANGED <<position, op, sector, buf, start_sector, end_sector, ops>>
  BY Sizes DEF Inv, TypeInv, DataInv, EndIssue, PartialIssue
<1>2. first' = first /\ skip' = skip
  BY <1>1, SameCall
<1>3. CASE ~is_sector_aligned(end) /\ Issue("read", end, 1, "end", "end_fetch")
  <2>1. end < DiskSize
    <3>1. DiskSize % SectorSize = 0
      BY Sizes
    <3> QED BY <1>1, <1>3, <3>1, Sizes DEF is_sector_aligned
  <2>2. /\ pc' = "end_fetch" /\ dev' = "fetching" /\ lba' = end \div SectorSize /\ left' = 1
        /\ media' = media /\ dbuf' = dbuf /\ Committed' = Committed
    BY <1>1, <1>3, <2>1, Addressable, IssueKeeps DEF Issue, Accepts
  <2> QED BY <1>1, <1>2, <1>3, <2>2 DEF Inv, TypeInv, DevInv, DataInv, Fetches, is_sector_aligned
<1>4. CASE pc' = "write" /\ is_sector_aligned(end) /\ UNCHANGED deviceVars
  <2>1. (end % SectorSize = 0)' /\ Committed' = Committed
    BY <1>1, <1>4 DEF is_sector_aligned, Committed, deviceVars
  <2> QED BY <1>1, <1>2, <1>4, <2>1 DEF Inv, TypeInv, DevInv, DataInv, Quiet, deviceVars
<1> QED BY <1>3, <1>4 DEF EndIssue, PartialIssue, Len_

(* The write command. *)
LEMMA WriteIssueKeeps == ASSUME Inv, ShortTransfers, WriteIssue PROVE Inv'
<1>1. /\ position \in Nat /\ position < DiskSize /\ sector = 0 /\ op.len \in Nat /\ op # NoOp
      /\ pc = "write" /\ pc' = "writing"
      /\ UNCHANGED <<position, op, sector, buf, start_sector, end_sector, ops, media, dbuf>>
  BY Sizes DEF Inv, TypeInv, WriteIssue, Issue, Accepts
<1>2. sector_count \in Nat /\ sector_count >= 1
  BY <1>1, Span DEF ShortTransfers, sector_count, Len_
<1>3. dev' = "empty" /\ lba' = first /\ left' = sector_count /\ first \in Nat
  BY <1>1, <1>2, Addressable DEF WriteIssue, Issue, Accepts, first
<1>4. first' = first /\ skip' = skip /\ sector_count' = sector_count
  BY <1>1, SameCall
<1>5. Committed' = Committed
  BY IssueKeeps DEF WriteIssue
<1>6. TypeInv'
  BY <1>1, <1>3 DEF Inv, TypeInv
<1>7. DevInv'
  BY <1>1, <1>2, <1>3, <1>4 DEF DevInv
<1>8. \A i \in 0..(op.len - 1) : ~(i < sector * SectorSize - skip)
  <2>1. sector * SectorSize = 0 /\ skip \in Nat
    BY <1>1, Sizes, Position
  <2> QED BY <1>1, <2>1
<1>9. DataInv'
  BY <1>1, <1>4, <1>5, <1>8 DEF Inv, DataInv
<1> QED BY <1>6, <1>7, <1>9 DEF Inv

(* What the drive does on its own changes no byte it has accepted. *)
LEMMA DriveCommits == ASSUME Inv, DeviceStep PROVE Committed' = Committed /\ media' \in [0..(DiskSize - 1) -> Byte]
<1>1. media \in [0..(DiskSize - 1) -> Byte]
  BY DEF Inv, TypeInv
<1>2. CASE DeviceFetches \/ DeviceFlushes
  BY <1>1, <1>2 DEF DeviceFetches, DeviceFlushes, Committed
<1>3. CASE DeviceCommits
  <2>1. dev = "committing" /\ dev' # "committing" /\ media' = Committed
    BY <1>3 DEF DeviceCommits
  <2>2. Committed \in [0..(DiskSize - 1) -> Byte]
    <3>1. dbuf \in [Offset -> Byte]
      BY <2>1 DEF Inv, TypeInv
    <3>2. \A a \in 0..(DiskSize - 1) : a % SectorSize \in Offset
      BY Sizes DEF Offset
    <3> QED BY <1>1, <3>1, <3>2 DEF Committed
  <2> QED BY <2>1, <2>2 DEF Committed
<1> QED BY <1>2, <1>3 DEF DeviceStep

(* The drive fetches or commits a sector, on its own. *)
LEMMA DriveKeeps == ASSUME Inv, ShortTransfers, DeviceStep PROVE Inv'
<1>1. /\ UNCHANGED <<position, op, pc, sector, buf, start_sector, end_sector, ops>>
      /\ first' = first /\ skip' = skip /\ sector_count' = sector_count
  BY SameCall DEF DeviceStep, DeviceFetches, DeviceCommits, DeviceFlushes, driverVars
<1>3. CASE DeviceFetches
  <2>1. /\ dev = "fetching" /\ dev' = "full" /\ media' = media /\ dbuf' = SectorAt(lba)
        /\ UNCHANGED <<lba, left>> /\ \A n : SectorAt(n)' = SectorAt(n)
    BY <1>3 DEF DeviceFetches, SectorAt
  <2>2. Committed' = Committed
    BY DriveCommits
  <2>3. TypeInv'
    BY <1>1, <2>1 DEF Inv, TypeInv
  <2>4. DevInv'
    BY <1>1, <2>1 DEF Inv, DevInv, Quiet, Fetches, is_sector_aligned
  <2>5. DataInv'
    BY <1>1, <2>1, <2>2 DEF Inv, DataInv
  <2> QED BY <2>3, <2>4, <2>5 DEF Inv
<1>4. CASE DeviceFlushes
  <2>1. /\ dev = "flushing" /\ dev' = "idle" /\ UNCHANGED <<media, lba, left, dbuf>>
    BY <1>4 DEF DeviceFlushes
  <2>2. Committed' = Committed
    BY DriveCommits
  <2>3. TypeInv'
    BY <1>1, <2>1 DEF Inv, TypeInv
  <2>4. DevInv'
    BY <1>1, <2>1 DEF Inv, DevInv, Quiet, Fetches, is_sector_aligned
  <2>5. DataInv'
    BY <1>1, <2>1, <2>2 DEF Inv, DataInv
  <2> QED BY <2>3, <2>4, <2>5 DEF Inv
<1>5. CASE DeviceCommits
  <2>1. /\ dev = "committing" /\ dev' = (IF left = 1 THEN "idle" ELSE "empty")
        /\ media' = Committed /\ left' = left - 1 /\ lba' = NextSector
    BY <1>5 DEF DeviceCommits
  <2>2. media' \in [0..(DiskSize - 1) -> Byte]
    BY DriveCommits
  <2>3. Committed' = Committed
    BY DriveCommits
  <2>4. TypeInv'
    BY <1>1, <2>1, <2>2 DEF Inv, TypeInv
  <2>5. DevInv'
    <3>1. pc = "writing" => sector_count \in Nat /\ first \in Nat /\ sector \in Nat
      BY Counted, Position
    <3>2. CASE pc = "writing"
      BY <1>1, <2>1, <3>1, <3>2 DEF Inv, DevInv, NextSector
    <3>3. CASE pc # "writing"
      BY <1>1, <2>1, <3>3 DEF Inv, DevInv, Quiet, Fetches, is_sector_aligned
    <3> QED BY <3>2, <3>3
  <2>6. DataInv'
    <3>2. pc # "reading"
      <4> SUFFICES ASSUME pc = "reading" PROVE FALSE
        OBVIOUS
      <4>1. sector \in Nat /\ sector_count \in Nat /\ sector <= sector_count
        BY Counted DEF Inv, DevInv
      <4>2. sector < sector_count \/ sector = sector_count
        BY <4>1
      <4> QED BY <2>1, <4>2 DEF Inv, DevInv, Fetches
    <3>3. pc = "read" => \A i \in DOMAIN buf : ~(i < sector * SectorSize - skip)
      <4> SUFFICES ASSUME pc = "read" PROVE \A i \in 0..(op.len - 1) : ~(i < sector * SectorSize - skip)
        BY DEF Inv, DataInv
      <4>1. sector * SectorSize = 0 /\ skip \in Nat /\ op.len \in Nat
        BY Sizes, Position DEF Inv, TypeInv
      <4> QED BY <4>1
    <3> QED BY <1>1, <2>3, <3>2, <3>3 DEF Inv, DataInv
  <2> QED BY <2>4, <2>5, <2>6 DEF Inv
<1> QED BY <1>3, <1>4, <1>5 DEF DeviceStep

-----------------------------------------------------------------------------
(* The steps that take or give a sector. *)

(* A sector of the media is a sector of bytes. *)
LEMMA SectorBytes ==
  ASSUME media \in [0..(DiskSize - 1) -> Byte], NEW n \in Nat, n < DiskSectors
  PROVE  /\ SectorAt(n) \in [Offset -> Byte] /\ SectorAt(n) # None
         /\ \A b \in Offset : /\ n * SectorSize + b \in 0..(DiskSize - 1)
                              /\ SectorAt(n)[b] = media[n * SectorSize + b]
<1>1. ASSUME NEW b \in Offset PROVE n * SectorSize + b \in 0..(DiskSize - 1)
  <2>1. n * SectorSize \in Nat /\ (n + 1) * SectorSize = n * SectorSize + SectorSize
    BY Sizes
  <2>2. (n + 1) * SectorSize <= SectorSize * DiskSectors
    BY Sizes
  <2>3. b \in Nat /\ b < SectorSize
    BY Sizes DEF Offset
  <2> QED BY <2>1, <2>2, <2>3, Sizes
<1>2. SectorAt(n) \in [Offset -> Byte]
  BY <1>1 DEF SectorAt
<1> QED BY <1>1, <1>2, NoneAssumption DEF SectorAt

(* The first sector is kept in start_sector. *)
LEMMA StartFetchKeeps == ASSUME Inv, ShortTransfers, StartFetch PROVE Inv'
<1>1. /\ pc = "start_fetch" /\ pc' = "end" /\ start_sector' = dbuf /\ dev # "fetching"
      /\ UNCHANGED <<position, op, sector, buf, end_sector, ops, media>>
  BY DEF StartFetch, SectorTaken, Busy
<1>2. dev = "full" /\ left = 1 /\ dbuf = SectorAt(first)
  BY <1>1 DEF Inv, DevInv, Fetches
<1>3. dev' = "idle"
  BY <1>2 DEF StartFetch, SectorTaken
<1>4. first' = first /\ skip' = skip
  BY <1>1, SameCall
<1>5. first \in Nat /\ first < DiskSectors /\ skip \in 0..(SectorSize - 1)
  BY <1>1, Counted, Addressable, Position DEF first
<1>6. media \in [0..(DiskSize - 1) -> Byte] /\ Committed' = media
  BY <1>1, <1>3 DEF Inv, TypeInv, Committed
<1>7. /\ start_sector' # None
      /\ \A b \in 0..(skip - 1) : start_sector'[b] = Committed'[first * SectorSize + b]
  <2>1. \A b \in 0..(skip - 1) : b \in Offset
    BY <1>5, Sizes DEF Offset
  <2> QED BY <1>1, <1>2, <1>5, <1>6, <2>1, SectorBytes
<1>8. TypeInv'
  BY <1>1, <1>3 DEF Inv, TypeInv
<1>9. DevInv'
  BY <1>1, <1>3 DEF DevInv, Quiet
<1>10. DataInv'
  BY <1>1, <1>4, <1>7 DEF Inv, DataInv
<1> QED BY <1>8, <1>9, <1>10 DEF Inv

(* The last sector is kept in end_sector. *)
LEMMA EndFetchKeeps == ASSUME Inv, ShortTransfers, EndFetch PROVE Inv'
<1> DEFINE end == position + op.len
           at == end \div SectorSize
<1>1. /\ pc = "end_fetch" /\ pc' = "write" /\ end_sector' = dbuf /\ dev # "fetching"
      /\ UNCHANGED <<position, op, sector, buf, start_sector, ops, media>>
  BY DEF EndFetch, SectorTaken, Busy
<1>2. dev = "full" /\ left = 1 /\ dbuf = SectorAt(at)
  BY <1>1 DEF Inv, DevInv, Fetches
<1>3. dev' = "idle"
  BY <1>2 DEF EndFetch, SectorTaken
<1>4. first' = first /\ skip' = skip /\ end' = end
  BY <1>1, SameCall
<1>5. end \in Nat /\ end < DiskSize /\ end % SectorSize # 0
  <2>1. end % SectorSize # 0 /\ DiskSize % SectorSize = 0
    BY <1>1, Sizes DEF Inv, DevInv, is_sector_aligned
  <2>2. end \in Nat /\ end <= DiskSize
    BY <1>1, Counted
  <2> QED BY <2>1, <2>2, Sizes
<1>6. at \in Nat /\ at < DiskSectors /\ end % SectorSize \in Nat
  BY <1>5, Addressable, Sizes
<1>7. media \in [0..(DiskSize - 1) -> Byte] /\ Committed' = media /\ Committed = media
  BY <1>1, <1>2, <1>3 DEF Inv, TypeInv, Committed
<1> HIDE DEF at, end
<1>8. /\ end_sector' # None
      /\ \A b \in (end % SectorSize)..(SectorSize - 1) :
           end_sector'[b] = Committed'[at * SectorSize + b]
  <2>1. \A b \in (end % SectorSize)..(SectorSize - 1) : b \in Offset
    BY <1>6, Sizes DEF Offset
  <2> QED BY <1>1, <1>2, <1>6, <1>7, <2>1, SectorBytes
<1>9. TypeInv'
  BY <1>1, <1>3 DEF Inv, TypeInv
<1>10. DevInv'
  BY <1>1, <1>3 DEF DevInv, Quiet
<1>11. DataInv'
  BY <1>1, <1>4, <1>5, <1>7, <1>8 DEF Inv, DataInv, end, at
<1> QED BY <1>9, <1>10, <1>11 DEF Inv

(* One turn of the loop of read: the words of a sector go to their places in the buffer. *)
LEMMA ReadSectorKeeps == ASSUME Inv, ShortTransfers, ReadSector PROVE Inv'
<1>1. /\ pc = "reading" /\ pc' = "reading" /\ sector < sector_count /\ dev # "fetching"
      /\ sector' = sector + 1
      /\ UNCHANGED <<position, op, start_sector, end_sector, ops, media>>
  BY DEF ReadSector, SectorTaken, Busy
<1>2. /\ dev = "full" /\ left = sector_count - sector /\ lba = first + sector
      /\ dbuf = SectorAt(first + sector)
  BY <1>1 DEF Inv, DevInv, Fetches
<1>3. /\ position \in Nat /\ op.len \in Nat /\ sector \in Nat /\ sector_count \in Nat
      /\ first \in Nat /\ skip \in 0..(SectorSize - 1)
      /\ position = SectorSize * first + skip /\ position + op.len <= DiskSize
  BY <1>1, Counted, Position
<1>4. /\ dev' = IF left = 1 THEN "idle" ELSE "fetching"
      /\ left' = left - 1 /\ lba' = IF left = 1 THEN 0 ELSE lba + 1
  BY DEF ReadSector, SectorTaken, NextSector
<1>5. first' = first /\ skip' = skip /\ sector_count' = sector_count
  BY <1>1, SameCall
<1>6. TypeInv'
  BY <1>1, <1>3, <1>4 DEF Inv, TypeInv
<1>7. DevInv'
  <2>1. CASE left = 1
    BY <1>1, <1>2, <1>3, <1>4, <1>5, <2>1 DEF DevInv, Fetches
  <2>2. CASE left # 1
    BY <1>1, <1>2, <1>3, <1>4, <1>5, <2>2 DEF DevInv, Fetches
  <2> QED BY <2>1, <2>2
<1>8. /\ buf \in [0..(op.len - 1) -> Byte \cup {None}]
      /\ media \in [0..(DiskSize - 1) -> Byte]
      /\ \A i \in 0..(op.len - 1) :
           i < sector * SectorSize - skip => buf[i] = media[position + i]
  BY <1>1 DEF Inv, TypeInv, DataInv
<1>9. \A b \in Offset : place(b) \in Int /\ dbuf[b] = media[position + place(b)]
  <2> SUFFICES ASSUME NEW b \in Offset
               PROVE  place(b) \in Int /\ dbuf[b] = media[position + place(b)]
    OBVIOUS
  <2>1. (first + sector) * SectorSize = SectorSize * first + sector * SectorSize
    BY <1>3, Sizes
  <2>2. b \in Int /\ sector * SectorSize \in Int /\ SectorSize * first \in Int
    BY <1>3, Sizes DEF Offset
  <2>3. (first + sector) * SectorSize + b = position + place(b) /\ place(b) \in Int
    BY <1>3, <2>1, <2>2 DEF place
  <2> QED BY <1>2, <2>3 DEF SectorAt
<1>10. /\ buf' \in [0..(op.len - 1) -> Byte \cup {None}]
       /\ \A i \in 0..(op.len - 1) :
            i < sector' * SectorSize - skip => buf'[i] = media[position + i]
  <2>1. CASE op.len = 0
    BY <1>8, <2>1 DEF ReadSector
  <2>2. CASE op.len # 0
    <3> SUFFICES ASSUME NEW i \in 0..(op.len - 1)
                 PROVE  /\ buf'[i] \in Byte \cup {None}
                        /\ i < sector' * SectorSize - skip => buf'[i] = media[position + i]
      BY <1>8 DEF ReadSector
    <3>1. /\ i \in Nat /\ position + i \in 0..(DiskSize - 1)
      BY <1>3, Sizes
    <3>2. \A b \in Offset : <<i, b>> \in AllAssigned <=> i = place(b)
      BY <1>3, <2>2, Assigns
    <3>3. CASE \E b \in Offset : i = place(b)
      <4> DEFINE c == CHOOSE b \in Offset : <<i, b>> \in AllAssigned
      <4>1. c \in Offset /\ i = place(c)
        BY <3>2, <3>3
      <4>2. buf'[i] = dbuf[c]
        BY <1>8, <3>2, <3>3 DEF ReadSector
      <4> HIDE DEF c
      <4>3. buf'[i] = media[position + i]
        BY <1>9, <4>1, <4>2
      <4> QED BY <1>8, <3>1, <4>3
    <3>4. CASE ~\E b \in Offset : i = place(b)
      <4>1. buf'[i] = buf[i]
        BY <1>8, <3>2, <3>4 DEF ReadSector
      <4>2. i < sector' * SectorSize - skip => i < sector * SectorSize - skip
        <5> SUFFICES ASSUME i < sector' * SectorSize - skip, ~(i < sector * SectorSize - skip)
                     PROVE  FALSE
          OBVIOUS
        <5> DEFINE b == i + skip - sector * SectorSize
        <5>1. sector' * SectorSize = sector * SectorSize + SectorSize /\ sector * SectorSize \in Nat
          BY <1>1, <1>3, Sizes
        <5>2. b \in Offset /\ i = place(b)
          BY <1>3, <3>1, <5>1, Sizes DEF Offset, place
        <5> QED BY <3>4, <5>2
      <4> QED BY <1>8, <4>1, <4>2
    <3> QED BY <3>3, <3>4
  <2> QED BY <2>1, <2>2
<1>11. DataInv'
  <2>1. DOMAIN buf' = 0..(op.len - 1)
    BY <1>10
  <2> QED BY <1>1, <1>5, <1>10, <2>1 DEF Inv, DataInv
<1> QED BY <1>6, <1>7, <1>11 DEF Inv

(* A sector of a write puts its bytes of the data on the disk and leaves every other
   byte as it is, the rest of the first and of the last sector included. *)
LEMMA WriteEffect ==
  ASSUME Inv, ShortTransfers, WriteSector
  PROVE  /\ dbuf' \in [Offset -> Byte]
         /\ DOMAIN Committed' = 0..(DiskSize - 1) /\ DOMAIN Committed = 0..(DiskSize - 1)
         /\ \A a \in 0..(DiskSize - 1) :
              Committed'[a] = IF /\ a \div SectorSize = first + sector
                                 /\ a \in position..((position + op.len) - 1)
                              THEN op.data[a - position] ELSE Committed[a]
<1> DEFINE end == position + op.len
           S == SectorSize
           at == first + sector
<1>1. /\ pc = "writing" /\ sector < sector_count /\ dev = "empty" /\ dev' = "committing"
      /\ UNCHANGED <<media, lba>>
  BY DEF WriteSector, Busy, RwReady, Inv, DevInv
<1>2. /\ position \in Nat /\ op.len \in Nat /\ sector \in Nat /\ sector_count \in Nat
      /\ first \in Nat /\ skip \in 0..(S - 1)
      /\ position = S * first + skip /\ end <= DiskSize /\ end \in Nat
      /\ op.len > 0 => (sector_count - 1) * S - skip < op.len
      /\ op.len = 0 => sector_count = 1
  BY <1>1, Counted, Position
<1>3. lba = at /\ media \in [0..(DiskSize - 1) -> Byte] /\ Committed = media
  BY <1>1 DEF Inv, TypeInv, DevInv, Committed
<1>4. op.data \in [0..(op.len - 1) -> Byte]
  BY <1>1 DEF Inv, TypeInv
<1>5. /\ S * at = S * first + sector * S /\ S * at \in Nat /\ sector * S \in Nat
      /\ S \in Nat \ {0} /\ at * S = S * at
  BY <1>2, Sizes
<1>6. S * at < end \/ (op.len = 0 /\ sector = 0)
  <2>1. CASE op.len = 0
    BY <1>1, <1>2, <2>1
  <2>2. CASE op.len # 0
    <3>1. sector * S <= (sector_count - 1) * S
      BY <1>1, <1>2, Sizes
    <3>2. (sector_count - 1) * S \in Int
      BY <1>2, Sizes
    <3> QED BY <1>2, <1>5, <2>2, <3>1, <3>2
  <2> QED BY <2>1, <2>2
<1>7. at < DiskSectors /\ at \in Nat
  <2>1. S * at < DiskSize
    <3>1. CASE S * at < end
      BY <1>2, <1>5, <3>1, Sizes
    <3>2. CASE op.len = 0 /\ sector = 0
      <4>1. position < DiskSize
        BY <1>1, Counted
      <4> QED BY <1>2, <1>5, <3>2, <4>1, Sizes
    <3> QED BY <1>6, <3>1, <3>2
  <2>2. at \in Nat
    BY <1>2
  <2> QED BY <2>1, <2>2, <1>5, Sizes
<1> HIDE DEF end, S, at
<1>s. S \in Nat \ {0} /\ end \in Int
  BY <1>2, <1>5
<1>8. ASSUME NEW a \in 0..(DiskSize - 1), NEW b \in Offset, a = S * at + b
      PROVE  /\ dbuf'[b] = IF a \in position..(end - 1) THEN op.data[a - position] ELSE media[a]
             /\ dbuf'[b] \in Byte
  <2>1. a \in Nat /\ media[a] \in Byte
    BY <1>3
  <2>2. place(b) = a - position /\ b \in Nat /\ b < S
    <3>1. b \in Nat /\ b < S
      BY <1>s DEF Offset, S
    <3>2. place(b) = sector * S + b - skip
      BY DEF place, S
    <3> QED BY <1>2, <1>5, <1>8, <3>1, <3>2
  <2>3. Available(b) /\ dbuf'[b] = CASE Source(b) = "start" -> start_sector[b]
                                     [] Source(b) = "data" -> op.data[Index(b \div 2) + (b % 2)]
                                     [] Source(b) = "end" -> end_sector[b]
    BY DEF WriteSector
  <2>4. CASE Source(b) = "start"
    <3>1. a - position < 0
      BY <1>2, <2>2, <2>4, Sources
    <3>2. sector = 0
      <4> SUFFICES ASSUME sector # 0 PROVE FALSE
        OBVIOUS
      <4>1. sector * S >= S
        BY <1>2, <1>5
      <4> QED BY <1>2, <1>5, <2>1, <1>8, <2>2, <3>1, <4>1
    <3>3. at = first /\ a = first * S + b
      BY <1>2, <1>5, <1>8, <2>2, <3>2 DEF at
    <3>4. b \in 0..(skip - 1) /\ skip # 0
      BY <1>2, <1>5, <2>1, <2>2, <3>1, <3>3
    <3>5. start_sector[b] = Committed[first * SectorSize + b]
      BY <1>1, <3>4 DEF Inv, DataInv
    <3>6. dbuf'[b] = media[a] /\ ~(a \in position..(end - 1))
      BY <1>2, <1>3, <2>1, <2>3, <2>4, <3>1, <3>3, <3>5 DEF S
    <3> QED BY <2>1, <3>6
  <2>5. CASE Source(b) = "data"
    <3>1. op.len > 0
      BY <1>2, <2>3, <2>5 DEF Available, Len_
    <3>2. place(b) \in 0..(op.len - 1) /\ Index(b \div 2) + (b % 2) = place(b)
      BY <1>2, <2>5, <3>1, Sources
    <3>3. dbuf'[b] = op.data[a - position] /\ a - position \in 0..(op.len - 1)
      BY <2>2, <2>3, <2>5, <3>2
    <3>4. a \in position..(end - 1)
      BY <1>2, <2>1, <3>3 DEF end
    <3> QED BY <1>4, <2>1, <3>3, <3>4
  <2>6. CASE Source(b) = "end"
    <3>1. a - position >= op.len /\ a >= end
      <4>1. a - position >= op.len
        BY <1>2, <2>2, <2>6, Sources
      <4> QED BY <1>2, <2>1, <4>1 DEF end
    <3>2. end_sector # None
      BY <2>3, <2>6 DEF Available
    <3> DEFINE qe == end \div S
               re == end % S
    <3>3. re # 0 /\ \A x \in re..(S - 1) : end_sector[x] = Committed[qe * S + x]
      BY <1>1, <3>2 DEF Inv, DataInv, end, S
    <3>4. qe \in Nat /\ re \in 0..(S - 1) /\ end = S * qe + re
      <4>1. qe \in Int /\ re \in 0..(S - 1) /\ end = S * qe + re
        BY <1>s, DivMod
      <4> HIDE DEF qe, re
      <4> QED BY <1>2, <1>5, <4>1
    <3> HIDE DEF qe, re
    <3>5. at = qe
      <4>1. at <= qe
        <5> SUFFICES ASSUME at >= qe + 1 PROVE FALSE
          BY <1>7, <3>4
        <5>1. S * at >= S * qe + S
          BY <1>5, <1>7, <3>4
        <5>2. CASE S * at < end
          BY <1>2, <1>5, <3>4, <5>1, <5>2
        <5>3. CASE op.len = 0 /\ sector = 0
          <6>1. S * at <= end
            BY <1>2, <1>5, <5>3 DEF end
          <6> QED BY <1>2, <1>5, <3>4, <5>1, <6>1
        <5> QED BY <1>6, <5>2, <5>3
      <4>2. at >= qe
        <5> SUFFICES ASSUME at + 1 <= qe PROVE FALSE
          BY <1>7, <3>4
        <5>1. S * at + S <= S * qe
          BY <1>5, <1>7, <3>4
        <5> QED BY <1>2, <1>5, <2>1, <2>2, <1>8, <3>1, <3>4, <5>1
      <4> QED BY <4>1, <4>2, <1>7, <3>4
    <3>6. b \in re..(S - 1) /\ a = qe * S + b
      BY <1>2, <1>5, <2>1, <1>8, <2>2, <3>1, <3>4, <3>5
    <3>7. dbuf'[b] = media[a] /\ ~(a \in position..(end - 1))
      BY <1>2, <1>3, <2>1, <2>3, <2>6, <3>1, <3>3, <3>6
    <3> QED BY <2>1, <3>7
  <2> QED BY <1>2, <2>4, <2>5, <2>6, Sources
<1>9. dbuf' \in [Offset -> Byte]
  <2> SUFFICES ASSUME NEW b \in Offset PROVE dbuf'[b] \in Byte
    BY DEF WriteSector
  <2>1. at * SectorSize + b \in 0..(DiskSize - 1)
    BY <1>3, <1>7, SectorBytes
  <2>2. at * SectorSize + b = S * at + b
    BY <1>5 DEF S
  <2> QED BY <1>8, <2>1, <2>2
<1>10. /\ Committed' = [a \in 0..(DiskSize - 1) |->
                          IF a \div SectorSize = at THEN dbuf'[a % SectorSize] ELSE media[a]]
  BY <1>1, <1>3 DEF Committed
<1>11. ASSUME NEW a \in 0..(DiskSize - 1)
       PROVE  Committed'[a] = IF a \div S = at /\ a \in position..(end - 1)
                              THEN op.data[a - position] ELSE Committed[a]
  <2>1. CASE a \div S = at
    <3> DEFINE b == a % S
    <3>1. a = S * at + b /\ b \in 0..(S - 1)
      <4>1. a \in Int
        BY Sizes
      <4> QED BY <2>1, <1>s, <4>1, DivMod
    <3>2. b \in Offset
      BY <3>1 DEF Offset, S
    <3>3. Committed'[a] = dbuf'[b]
      BY <1>10, <2>1 DEF S
    <3> HIDE DEF b
    <3>5. dbuf'[b] = IF a \in position..(end - 1) THEN op.data[a - position] ELSE media[a]
      BY <1>8, <3>1, <3>2
    <3> QED BY <1>3, <2>1, <3>3, <3>5
  <2>2. CASE a \div S # at
    BY <1>3, <1>10, <2>2 DEF S
  <2> QED BY <2>1, <2>2
<1>12. DOMAIN Committed' = 0..(DiskSize - 1) /\ DOMAIN Committed = 0..(DiskSize - 1)
  BY <1>3, <1>10
<1>13. \A a \in 0..(DiskSize - 1) :
         Committed'[a] = IF a \div S = at /\ a \in position..(end - 1)
                         THEN op.data[a - position] ELSE Committed[a]
  BY <1>11
<1> QED BY <1>9, <1>12, <1>13 DEF S, end, at

(* After the sector, the data is on the disk up to the end of it. *)
LEMMA WriteProgress ==
  ASSUME Inv, ShortTransfers, WriteSector
  PROVE  \A a \in 0..(DiskSize - 1) :
           Committed'[a] = IF /\ a \in position..((position + op.len) - 1)
                              /\ a - position < sector' * SectorSize - skip
                           THEN op.data[a - position] ELSE Committed[a]
<1> DEFINE end == position + op.len
           n == sector * SectorSize - skip
<1>1. pc = "writing" /\ sector' = sector + 1
  BY DEF WriteSector
<1>2. /\ position \in Nat /\ op.len \in Nat /\ sector \in Nat /\ end \in Nat /\ end <= DiskSize
      /\ first \in Nat /\ skip \in 0..(SectorSize - 1)
      /\ position = SectorSize * first + skip
  BY <1>1, Counted, Position
<1>3. /\ sector' * SectorSize - skip = n + SectorSize /\ n \in Int
      /\ SectorSize * (first + sector) = position + n /\ first + sector \in Int
  <2>1. /\ sector' * SectorSize = sector * SectorSize + SectorSize /\ sector * SectorSize \in Int
        /\ SectorSize * (first + sector) = SectorSize * first + sector * SectorSize
        /\ SectorSize * first \in Int
    BY <1>1, <1>2, Sizes
  <2> QED BY <1>2, <2>1, Sizes
<1>4. \A i \in 0..(op.len - 1) : i < n => Committed[position + i] = op.data[i]
  BY <1>1 DEF Inv, DataInv
<1>5. \A a \in 0..(DiskSize - 1) :
        Committed'[a] = IF a \div SectorSize = first + sector /\ a \in position..(end - 1)
                        THEN op.data[a - position] ELSE Committed[a]
  BY WriteEffect
<1> HIDE DEF n
<1>6. ASSUME NEW a \in 0..(DiskSize - 1), a \in position..(end - 1)
      PROVE  Committed'[a] = IF a - position < n + SectorSize
                             THEN op.data[a - position] ELSE Committed[a]
  <2>1. a \in Int /\ a - position \in 0..(op.len - 1) /\ a = position + (a - position)
    BY <1>2, <1>6
  <2>2. CASE a \div SectorSize = first + sector
    <3>1. a < position + n + SectorSize
      <4>1. SectorSize \in Nat \ {0}
        BY Sizes
      <4>2. a % SectorSize \in 0..(SectorSize - 1) /\ a = SectorSize * (first + sector) + (a % SectorSize)
        BY <2>1, <2>2, <4>1, DivMod
      <4>3. a = (position + n) + (a % SectorSize)
        BY <1>3, <4>2
      <4> QED BY <1>2, <1>3, <4>1, <4>2, <4>3
    <3>2. a - position < n + SectorSize
      BY <1>2, <1>3, <2>1, <3>1, Sizes
    <3> QED BY <1>5, <1>6, <2>2, <3>2
  <2>3. CASE a \div SectorSize # first + sector
    <3>1. Committed'[a] = Committed[a]
      BY <1>5, <2>3
    <3>2. CASE a - position < n
      BY <1>4, <2>1, <3>1, <3>2
    <3>3. CASE a - position >= n /\ a - position < n + SectorSize
      <4> DEFINE r == a - (position + n)
      <4>1. r \in 0..(SectorSize - 1) /\ a = SectorSize * (first + sector) + r
        BY <1>2, <1>3, <2>1, <3>3, Sizes
      <4> HIDE DEF r
      <4>2. a \div SectorSize = first + sector
        BY <1>3, <4>1, Sizes, DivUnique
      <4> QED BY <2>3, <4>2
    <3>4. CASE ~(a - position < n + SectorSize)
      BY <3>1, <3>4
    <3> QED BY <1>2, <1>3, <2>1, <3>2, <3>3, <3>4, Sizes
  <2> QED BY <2>2, <2>3
<1>7. ASSUME NEW a \in 0..(DiskSize - 1), ~(a \in position..(end - 1))
      PROVE  Committed'[a] = Committed[a]
  BY <1>5, <1>7
<1> QED BY <1>3, <1>6, <1>7

(* One turn of the loop of write: a sector is made of kept bytes and of data. *)
LEMMA WriteSectorKeeps == ASSUME Inv, ShortTransfers, WriteSector PROVE Inv'
<1> DEFINE end == position + op.len
<1>1. /\ pc = "writing" /\ pc' = "writing" /\ sector < sector_count /\ sector' = sector + 1
      /\ dev = "empty" /\ dev' = "committing"
      /\ UNCHANGED <<position, op, buf, start_sector, end_sector, ops, media, lba, left>>
  BY DEF WriteSector, Busy, RwReady, Inv, DevInv
<1>2. /\ position \in Nat /\ op.len \in Nat /\ sector \in Nat /\ sector_count \in Nat
      /\ first \in Nat /\ skip \in 0..(SectorSize - 1)
      /\ position = SectorSize * first + skip
  BY <1>1, Counted, Position
<1>3. first' = first /\ skip' = skip /\ sector_count' = sector_count /\ end' = end
  BY <1>1, SameCall
<1>4. left = sector_count - sector /\ lba = first + sector
  BY <1>1 DEF Inv, DevInv
<1>5. TypeInv'
  <2>1. sector' \in Nat
    BY <1>1, <1>2
  <2>2. dbuf' \in [Offset -> Byte]
    BY WriteEffect
  <2> QED BY <1>1, <2>1, <2>2 DEF Inv, TypeInv
<1>6. DevInv'
  BY <1>1, <1>2, <1>3, <1>4 DEF DevInv
<1>7. \A a \in 0..(DiskSize - 1) : ~(a \in position..(end - 1)) => Committed'[a] = Committed[a]
  BY WriteEffect
<1>8. ASSUME NEW b \in 0..(skip - 1)
      PROVE  Committed'[first * SectorSize + b] = Committed[first * SectorSize + b]
  <2>1. first * SectorSize = SectorSize * first /\ SectorSize * first \in Nat
    BY <1>2, Sizes
  <2>2. first * SectorSize + b \in 0..(DiskSize - 1) /\ first * SectorSize + b < position
    <3>1. position < DiskSize
      BY <1>1, Counted
    <3> QED BY <1>2, <2>1, <3>1, Sizes
  <2> QED BY <1>2, <1>7, <2>2
<1>9. ASSUME end % SectorSize # 0, NEW b \in (end % SectorSize)..(SectorSize - 1)
      PROVE  LET a == (end \div SectorSize) * SectorSize + b IN Committed'[a] = Committed[a]
  <2> DEFINE q == end \div SectorSize
             r == end % SectorSize
  <2>0. end \in Int /\ end \in Nat /\ end <= DiskSize
    BY <1>1, Counted
  <2>1. q \in Int /\ r \in 0..(SectorSize - 1) /\ end = SectorSize * q + r
    BY <2>0, Sizes, DivMod
  <2>2. end < DiskSize
    <3>1. DiskSize % SectorSize = 0
      BY Sizes
    <3> QED BY <1>9, <2>0, <3>1, Sizes
  <2>3. q \in Nat /\ q < DiskSectors
    BY <2>0, <2>2, Addressable
  <2> HIDE DEF q, r
  <2>4. b \in Offset /\ b >= r
    BY <2>1 DEF Offset, r
  <2>5. q * SectorSize + b \in 0..(DiskSize - 1)
    BY <2>3, <2>4, SectorBytes DEF Inv, TypeInv
  <2>6. q * SectorSize = SectorSize * q /\ SectorSize * q \in Nat /\ b \in Nat
    BY <2>3, <2>4, Sizes DEF Offset
  <2>7. q * SectorSize + b >= end
    BY <2>0, <2>1, <2>4, <2>6
  <2> HIDE DEF end
  <2>8. ~(q * SectorSize + b \in position..(end - 1))
    BY <1>2, <2>0, <2>5, <2>7, Sizes
  <2> QED BY <1>7, <2>5, <2>8 DEF q
<1> HIDE DEF end
<1>10. DataInv'
  <2>1. skip # 0 => /\ start_sector # None
                    /\ \A b \in 0..(skip - 1) :
                         start_sector[b] = Committed[first * SectorSize + b]
    BY <1>1 DEF Inv, DataInv
  <2>2. skip # 0 => /\ start_sector # None
                    /\ \A b \in 0..(skip - 1) :
                         start_sector[b] = Committed'[first * SectorSize + b]
    BY <1>8, <2>1
  <2>3. IF end % SectorSize = 0 THEN end_sector = None
        ELSE /\ end_sector # None
             /\ \A b \in (end % SectorSize)..(SectorSize - 1) :
                  end_sector[b] = Committed[(end \div SectorSize) * SectorSize + b]
    BY <1>1 DEF Inv, DataInv, end
  <2>4. IF end % SectorSize = 0 THEN end_sector = None
        ELSE /\ end_sector # None
             /\ \A b \in (end % SectorSize)..(SectorSize - 1) :
                  end_sector[b] = Committed'[(end \div SectorSize) * SectorSize + b]
    BY <1>9, <2>3
  <2>5. ASSUME NEW i \in 0..(op.len - 1), i < sector' * SectorSize - skip
        PROVE  Committed'[position + i] = op.data[i]
    <3>1. /\ position + i \in 0..(DiskSize - 1) /\ (position + i) - position = i
          /\ position + i \in position..((position + op.len) - 1)
      BY <1>1, <1>2, Counted, Sizes
    <3> QED BY <2>5, <3>1, WriteProgress
  <2> QED BY <1>1, <1>3, <2>2, <2>4, <2>5 DEF DataInv, end
<1> QED BY <1>5, <1>6, <1>10 DEF Inv

(* Together. *)
LEMMA InitKeeps == Init => Inv
<1> SUFFICES ASSUME Init PROVE Inv
  OBVIOUS
<1>1. media \in [0..(DiskSize - 1) -> Byte]
  BY Sizes DEF Init, Byte
<1>2. TypeInv
  BY <1>1, Sizes DEF Init, TypeInv
<1>3. DevInv /\ DataInv
  BY DEF Init, DevInv, DataInv, Quiet
<1> QED BY <1>2, <1>3 DEF Inv

(* All together. *)
LEMMA StepKeeps == Inv /\ ShortTransfers /\ ShortTransfers' /\ [Next]_vars => Inv'
<1> SUFFICES ASSUME Inv, ShortTransfers, ShortTransfers', [Next]_vars PROVE Inv'
  OBVIOUS
<1>1. CASE Calls \/ SeekStart \/ SeekCurrent
  BY <1>1, CallsKeep, SeeksKeep
<1>2. CASE DriverStep
  BY <1>2, ReadIssueKeeps, ReadSectorKeeps, PanicsKeep, ReturnsKeep, StartIssueKeeps,
     StartFetchKeeps, EndIssueKeeps, EndFetchKeeps, WriteIssueKeeps, WriteSectorKeeps
     DEF DriverStep
<1>3. CASE DeviceStep
  BY <1>3, DriveKeeps
<1>4. CASE HltLoop \/ UNCHANGED vars
  <2>1. UNCHANGED <<position, pc, op, sector, buf, start_sector, end_sector, out, ops,
                    media, dev, lba, left, dbuf>>
    BY <1>4 DEF HltLoop, vars, driverVars, deviceVars
  <2>2. first' = first /\ skip' = skip /\ sector_count' = sector_count /\ Committed' = Committed
        /\ \A n : SectorAt(n)' = SectorAt(n)
    BY <2>1, SameCall DEF Committed, SectorAt
  <2> QED BY <2>1, <2>2 DEF Inv, TypeInv, DevInv, DataInv, Fetches, Quiet, is_sector_aligned
<1> QED BY <1>1, <1>2, <1>3, <1>4 DEF Next

(* For every sector size, disk and history of calls whose sectors the count can name,
   read and write transfer exactly the sectors they announced. *)
THEOREM TransfersAreComplete == Spec /\ []ShortTransfers => []TransfersComplete
<1>1. Inv => TransfersComplete
  BY DEF Inv, DevInv, Quiet, TransfersComplete
<1> QED BY <1>1, InitKeeps, StepKeeps, PTL DEF Spec

-----------------------------------------------------------------------------
(* The driver simulates the array of bytes. *)

(* With data to move, no word of a sector leads the driver outside its buffers. *)
LEMMA PanicsOnlyOnNothing == ASSUME Inv, ShortTransfers, ReadPanics \/ WritePanics PROVE op.len = 0
<1> SUFFICES ASSUME op.len # 0 PROVE FALSE
  OBVIOUS
<1>1. pc # "idle" /\ sector < sector_count
  BY DEF ReadPanics, WritePanics
<1>2. /\ position \in Nat /\ op.len \in Nat \ {0} /\ sector \in Nat /\ sector_count \in Nat
      /\ first \in Nat /\ skip \in 0..(SectorSize - 1)
      /\ position = SectorSize * first + skip
      /\ (sector_count - 1) * SectorSize - skip < op.len
  BY <1>1, Counted, Position
<1>3. CASE ReadPanics
  <2>1. PICK a \in AllAssigned : a[1] >= op.len
    BY <1>3 DEF ReadPanics, Len_
  <2>2. a[1] \in Int /\ a[1] < op.len
    BY <1>2, Assigns
  <2> QED BY <1>2, <2>1, <2>2
<1>4. CASE WritePanics
  <2>1. pc = "writing"
    BY <1>4 DEF WritePanics
  <2>2. PICK b \in Offset : ~Available(b)
    BY <1>4 DEF WritePanics
  <2>3. b \in Nat /\ b < SectorSize
    BY Sizes DEF Offset
  <2>4. CASE Source(b) = "start"
    <3>1. place(b) < 0 /\ sector * SectorSize \in Nat
      BY <1>2, <2>4, Sources, Sizes
    <3>2. skip # 0
      BY <1>2, <2>3, <3>1 DEF place
    <3> QED BY <2>1, <2>2, <2>4, <3>2 DEF Inv, DataInv, Available
  <2>5. CASE Source(b) = "data"
    BY <1>2, <2>2, <2>5 DEF Available, Len_
  <2>6. CASE Source(b) = "end"
    <3> DEFINE end == position + op.len
               q == end \div SectorSize
    <3>1. place(b) >= op.len
      BY <1>2, <2>6, Sources
    <3>2. end % SectorSize = 0 /\ end \in Int
      BY <1>2, <2>1, <2>2, <2>6 DEF Inv, DataInv, Available
    <3>3. q \in Int /\ end = SectorSize * q
      <4>1. SectorSize \in Nat \ {0}
        BY Sizes
      <4>2. q \in Int /\ end = SectorSize * q + (end % SectorSize)
        BY <3>2, <4>1, DivMod
      <4> HIDE DEF q
      <4> QED BY <3>2, <4>1, <4>2
    <3> HIDE DEF q
    <3>4. sector * SectorSize <= (sector_count - 1) * SectorSize
      BY <1>1, <1>2, Sizes
    <3>5. /\ sector * SectorSize \in Int /\ (sector_count - 1) * SectorSize \in Int
          /\ SectorSize * (first + sector) = SectorSize * first + sector * SectorSize
          /\ SectorSize * first \in Int
      BY <1>2, Sizes
    <3>6. SectorSize * (first + sector) < SectorSize * q
      BY <1>2, <3>3, <3>4, <3>5
    <3>7. first + sector < q
      BY <1>2, <3>3, <3>6, Sizes
    <3>8. SectorSize * (first + sector) + SectorSize <= SectorSize * q
      BY <1>2, <3>3, <3>7, Sizes
    <3>9. (sector * SectorSize + SectorSize) - skip <= op.len
      BY <1>2, <3>3, <3>5, <3>8, Sizes
    <3>10. place(b) < (sector * SectorSize + SectorSize) - skip
      BY <1>2, <2>3, <3>5, Sizes DEF place
    <3> QED BY <1>2, <2>3, <3>1, <3>5, <3>9, <3>10, Sizes DEF place
  <2> QED BY <1>2, <2>4, <2>5, <2>6, Sources
<1> QED BY <1>3, <1>4

(* A sector of a write is a step of the array's write, or none when there is nothing
   to write. *)
LEMMA WriteSectorSimulates ==
  ASSUME Inv, Inv', ShortTransfers, WriteSector
  PROVE  Disk!WriteSome \/ UNCHANGED Disk!vars
<1> DEFINE n == sector * SectorSize - skip
<1>1. /\ pc = "writing" /\ pc' = "writing" /\ sector' = sector + 1 /\ sector < sector_count
      /\ UNCHANGED <<position, op, out>>
  BY DEF WriteSector
<1>2. /\ position \in Nat /\ op.len \in Nat /\ sector \in Nat /\ op # NoOp /\ op.kind = "write"
      /\ skip \in 0..(SectorSize - 1) /\ sector_count \in Nat
      /\ op.len > 0 => (sector_count - 1) * SectorSize - skip < op.len
  BY <1>1, Counted, Position DEF Inv, TypeInv
<1>3. /\ sector' * SectorSize - skip = n + SectorSize /\ n \in Int /\ n + SectorSize > 0
      /\ op.len > 0 => n < op.len
  <2>1. /\ sector' * SectorSize = sector * SectorSize + SectorSize /\ sector * SectorSize \in Nat
    BY <1>1, <1>2, Sizes
  <2>2. sector * SectorSize <= (sector_count - 1) * SectorSize
        /\ (sector_count - 1) * SectorSize \in Int
    BY <1>1, <1>2, Sizes
  <2> QED BY <1>2, <2>1, <2>2, Sizes
<1>4. /\ Done = IF n < 0 THEN 0 ELSE IF n < op.len THEN n ELSE op.len
      /\ Done' = IF n + SectorSize < op.len THEN n + SectorSize ELSE op.len
  <2>1. skip' = skip
    BY <1>1, SameCall
  <2>2. Done = IF n < 0 THEN 0 ELSE IF n < op.len THEN n ELSE op.len
    BY <1>1 DEF Done, Len_, skip
  <2>3. Done' = IF sector' * SectorSize - skip' < 0 THEN 0
                ELSE IF sector' * SectorSize - skip' < op.len
                     THEN sector' * SectorSize - skip' ELSE op.len
    BY <1>1 DEF Done, Len_, skip
  <2> HIDE DEF n
  <2> QED BY <1>3, <2>1, <2>2, <2>3, Sizes
<1>5. \A a \in 0..(DiskSize - 1) :
        Committed'[a] = IF /\ a \in position..((position + op.len) - 1)
                           /\ a - position < n + SectorSize
                        THEN op.data[a - position] ELSE Committed[a]
  BY <1>3, WriteProgress
<1>6. /\ Committed = [a \in 0..(DiskSize - 1) |-> Committed[a]]
      /\ Committed' = [a \in 0..(DiskSize - 1) |-> Committed'[a]]
  <2>1. DOMAIN media = 0..(DiskSize - 1) /\ DOMAIN media' = 0..(DiskSize - 1)
    BY DEF Inv, TypeInv
  <2> QED BY <2>1 DEF Committed
<1>7. (pc = "panicked")' = (pc = "panicked")
  BY <1>1
<1> HIDE DEF n
<1>8. CASE op.len = 0
  <2>1. Done = 0 /\ Done' = 0
    BY <1>3, <1>4, <1>8
  <2>2. \A a \in 0..(DiskSize - 1) : Committed'[a] = Committed[a]
    BY <1>2, <1>5, <1>8, Sizes
  <2>3. Committed' = Committed
    BY <1>6, <2>2
  <2> QED BY <1>1, <1>7, <2>1, <2>3 DEF Disk!vars
<1>9. CASE op.len > 0
  <2>1. Done \in Nat /\ Done' \in Nat /\ Done' \in (Done + 1)..op.len
    BY <1>2, <1>3, <1>4, <1>9, Sizes
  <2>2. ASSUME NEW a \in 0..(DiskSize - 1)
        PROVE  Committed'[a] = IF a \in position..(position + Done' - 1)
                               THEN op.data[a - position] ELSE Committed[a]
    <3>1. a \in position..(position + Done' - 1) <=>
            a \in position..((position + op.len) - 1) /\ a - position < n + SectorSize
      BY <1>2, <1>3, <1>4, <2>1, Sizes
    <3> QED BY <1>5, <3>1
  <2>3. Committed' = Disk!Written(op.data, Done')
    <3>1. DOMAIN Committed = 0..(DiskSize - 1)
      BY <1>6
    <3> QED BY <1>6, <2>2, <3>1 DEF Disk!Written
  <2>4. pc # "panicked" /\ pc' # "panicked"
    BY <1>1
  <2> QED BY <1>1, <1>2, <2>1, <2>3, <2>4 DEF Disk!WriteSome
<1> QED BY <1>2, <1>8, <1>9

(* The disk starts as an array of bytes, with no call under way. *)
LEMMA DiskInit == Init => Disk!Init
<1> SUFFICES ASSUME Init PROVE Disk!Init
  OBVIOUS
<1>1. DOMAIN Committed = 0..(DiskSize - 1) /\ Done = 0 /\ (pc = "panicked") = FALSE
  BY DEF Init, Committed, Done
<1> QED BY <1>1 DEF Init, Disk!Init

(* Every step of driver or drive is one of the array of bytes, or none. *)
LEMMA DiskStep ==
  Inv /\ Inv' /\ ShortTransfers /\ ShortTransfers' /\ [Next]_vars => [Disk!Next]_(Disk!vars)
<1> SUFFICES ASSUME Inv, Inv', ShortTransfers, ShortTransfers', [Next]_vars
             PROVE  Disk!Next \/ UNCHANGED Disk!vars
  OBVIOUS
<1>1. media \in [0..(DiskSize - 1) -> Byte]
  BY DEF Inv, TypeInv
<1>2. CASE Calls
  <2>1. /\ pc = "idle" /\ pc' \notin {"writing", "panicked"} /\ out' = <<>>
        /\ UNCHANGED <<position, media, dev, lba, left, dbuf>>
    BY <1>2, CallsKeep DEF Calls, Begin, deviceVars
  <2>2. op = NoOp /\ op' # NoOp /\ position + op'.len <= DiskSize
    <3>1. pc' # "idle"
      BY <1>2 DEF Calls, Begin
    <3> QED BY <2>1, <3>1 DEF Inv, TypeInv
  <2>3. Done' = Done /\ Committed' = Committed
    BY <2>1 DEF Done, Committed
  <2> QED BY <2>1, <2>2, <2>3 DEF Disk!Next, Disk!Begin
<1>3. CASE SeekStart \/ SeekCurrent
  <2>1. /\ pc = "idle" /\ UNCHANGED <<pc, op, out, media, dev, lba, left, dbuf>>
    BY <1>3 DEF SeekStart, SeekCurrent, deviceVars
  <2>2. op = NoOp /\ position' \in 0..DiskSize
    BY <2>1 DEF Inv, TypeInv
  <2>3. Done' = Done /\ Committed' = Committed
    BY <2>1 DEF Done, Committed
  <2> QED BY <2>1, <2>2, <2>3 DEF Disk!Next, Disk!Seek
<1>4. CASE ReadIssue \/ StartIssue \/ EndIssue \/ ReadSector \/ StartFetch \/ EndFetch
  <2>1. /\ pc \notin {"writing", "panicked"} /\ pc' \notin {"writing", "panicked"}
        /\ UNCHANGED <<position, op, out>>
    BY <1>4 DEF ReadIssue, StartIssue, EndIssue, PartialIssue, Issue, ReadSector, StartFetch, EndFetch
  <2>2. /\ media' = media
        /\ \/ UNCHANGED <<dev, lba, dbuf>>
           \/ dev # "committing" /\ dev' # "committing"
    <3>1. CASE ReadIssue
      BY <3>1 DEF ReadIssue, Issue, Accepts, Busy
    <3>2. CASE StartIssue \/ EndIssue
      <4>1. UNCHANGED <<media, dev, lba, left, dbuf>>
            \/ \E pos, from, to : Issue("read", pos, 1, from, to)
        BY <3>2 DEF StartIssue, EndIssue, PartialIssue, deviceVars
      <4> QED BY <4>1 DEF Issue, Accepts, Busy
    <3>3. CASE ReadSector \/ StartFetch \/ EndFetch
      BY <3>3 DEF ReadSector, StartFetch, EndFetch, SectorTaken, Busy
    <3> QED BY <1>4, <3>1, <3>2, <3>3
  <2>3. Done' = Done /\ Committed' = Committed
    BY <1>1, <2>1, <2>2 DEF Done, Committed
  <2> QED BY <2>1, <2>3 DEF Disk!vars
<1>5. CASE WriteIssue
  <2>1. /\ pc = "write" /\ pc' = "writing" /\ UNCHANGED <<position, op, out, sector>>
    BY <1>5 DEF WriteIssue, Issue
  <2>2. Committed' = Committed
    BY <1>5, IssueKeeps DEF WriteIssue
  <2>3. sector = 0 /\ op.len \in Nat /\ skip \in Nat /\ 0 * SectorSize = 0
    <3>1. sector = 0
      BY <2>1 DEF Inv, TypeInv
    <3>2. op.len \in Nat /\ skip \in Nat
      BY <2>1, Counted, Position, Sizes
    <3>3. 0 * SectorSize = 0
      BY Sizes
    <3> QED BY <3>1, <3>2, <3>3
  <2>4. Done = 0 /\ Done' = 0
    <3>1. Done = 0
      BY <2>1 DEF Done
    <3>2. skip' = skip
      BY <2>1, SameCall
    <3>3. Done' = IF sector' * SectorSize - skip' < 0 THEN 0
                  ELSE IF sector' * SectorSize - skip' < op.len
                       THEN sector' * SectorSize - skip' ELSE op.len
      BY <2>1 DEF Done, Len_, skip
    <3> QED BY <2>1, <2>3, <3>1, <3>2, <3>3
  <2> QED BY <2>1, <2>2, <2>4 DEF Disk!vars
<1>6. CASE WriteSector
  BY <1>6, WriteSectorSimulates DEF Disk!Next
<1>7. CASE ReadPanics \/ WritePanics
  <2>1. /\ pc \in {"reading", "writing"} /\ pc' = "panicked"
        /\ UNCHANGED <<position, op, out, sector, media, dev, lba, left, dbuf>>
    BY <1>7 DEF ReadPanics, WritePanics, deviceVars
  <2>2. op.len = 0 /\ op # NoOp
    BY <1>7, <2>1, PanicsOnlyOnNothing DEF Inv, TypeInv
  <2>3. Done = 0 /\ Done' = 0 /\ Committed' = Committed
    BY <2>1, <2>2 DEF Done, Len_, Committed
  <2> QED BY <2>1, <2>2, <2>3 DEF Disk!Next, Disk!Stops
<1>8. CASE ReadReturns
  <2>1. /\ pc = "reading" /\ pc' = "idle" /\ sector = sector_count /\ out' = buf
        /\ position' = position + op.len /\ op' = NoOp
        /\ UNCHANGED <<media, dev, lba, left, dbuf>>
    BY <1>8 DEF ReadReturns, Return, Len_, deviceVars
  <2>2. dev = "idle" /\ op # NoOp /\ op.kind = "read"
    BY <2>1 DEF Inv, TypeInv, DevInv
  <2>3. Done = 0 /\ Done' = 0 /\ Committed' = Committed /\ Committed = media
    BY <1>1, <2>1, <2>2 DEF Done, Committed
  <2>4. buf = [i \in 0..(op.len - 1) |-> media[position + i]]
    <3>1. op.len \in Nat /\ sector * SectorSize - skip >= op.len
      BY <2>1, Counted
    <3>2. sector * SectorSize - skip \in Int
      BY <2>1, Counted, Position, Sizes
    <3>3. \A i \in 0..(op.len - 1) : i < sector * SectorSize - skip
      BY <3>1, <3>2
    <3> QED BY <2>1, <3>3 DEF Inv, DataInv
  <2> QED BY <2>1, <2>2, <2>3, <2>4 DEF Disk!Next, Disk!ReadEnds
<1>9. CASE WriteReturns
  <2>1. /\ pc = "writing" /\ pc' = "idle" /\ sector = sector_count
        /\ position' = position + op.len /\ op' = NoOp
        /\ UNCHANGED <<out, media, lba, left, dbuf>>
    BY <1>9 DEF WriteReturns, Return, Len_
  <2>2. op # NoOp /\ op.kind = "write"
    BY <2>1 DEF Inv, TypeInv
  <2>3. dev' = "committing" <=> dev = "committing"
    BY <1>9 DEF WriteReturns, Busy
  <2>4. Committed' = Committed
    BY <2>1, <2>3 DEF Committed
  <2>5. Done' = 0 /\ Done = op.len
    <3>1. /\ op.len \in Nat /\ sector * SectorSize - skip >= op.len
          /\ sector * SectorSize - skip \in Int
      BY <2>1, Counted, Position, Sizes
    <3>2. Done = IF sector * SectorSize - skip < 0 THEN 0
                 ELSE IF sector * SectorSize - skip < op.len
                      THEN sector * SectorSize - skip ELSE op.len
      BY <2>1 DEF Done, Len_, skip
    <3>3. Done' = 0
      BY <2>1 DEF Done
    <3> QED BY <3>1, <3>2, <3>3
  <2> QED BY <2>1, <2>2, <2>4, <2>5 DEF Disk!Next, Disk!WriteEnds
<1>10. CASE DeviceStep
  <2>1. UNCHANGED <<position, op, pc, out, sector>>
    BY <1>10 DEF DeviceStep, DeviceFetches, DeviceCommits, DeviceFlushes, driverVars
  <2>2. Committed' = Committed
    BY <1>10, DriveCommits
  <2>3. Done' = Done
    BY <2>1 DEF Done, Len_
  <2> QED BY <2>1, <2>2, <2>3 DEF Disk!vars
<1>11. CASE HltLoop \/ UNCHANGED vars
  BY <1>11 DEF HltLoop, vars, driverVars, deviceVars, Disk!vars, Done, Len_, Committed
<1> QED BY <1>2, <1>3, <1>4, <1>5, <1>6, <1>7, <1>8, <1>9, <1>10, <1>11 DEF Next, DriverStep

(* For every sector size, disk and history of calls whose sectors the count can name,
   reads and writes through the drive are reads and writes of a plain array: a write
   changes its own bytes and no others, whatever the alignment, a read returns the
   bytes at the position, and only an operation on no bytes panics. *)
THEOREM DriveIsByteDisk == Spec /\ []ShortTransfers => Disk!Safety
BY InitKeeps, StepKeeps, DiskInit, DiskStep, PTL DEF Spec, Disk!Safety

=============================================================================
