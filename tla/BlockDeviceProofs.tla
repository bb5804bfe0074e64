------------------------- MODULE BlockDeviceProofs -------------------------
(***************************************************************************)
(* Proofs about the ATA driver and the block layer: what programs read and *)
(* write through /dev/hda is exact, for a disk of any size and sectors of  *)
(* any length, whenever the drive reports errors.                          *)
(***************************************************************************)
EXTENDS BlockDevice, TLAPS

-----------------------------------------------------------------------------
(***************************************************************************)
(* Sectors, bytes and address registers.                                   *)
(***************************************************************************)

\* Quotient and remainder.
LEMMA Division ==
  ASSUME NEW n \in Nat, NEW d \in Nat \ {0}
  PROVE  n \div d \in Nat /\ n % d \in 0..d - 1 /\ n = d * (n \div d) + (n % d)
OBVIOUS

\* Multiples of d lie at least d apart.
LEMMA Apart ==
  ASSUME NEW p \in Int, NEW q \in Int, NEW d \in Nat \ {0}, p < q
  PROVE  d * p + d <= d * q
<1>1. q - p - 1 \in Nat
  OBVIOUS
<1>2. d * (q - p - 1) \in Nat
  BY <1>1
<1>3. d * (q - p - 1) = d * q - d * p - d
  OBVIOUS
<1> QED
  BY <1>2, <1>3

LEMMA DivisionUnique ==
  ASSUME NEW q \in Nat, NEW d \in Nat \ {0}, NEW r \in 0..d - 1
  PROVE  (d * q + r) \div d = q /\ (d * q + r) % d = r
<1> DEFINE n == d * q + r
           p == n \div d
<1>1. n \in Nat
  OBVIOUS
<1>2. p \in Nat /\ n % d \in 0..d - 1 /\ n = d * p + (n % d)
  BY <1>1, Division
<1> HIDE DEF p
<1>3. ~(p < q)
  <2> SUFFICES ASSUME p < q PROVE FALSE
    OBVIOUS
  <2>1. d * p + d <= d * q
    BY <1>2, Apart
  <2> QED
    BY <1>2, <2>1
<1>4. ~(q < p)
  <2> SUFFICES ASSUME q < p PROVE FALSE
    OBVIOUS
  <2>1. d * q + d <= d * p
    BY <1>2, Apart
  <2> QED
    BY <1>2, <2>1
<1>5. p = q
  BY <1>2, <1>3, <1>4
<1> QED
  BY <1>2, <1>5 DEF p

LEMMA DivideTwice ==
  ASSUME NEW n \in Nat, NEW d \in Nat \ {0}, NEW e \in Nat \ {0}
  PROVE  n \div (d * e) = (n \div d) \div e
<1> DEFINE p == n \div d
           q == p \div e
           r == n % d
           t == p % e
<1>1. p \in Nat /\ r \in 0..d - 1 /\ n = d * p + r
  BY Division
<1>2. q \in Nat /\ t \in 0..e - 1 /\ p = e * q + t
  BY <1>1, Division
<1> HIDE DEF p, q, r, t
<1>3. d * e \in Nat \ {0}
  OBVIOUS
<1>4. d * t + r \in 0..(d * e) - 1
  <2>1. d * t + d <= d * e
    BY <1>2, Apart
  <2>2. d * t \in Nat
    BY <1>2
  <2> QED
    BY <1>1, <1>3, <2>1, <2>2
<1>5. n = (d * e) * q + (d * t + r)
  <2>1. d * p = d * (e * q) + d * t
    BY <1>2
  <2>2. d * (e * q) = (d * e) * q
    BY <1>2
  <2> QED
    BY <1>1, <1>2, <2>1, <2>2
<1>6. ((d * e) * q + (d * t + r)) \div (d * e) = q
  BY <1>2, <1>3, <1>4, DivisionUnique
<1> QED
  BY <1>5, <1>6 DEF p, q

\* The registers hold the whole of a sector number: the driver's shifts and masks lose
\* nothing on a drive within the reach of 28 bits.
LEMMA RegistersHoldLba ==
  ASSUME NEW l \in 0..Capacity
  PROVE  Addressed(LbaRegisters(l)) = l
<1> DEFINE R == RegBase
           p == l \div R
           q == p \div R
           s == q \div R
<1>1. l \in Nat /\ R \in Nat \ {0} /\ HeadBase \in Nat \ {0} /\ l < ((R * R) * R) * HeadBase
  BY SizeAssumption
<1> HIDE DEF R
<1>2. p \in Nat /\ l % R \in 0..R - 1 /\ l = R * p + (l % R)
  BY <1>1, Division
<1>3. q \in Nat /\ p % R \in 0..R - 1 /\ p = R * q + (p % R)
  BY <1>1, <1>2, Division
<1>4. s \in Nat /\ q % R \in 0..R - 1 /\ q = R * s + (q % R)
  BY <1>1, <1>3, Division
<1>5. l \div (R * R) = q
  BY <1>1, DivideTwice
<1>6. R * R \in Nat \ {0} /\ (R * R) * R \in Nat \ {0}
  BY <1>1
<1>7. l \div ((R * R) * R) = s
  <2>1. \A d \in Nat \ {0} : l \div (d * R) = (l \div d) \div R
    BY <1>1, DivideTwice
  <2> QED
    BY <1>5, <1>6, <2>1, Zenon
<1>8. s % HeadBase = s
  <2> DEFINE D == (R * R) * R
  <2>1. l = D * s + (l % D) /\ l % D \in 0..D - 1
    BY <1>1, <1>6, <1>7, Division
  <2>2. D \in Nat \ {0} /\ l < D * HeadBase
    BY <1>1, <1>6
  <2> HIDE DEF D, s
  <2>3. s < HeadBase
    <3> SUFFICES ASSUME ~(s < HeadBase) PROVE FALSE
      OBVIOUS
    <3>1. D * HeadBase <= D * s
      <4>1. CASE s = HeadBase
        BY <1>1, <2>2, <4>1
      <4>2. CASE HeadBase < s
        <5>1. D * HeadBase + D <= D * s
          BY <1>1, <1>4, <2>2, <4>2, Apart
        <5> QED
          BY <1>1, <1>4, <2>2, <5>1
      <4> QED
        BY <1>1, <1>4, <4>1, <4>2
    <3>2. D * s \in Nat /\ D * HeadBase \in Nat
      BY <1>1, <1>4, <2>2
    <3> QED
      BY <1>1, <2>1, <2>2, <3>1, <3>2
  <2>4. s \in 0..HeadBase - 1
    BY <1>1, <1>4, <2>3
  <2>5. (HeadBase * 0 + s) % HeadBase = s
    BY <1>1, <2>4, DivisionUnique
  <2> QED
    BY <1>1, <1>4, <2>5
<1> HIDE DEF p, q, s
<1>9. LbaRegisters(l) = <<l % R, p % R, q % R, s>>
  BY <1>5, <1>7, <1>8 DEF LbaRegisters, R, p
<1>10. Addressed(LbaRegisters(l)) = (l % R) + R * ((p % R) + R * ((q % R) + R * s))
  BY <1>9 DEF Addressed, R
<1>11. (q % R) + R * s = q /\ (p % R) + R * q = p /\ (l % R) + R * p = l
  BY <1>1, <1>2, <1>3, <1>4
<1> QED
  BY <1>10, <1>11

\* Byte b of sector l.
LEMMA ByteOfSector ==
  ASSUME NEW l \in Nat, NEW b \in 0..SectorSize - 1, NEW m
  PROVE  /\ (l * SectorSize + b) \div SectorSize = l
         /\ (l * SectorSize + b) % SectorSize = b
         /\ ByteAt(m, l * SectorSize + b) = m[l][b]
<1>1. l * SectorSize = SectorSize * l /\ SectorSize \in Nat \ {0}
  BY SizeAssumption
<1> QED
  BY <1>1, DivisionUnique DEF ByteAt

\* Every byte of the disk is one of a sector.
LEMMA SectorOfByte ==
  ASSUME NEW a \in Address
  PROVE  /\ a \div SectorSize \in Sector /\ a % SectorSize \in 0..SectorSize - 1
         /\ a = (a \div SectorSize) * SectorSize + (a % SectorSize)
         /\ a \in Nat
<1> DEFINE l == a \div SectorSize
<1>1. SectorSize \in Nat \ {0} /\ Capacity \in Nat /\ Capacity * SectorSize \in Nat
  BY SizeAssumption
<1>2. a \in Nat /\ a < Capacity * SectorSize
  BY <1>1 DEF Address
<1>3. l \in Nat /\ a % SectorSize \in 0..SectorSize - 1 /\ a = SectorSize * l + (a % SectorSize)
  BY <1>1, <1>2, Division
<1> HIDE DEF l
<1>4. l < Capacity
  <2> SUFFICES ASSUME ~(l < Capacity) PROVE FALSE
    OBVIOUS
  <2>1. SectorSize * Capacity <= SectorSize * l
    <3>1. CASE l = Capacity
      BY <1>1, <1>3, <3>1
    <3>2. CASE Capacity < l
      <4>1. SectorSize * Capacity + SectorSize <= SectorSize * l
        BY <1>1, <1>3, <3>2, Apart
      <4> QED
        BY <1>1, <1>3, <4>1
    <3> QED
      BY <1>1, <1>3, <3>1, <3>2
  <2>2. SectorSize * Capacity = Capacity * SectorSize /\ SectorSize * l \in Nat
    BY <1>1, <1>3
  <2> QED
    BY <1>1, <1>2, <1>3, <2>1, <2>2
<1>5. SectorSize * l = l * SectorSize
  BY <1>1, <1>3
<1>6. l \in Sector
  BY <1>1, <1>3, <1>4 DEF Sector
<1> QED
  BY <1>2, <1>3, <1>5, <1>6 DEF l

\* A part of sector l is met only by bytes of that sector.
LEMMA PartOfSector ==
  ASSUME NEW l \in Nat, NEW o \in Nat, NEW n \in Nat, o + n <= SectorSize,
         NEW k \in Nat, NEW b \in 0..SectorSize - 1
  PROVE  k * SectorSize + b \in (l * SectorSize + o)..(l * SectorSize + o + n - 1)
         <=> k = l /\ b \in o..o + n - 1
<1>1. SectorSize \in Nat \ {0} /\ SectorSize * l = l * SectorSize /\ SectorSize * k = k * SectorSize
      /\ l * SectorSize \in Nat /\ k * SectorSize \in Nat
  BY SizeAssumption
<1>2. CASE k = l
  BY <1>1, <1>2
<1>3. CASE k < l
  <2>1. SectorSize * k + SectorSize <= SectorSize * l
    BY <1>1, <1>3, Apart
  <2> QED
    BY <1>1, <1>3, <2>1
<1>4. CASE l < k
  <2>1. SectorSize * l + SectorSize <= SectorSize * k
    BY <1>1, <1>4, Apart
  <2> QED
    BY <1>1, <1>4, <2>1
<1> QED
  BY <1>2, <1>3, <1>4

-----------------------------------------------------------------------------
(***************************************************************************)
(* Steps of the driver and of the drive.                                   *)
(***************************************************************************)

LEMMA DataIsData == \A c \in Content : c # NoData
<1> SUFFICES ASSUME NEW c \in Content, c = <<>> PROVE FALSE
  BY DEF NoData
<1>1. DOMAIN c = 0..SectorSize - 1 /\ 0 \in 0..SectorSize - 1
  BY SizeAssumption DEF Content
<1>2. DOMAIN <<>> = 1..0
  OBVIOUS
<1> QED
  BY <1>1, <1>2

\* The place of a call tells what call it is.
LEMMA CallKinds ==
  ASSUME TypeOK
  PROVE  /\ call.at = "none" <=> call = NoCall
         /\ call.at = "boot" <=> call = [at |-> "boot"]
         /\ call.at \in {"loop", "read", "write", "return"} <=> call \in BlkCalls
         /\ call.at = "sectors" <=> call \in KfsReadCalls \cup KfsWriteCalls
<1>1. /\ call \in BlkCalls => call.at \in {"loop", "read", "write", "return"}
      /\ call \in KfsReadCalls \cup KfsWriteCalls => call.at = "sectors"
  BY DEF BlkCalls, KfsReadCalls, KfsWriteCalls
<1>2. call = NoCall => call.at = "none"
  BY DEF NoCall
<1>3. call = [at |-> "boot"] => call.at = "boot"
  OBVIOUS
<1>4. \/ call = NoCall \/ call = [at |-> "boot"] \/ call \in BlkCalls
      \/ call \in KfsReadCalls \cup KfsWriteCalls
  BY DEF TypeOK
<1> QED
  BY <1>1, <1>2, <1>3, <1>4

\* The place of the driver tells what it does.
LEMMA IoKinds ==
  ASSUME TypeOK
  PROVE  /\ io.at = "none" <=> io = NoIo
         /\ io.at \in {"command", "busy", "ok"} => io \in Transfers
         /\ io.at # "none" => io \in Transfers \/ io \in Identifies
         /\ io \in Transfers => io.cmd \in {"READ", "WRITE"} /\ io.at # "none"
         /\ io \in Identifies => io.cmd = "IDENTIFY" /\ io.at \in {"ready", "failed"}
<1>1. io \in Transfers => io.cmd \in {"READ", "WRITE"} /\ io.at # "none"
  BY DEF Transfers
<1>2. io \in Identifies => io.cmd = "IDENTIFY" /\ io.at \in {"ready", "failed"}
  BY DEF Identifies
<1>3. io = NoIo => io.at = "none"
  BY DEF NoIo
<1>4. io = NoIo \/ io \in Identifies \/ io \in Transfers
  BY DEF TypeOK
<1> QED
  BY <1>1, <1>2, <1>3, <1>4

\* A transfer under way is one of a call.
LEMMA Active ==
  ASSUME IInv, io.at \in {"command", "ready", "busy"}
  PROVE  \/ io \in Identifies /\ call.at = "boot"
         \/ /\ io \in Transfers /\ call.at \in {"read", "write", "sectors"}
            /\ io.cmd = "WRITE" => call.at \in {"write", "sectors"}
            /\ io.cmd = "READ" => call.at \in {"read", "sectors"}
<1>1. TypeOK /\ IoOfCall
  BY DEF IInv
<1>2. io # NoIo /\ (io \in Identifies \/ io \in Transfers) /\ ~(io \in Identifies /\ io \in Transfers)
  BY <1>1, IoKinds
<1>3. call.at \in {"none", "boot", "loop", "read", "write", "return", "sectors"}
  <2>1. call = NoCall \/ call = [at |-> "boot"] \/ call \in BlkCalls \/ call \in KfsReadCalls \cup KfsWriteCalls
    BY <1>1 DEF TypeOK
  <2> QED
    BY <1>1, <2>1, CallKinds
<1> QED
  BY <1>1, <1>2, <1>3 DEF IoOfCall

\* What such a step keeps, once it is known to keep the rest.
LEMMA DriverStep ==
  ASSUME IInv, io.at \in {"command", "ready", "busy"}, io \in Transfers,
         UNCHANGED <<sector_count, registered, call, offset>>,
         medium' \in Media, drive' \in Controllers, io' \in Transfers, io'.cmd = io.cmd,
         io'.lba + io'.count = io.lba + io.count \/ io.cmd = "WRITE",
         medium' = medium \/ io.cmd = "WRITE",
         DriveOK', IoReads', IoWrites'
  PROVE  IInv'
<1>1. /\ call.at \in {"read", "write", "sectors"}
      /\ io.cmd = "WRITE" => call.at \in {"write", "sectors"}
      /\ io.cmd = "READ" => call.at \in {"read", "sectors"}
      /\ io.cmd \in {"READ", "WRITE"} /\ io.cmd # "IDENTIFY"
  BY Active, IoKinds DEF IInv
<1>2. TypeOK'
  BY DEF IInv, TypeOK
<1>3. IoOfCall'
  BY <1>1 DEF IInv, IoOfCall
<1>4. PlaceOK'
  <2>1. call \in BlkCalls => call.at \in {"read", "write"}
    BY <1>1, CallKinds DEF IInv
  <2>2. call \in BlkCalls => More
    BY <2>1 DEF IInv, PlaceOK
  <2> QED
    BY <2>1, <2>2 DEF IInv, PlaceOK, More
<1>5. CallReads'
  <2>1. call.at = "write" => call.op = "write"
    BY DEF IInv, IoOfCall
  <2>2. call \in BlkCalls /\ call.op = "read" => medium' = medium
    BY <1>1, <2>1, CallKinds DEF IInv
  <2> QED
    BY <2>2 DEF IInv, CallReads
<1>6. CallWrites'
  <2>1. call.at = "read" => medium' = medium
    BY <1>1
  <2> QED
    BY <1>1, <2>1 DEF IInv, CallWrites
<1> QED
  BY <1>2, <1>3, <1>4, <1>5, <1>6 DEF IInv

LEMMA AtaCommandStep == IInv /\ AtaCommand => IInv'
<1> SUFFICES ASSUME IInv, AtaCommand PROVE IInv'
  OBVIOUS
<1>1. /\ io.at = "command" /\ io \in Transfers /\ UNCHANGED <<medium, sector_count, registered, call, offset>>
      /\ io.count \in Nat /\ io.lba \in 0..Capacity /\ io.cmd \in {"READ", "WRITE"}
  BY IoKinds DEF AtaCommand, IInv, Transfers
<1>2. medium \in Media /\ drive \in Controllers
  BY DEF IInv, TypeOK
<1>3. ~Is("BSY") /\ ~Is("DRQ") /\ drive.data = NoData
  BY <1>1 DEF IInv, DriveOK
<1>4. CASE io.count = 0
  <2>1. io' = [io EXCEPT !.at = "ok"] /\ drive' = drive
    BY <1>4 DEF AtaCommand
  <2>2. /\ io' \in Transfers /\ io'.at = "ok" /\ io'.cmd = io.cmd /\ io'.lba = io.lba
        /\ io'.count = 0 /\ io'.buf = io.buf
    BY <1>1, <1>4, <2>1 DEF Transfers
  <2>3. DriveOK'
    BY <1>3, <2>1, <2>2 DEF DriveOK, Is
  <2>4. IoReads'
    BY <1>1, <2>2 DEF IInv, IoReads
  <2>5. IoWrites'
    BY <1>1, <1>4, <2>2 DEF IInv, IoWrites, Storing
  <2> QED
    BY <1>1, <1>2, <1>4, <2>1, <2>2, <2>3, <2>4, <2>5, DriverStep
<1>5. CASE io.count > 0
  <2>1. /\ io' = [io EXCEPT !.at = "ready"]
        /\ drive' = [status |-> {"BSY"}, cmd |-> io.cmd, regs |-> LbaRegisters(io.lba), data |-> NoData]
    BY <1>5 DEF AtaCommand, OutCommand
  <2>2. /\ io' \in Transfers /\ io'.at = "ready" /\ io'.cmd = io.cmd /\ io'.lba = io.lba
        /\ io'.count = io.count /\ io'.buf = io.buf
    BY <1>1, <2>1 DEF Transfers
  <2>3. drive' \in Controllers
    BY <1>1, <2>1 DEF Controllers
  <2>4. DriveOK'
    BY <1>5, <2>1, <2>2 DEF DriveOK, Is
  <2>5. IoReads'
    BY <1>1, <2>2 DEF IInv, IoReads
  <2>6. IoWrites'
    BY <1>1, <1>5, <2>2 DEF IInv, IoWrites, Storing
  <2> QED
    BY <1>1, <1>2, <1>5, <2>2, <2>3, <2>4, <2>5, <2>6, DriverStep
<1> QED
  BY <1>1, <1>4, <1>5

LEMMA AtaFailsStep == IInv /\ AtaFails => IInv'
<1> SUFFICES ASSUME IInv, AtaFails PROVE IInv'
  OBVIOUS
<1>1. /\ io.at \in {"ready", "busy"} /\ UNCHANGED <<medium, drive, sector_count, registered, call, offset>>
      /\ io' = [io EXCEPT !.at = "failed"]
  BY DEF AtaFails
<1>2. medium \in Media /\ drive \in Controllers
  BY DEF IInv, TypeOK
<1>3. drive.status \in {{"ERR"}, {"DF"}}
  BY <1>2 DEF AtaFails, Is, Controllers
<1>4. ~Is("BSY") /\ ~Is("DRQ") /\ drive.data = NoData
  BY <1>1, <1>3 DEF IInv, DriveOK, Is
<1>5. CASE io \in Transfers
  <2>1. /\ io' \in Transfers /\ io'.at = "failed" /\ io'.cmd = io.cmd /\ io'.lba = io.lba
        /\ io'.count = io.count /\ io'.buf = io.buf
    BY <1>1, <1>5 DEF Transfers
  <2>2. DriveOK'
    BY <1>1, <1>4, <2>1 DEF DriveOK, Is
  <2>3. IoReads'
    BY <1>1, <2>1 DEF IInv, IoReads
  <2>4. IoWrites'
    BY <1>1, <1>3, <2>1 DEF IInv, IoWrites, Storing
  <2> QED
    BY <1>1, <1>2, <1>5, <2>1, <2>2, <2>3, <2>4, DriverStep
<1>6. CASE io \notin Transfers
  <2>1. io \in Identifies /\ call.at = "boot"
    BY <1>1, <1>6, Active
  <2>2. io' \in Identifies /\ io'.at = "failed" /\ io' \notin Transfers
    BY <1>1, <2>1 DEF Identifies, Transfers
  <2>3. TypeOK'
    BY <1>1, <1>2, <2>2 DEF IInv, TypeOK
  <2>4. IoOfCall'
    BY <1>1, <2>1, <2>2 DEF IoOfCall
  <2>5. DriveOK'
    BY <1>1, <1>4, <2>2 DEF DriveOK, Is
  <2>6. call \notin BlkCalls
    BY <2>1, CallKinds DEF IInv
  <2>7. PlaceOK' /\ CallReads' /\ CallWrites' /\ IoReads' /\ IoWrites'
    BY <1>1, <2>1, <2>6 DEF PlaceOK, CallReads, CallWrites, IoReads, IoWrites
  <2> QED
    BY <2>3, <2>4, <2>5, <2>7 DEF IInv
<1> QED
  BY <1>5, <1>6

\* Append() as a function.
LEMMA AppendIs ==
  ASSUME NEW S, NEW s \in Seq(S), NEW e \in S
  PROVE  /\ Len(s) \in Nat /\ DOMAIN s = 1..Len(s)
         /\ Append(s, e) = [k \in 1..Len(s) + 1 |-> IF k <= Len(s) THEN s[k] ELSE e]
<1>1. Len(s) \in Nat /\ DOMAIN s = 1..Len(s)
  OBVIOUS
<1>2. Append(s, e) \in Seq(S) /\ Len(Append(s, e)) = Len(s) + 1
  OBVIOUS
<1>3. \A k \in 1..Len(s) + 1 : Append(s, e)[k] = IF k <= Len(s) THEN s[k] ELSE e
  OBVIOUS
<1>4. Append(s, e) = [k \in 1..Len(s) + 1 |-> Append(s, e)[k]]
  <2> DEFINE t == Append(s, e)
  <2>1. t \in Seq(S) /\ Len(t) = Len(s) + 1
    BY <1>2
  <2> HIDE DEF t
  <2>2. t = [k \in 1..Len(t) |-> t[k]]
    BY <2>1
  <2> QED
    BY <2>1, <2>2 DEF t
<1> QED
  BY <1>1, <1>3, <1>4

\* No sector has been read.
LEMMA NoSectors ==
  ASSUME NEW m, NEW l \in Nat
  PROVE  Sectors(m, l, l) = <<>> /\ l <= l
<1>1. 1..l - l = {}
  OBVIOUS
<1> QED
  BY <1>1 DEF Sectors

\* One more sector is read.
LEMMA NextSector ==
  ASSUME NEW m, NEW l \in Nat, NEW j \in Nat, l <= j, Sectors(m, l, j) \in Seq(Content),
         m[j] \in Content
  PROVE  Append(Sectors(m, l, j), m[j]) = Sectors(m, l, j + 1)
<1> DEFINE n == j - l
           s == Sectors(m, l, j)
<1>1. n \in Nat /\ (j + 1) - l = n + 1 /\ j = l + n
  OBVIOUS
<1>2. DOMAIN s = 1..n /\ \A k \in 1..n : s[k] = m[l + k - 1]
  BY DEF Sectors
<1> HIDE DEF n
<1>3. Len(s) \in Nat /\ DOMAIN s = 1..Len(s)
  BY AppendIs
<1>4. Len(s) = n
  BY <1>1, <1>2, <1>3
<1>5. Append(s, m[j]) = [k \in 1..n + 1 |-> IF k <= n THEN s[k] ELSE m[j]]
  BY <1>4, AppendIs
<1>6. ASSUME NEW k \in 1..n + 1
      PROVE  (IF k <= n THEN s[k] ELSE m[j]) = m[l + k - 1]
  <2>1. CASE k <= n
    BY <1>1, <1>2, <1>6, <2>1
  <2>2. CASE ~(k <= n)
    <3>1. l + k - 1 = j
      BY <1>1, <1>6, <2>2
    <3> QED
      BY <2>2, <3>1
  <2> QED
    BY <2>1, <2>2
<1> QED
  BY <1>1, <1>5, <1>6 DEF Sectors

LEMMA AtaReadsStep == IInv /\ AtaReads => IInv'
<1> SUFFICES ASSUME IInv, AtaReads PROVE IInv'
  OBVIOUS
<1> DEFINE sector == medium[Addressed(drive.regs)]
<1>1. /\ io.at = "ready" /\ io.cmd = "READ" /\ Is("DRQ")
      /\ UNCHANGED <<medium, sector_count, registered, call, offset>>
      /\ io' = [io EXCEPT !.buf = Append(@, sector), !.lba = @ + 1, !.count = @ - 1, !.at = "command"]
      /\ drive' = [drive EXCEPT !.status = {}]
  BY DEF AtaReads
<1>2. medium \in Media /\ drive \in Controllers /\ io \in Transfers
  BY <1>1, IoKinds DEF IInv, TypeOK
<1>3. call.at \in {"read", "sectors"} /\ call.lba \in Nat
  <2>1. call.at \in {"read", "sectors"}
    BY <1>1, <1>2, Active, IoKinds DEF IInv
  <2>2. call \in BlkCalls \/ call \in KfsReadCalls \/ call \in KfsWriteCalls
    BY <2>1, CallKinds DEF IInv
  <2> QED
    BY <2>1, <2>2, SizeAssumption DEF BlkCalls, KfsReadCalls, KfsWriteCalls, Sector
<1>4. /\ io.lba \in Sector /\ drive.regs = LbaRegisters(io.lba) /\ io.count > 0 /\ drive.data = NoData
      /\ io.lba \in 0..Capacity /\ io.count \in Nat /\ io.buf \in Seq(Content)
  BY <1>1, <1>2 DEF IInv, DriveOK, Transfers
<1>5. sector = medium[io.lba] /\ sector \in Content
  BY <1>2, <1>4, RegistersHoldLba DEF Media
<1> HIDE DEF sector
<1>6. io.lba + 1 \in 0..Capacity /\ io.count - 1 \in Nat /\ Append(io.buf, sector) \in Seq(Content)
  BY <1>4, <1>5, SizeAssumption DEF Sector
<1>7. /\ io' \in Transfers /\ io'.at = "command" /\ io'.cmd = io.cmd /\ io'.lba = io.lba + 1
      /\ io'.count = io.count - 1 /\ io'.buf = Append(io.buf, sector)
  BY <1>1, <1>2, <1>6 DEF Transfers
<1>8. drive' \in Controllers /\ drive'.status = {} /\ drive'.data = NoData
  BY <1>1, <1>2, <1>4 DEF Controllers
<1>9. DriveOK'
  BY <1>7, <1>8 DEF DriveOK, Is
<1>10. IoReads'
  <2>1. call.lba <= io.lba /\ io.buf = Sectors(medium, call.lba, io.lba)
    BY <1>1, <1>3 DEF IInv, IoReads
  <2>2. io.lba - call.lba \in Nat /\ io.lba \in Nat
    BY <1>3, <1>4, <2>1, SizeAssumption
  <2>3. Append(io.buf, medium[io.lba]) = Sectors(medium, call.lba, io.lba + 1)
    <3>1. medium[io.lba] \in Content /\ Sectors(medium, call.lba, io.lba) \in Seq(Content)
      BY <1>4, <1>5, <2>1, Zenon
    <3>2. Append(Sectors(medium, call.lba, io.lba), medium[io.lba])
            = Sectors(medium, call.lba, io.lba + 1)
      BY <1>3, <2>1, <2>2, <3>1, NextSector, Zenon
    <3> QED
      BY <2>1, <3>2, Zenon
  <2> QED
    BY <1>1, <1>3, <1>5, <1>7, <2>1, <2>2, <2>3 DEF IoReads
<1>11. IoWrites'
  BY <1>1, <1>7 DEF IoWrites
<1>12. io'.lba + io'.count = io.lba + io.count
  BY <1>4, <1>7
<1> QED
  BY <1>1, <1>2, <1>7, <1>8, <1>9, <1>10, <1>11, <1>12, DriverStep

LEMMA AtaWritesStep == IInv /\ AtaWrites => IInv'
<1> SUFFICES ASSUME IInv, AtaWrites PROVE IInv'
  OBVIOUS
<1>1. /\ io.at = "ready" /\ io.cmd = "WRITE" /\ Is("DRQ")
      /\ UNCHANGED <<medium, sector_count, registered, call, offset>>
      /\ io' = [io EXCEPT !.at = "busy"]
      /\ drive' = [drive EXCEPT !.status = {"BSY"}, !.data = Head(io.buf)]
  BY DEF AtaWrites
<1>2. medium \in Media /\ drive \in Controllers /\ io \in Transfers
  BY <1>1, IoKinds DEF IInv, TypeOK
<1>3. call.at \in {"write", "sectors"}
  BY <1>1, <1>2, Active, IoKinds DEF IInv
<1>4. /\ io.lba \in Sector /\ drive.regs = LbaRegisters(io.lba) /\ io.count > 0
      /\ io.buf \in Seq(Content)
  BY <1>1, <1>2 DEF IInv, DriveOK, Transfers
<1>5. /\ io.count = 1 /\ Len(io.buf) = 1 /\ io.lba = call.lba
      /\ Old(call, medium) /\ New(call, [medium EXCEPT ![io.lba] = io.buf[1]])
  BY <1>1, <1>3, <1>4 DEF IInv, IoWrites, Storing
<1>6. Head(io.buf) = io.buf[1] /\ io.buf[1] \in Content
  BY <1>4, <1>5
<1>7. /\ io' \in Transfers /\ io'.at = "busy" /\ io'.cmd = io.cmd /\ io'.lba = io.lba
      /\ io'.count = io.count /\ io'.buf = io.buf
  BY <1>1, <1>2 DEF Transfers
<1>8. /\ drive' \in Controllers /\ drive'.status = {"BSY"} /\ drive'.data = io.buf[1]
      /\ drive'.regs = drive.regs
  BY <1>1, <1>2, <1>6 DEF Controllers
<1>9. DriveOK'
  BY <1>1, <1>4, <1>6, <1>7, <1>8, DataIsData DEF DriveOK, Is
<1>10. IoReads'
  BY <1>1, <1>7 DEF IoReads
<1>11. IoWrites'
  BY <1>1, <1>5, <1>7, <1>8 DEF IoWrites, Storing, Is
<1> QED
  BY <1>1, <1>2, <1>7, <1>8, <1>9, <1>10, <1>11, DriverStep

LEMMA AtaWaitBusyStep == IInv /\ AtaWaitBusy => IInv'
<1> SUFFICES ASSUME IInv, AtaWaitBusy PROVE IInv'
  OBVIOUS
<1>1. /\ io.at = "busy" /\ ~Is("BSY") /\ ~Is("ERR") /\ ~Is("DF")
      /\ UNCHANGED <<medium, drive, sector_count, registered, call, offset>>
      /\ io' = [io EXCEPT !.buf = Tail(@), !.lba = @ + 1, !.count = @ - 1, !.at = "command"]
  BY DEF AtaWaitBusy
<1>2. medium \in Media /\ drive \in Controllers /\ io \in Transfers
  BY <1>1, IoKinds DEF IInv, TypeOK
<1>3. io.cmd = "WRITE" /\ ~Is("DRQ") /\ drive.data = NoData /\ io.lba \in Sector
  BY <1>1, <1>2 DEF IInv, DriveOK
<1>4. drive.status = {}
  BY <1>1, <1>2, <1>3 DEF Controllers, Is
<1>5. call.at \in {"write", "sectors"}
  BY <1>1, <1>2, <1>3, Active, IoKinds DEF IInv
<1>6. io.count = 1 /\ Len(io.buf) = 1 /\ New(call, medium)
  BY <1>1, <1>3, <1>4, <1>5 DEF IInv, IoWrites
<1>7. io.buf \in Seq(Content) /\ io.lba \in 0..Capacity
  BY <1>2 DEF Transfers
<1>8. Tail(io.buf) \in Seq(Content) /\ io.lba + 1 \in 0..Capacity /\ io.count - 1 = 0
  <2>1. Tail(io.buf) \in Seq(Content)
    BY <1>6, <1>7
  <2>2. io.lba + 1 \in 0..Capacity /\ io.count - 1 = 0
    BY <1>3, <1>6, SizeAssumption DEF Sector
  <2> QED
    BY <2>1, <2>2
<1>9. io' \in Transfers /\ io'.at = "command" /\ io'.cmd = io.cmd /\ io'.count = 0
  <2> DEFINE rest == Tail(io.buf)
  <2>1. /\ io' = [io EXCEPT !.buf = rest, !.lba = io.lba + 1, !.count = 0, !.at = "command"]
        /\ rest \in Seq(Content)
    BY <1>1, <1>8
  <2> HIDE DEF rest
  <2> QED
    BY <1>2, <1>8, <2>1 DEF Transfers
<1>10. DriveOK'
  BY <1>1, <1>3, <1>4, <1>9 DEF DriveOK, Is
<1>11. IoReads'
  BY <1>3, <1>9 DEF IoReads
<1>12. IoWrites'
  BY <1>1, <1>6, <1>9 DEF IoWrites, Storing
<1> QED
  BY <1>1, <1>2, <1>3, <1>9, <1>10, <1>11, <1>12, DriverStep

LEMMA DriveAnswersStep == IInv /\ DriveAnswers => IInv'
<1> SUFFICES ASSUME IInv, DriveAnswers PROVE IInv'
  OBVIOUS
<1>1. /\ Is("BSY") /\ drive.data = NoData
      /\ UNCHANGED <<medium, sector_count, registered, io, call, offset>>
  BY DEF DriveAnswers
<1>2. medium \in Media /\ drive \in Controllers
  BY DEF IInv, TypeOK
<1>3. PICK s \in {{"DRQ"}, {"ERR"}, {"DF"}} :
        /\ drive' = [drive EXCEPT !.status = s]
        /\ s = {"DRQ"} => drive.cmd = "IDENTIFY" \/ Addressed(drive.regs) \in Sector
  BY DEF DriveAnswers
<1>4. /\ drive' \in Controllers /\ drive'.status = s /\ drive'.data = NoData
      /\ drive'.regs = drive.regs /\ drive'.cmd = drive.cmd
  BY <1>1, <1>2, <1>3 DEF Controllers
<1>5. io.at = "ready"
  <2>1. io.at \in {"none", "command", "ready", "busy", "ok", "failed"}
    <3>1. io = NoIo \/ io \in Identifies \/ io \in Transfers
      BY DEF IInv, TypeOK
    <3> QED
      BY <3>1 DEF NoIo, Identifies, Transfers
  <2> QED
    BY <1>1, <2>1 DEF IInv, DriveOK
<1>6. drive.cmd = io.cmd
  BY <1>5 DEF IInv, DriveOK
<1>7. CASE io \in Transfers
  <2>1. /\ drive.regs = LbaRegisters(io.lba) /\ io.count > 0 /\ io.lba \in 0..Capacity
        /\ io.cmd # "IDENTIFY"
    BY <1>5, <1>7 DEF IInv, DriveOK, Transfers
  <2>2. s = {"DRQ"} => io.lba \in Sector
    BY <1>3, <1>6, <2>1, RegistersHoldLba
  <2>3. DriveOK'
    BY <1>1, <1>3, <1>4, <1>5, <1>6, <2>1, <2>2 DEF DriveOK, Is
  <2>4. IoReads'
    BY <1>1 DEF IInv, IoReads
  <2>5. IoWrites'
    BY <1>1, <1>5, <2>1 DEF IInv, IoWrites, Storing
  <2> QED
    BY <1>1, <1>2, <1>4, <1>5, <1>7, <2>3, <2>4, <2>5, DriverStep
<1>8. CASE io \notin Transfers
  <2>1. io \in Identifies /\ call.at = "boot"
    BY <1>5, <1>8, Active
  <2>2. DriveOK'
    BY <1>1, <1>3, <1>4, <1>5, <1>6, <1>8 DEF DriveOK, Is
  <2>3. TypeOK'
    BY <1>1, <1>4 DEF IInv, TypeOK
  <2>4. IoOfCall' /\ PlaceOK' /\ CallReads' /\ IoReads' /\ CallWrites'
    BY <1>1 DEF IInv, IoOfCall, PlaceOK, CallReads, IoReads, CallWrites, More, Failed
  <2>5. IoWrites'
    BY <1>1, <2>1 DEF IoWrites
  <2> QED
    BY <2>2, <2>3, <2>4, <2>5 DEF IInv
<1> QED
  BY <1>7, <1>8

LEMMA DriveStoresStep == IInv /\ DriveStores => IInv'
<1> SUFFICES ASSUME IInv, DriveStores PROVE IInv'
  OBVIOUS
<1> DEFINE stored == [medium EXCEPT ![Addressed(drive.regs)] = drive.data]
<1>1. /\ Is("BSY") /\ drive.data # NoData
      /\ UNCHANGED <<sector_count, registered, io, call, offset>>
  BY DEF DriveStores
<1>2. medium \in Media /\ drive \in Controllers
  BY DEF IInv, TypeOK
<1>3. PICK s \in {{}, {"ERR"}, {"DF"}} :
        /\ drive' = [drive EXCEPT !.status = s, !.data = NoData]
        /\ medium' = stored \/ (medium' = medium /\ s # {})
  BY DEF DriveStores
<1>4. /\ drive' \in Controllers /\ drive'.status = s /\ drive'.data = NoData
      /\ drive'.regs = drive.regs /\ drive'.cmd = drive.cmd
  BY <1>2, <1>3 DEF Controllers
<1>5. io.at = "busy"
  <2>1. io.at \in {"none", "command", "ready", "busy", "ok", "failed"}
    <3>1. io = NoIo \/ io \in Identifies \/ io \in Transfers
      BY DEF IInv, TypeOK
    <3> QED
      BY <3>1 DEF NoIo, Identifies, Transfers
  <2> QED
    BY <1>1, <2>1 DEF IInv, DriveOK
<1>6. /\ io \in Transfers /\ io.cmd = "WRITE" /\ io.lba \in Sector /\ io.count > 0
      /\ drive.regs = LbaRegisters(io.lba)
  BY <1>5, IoKinds DEF IInv, DriveOK
<1>7. call.at \in {"write", "sectors"}
  BY <1>5, <1>6, Active, IoKinds DEF IInv
<1>8. /\ io.count = 1 /\ Len(io.buf) = 1 /\ io.lba = call.lba
      /\ Old(call, medium) /\ New(call, [medium EXCEPT ![io.lba] = io.buf[1]])
      /\ drive.data = io.buf[1]
  BY <1>1, <1>5, <1>6, <1>7 DEF IInv, IoWrites, Storing
<1>9. Addressed(drive.regs) = io.lba
  BY <1>6, RegistersHoldLba, SizeAssumption DEF Sector
<1>10. New(call, stored)
  BY <1>8, <1>9
<1>11. medium' \in Media
  <2>1. drive.data \in Content
    BY <1>1, <1>2 DEF Controllers
  <2> QED
    BY <1>2, <1>3, <1>6, <1>9, <2>1 DEF Media
<1> HIDE DEF stored
<1>12. DriveOK'
  BY <1>1, <1>3, <1>4, <1>5, <1>6 DEF DriveOK, Is
<1>13. IoReads'
  BY <1>1, <1>6 DEF IoReads
<1>14. IoWrites'
  <2>1. s = {} => New(call, medium')
    BY <1>3, <1>10
  <2>2. Old(call, medium') \/ New(call, medium')
    BY <1>3, <1>8, <1>10
  <2> QED
    BY <1>1, <1>3, <1>4, <1>5, <1>8, <2>1, <2>2 DEF IoWrites, Storing, Is
<1> QED
  BY <1>1, <1>4, <1>5, <1>6, <1>11, <1>12, <1>13, <1>14, DriverStep

-----------------------------------------------------------------------------
(***************************************************************************)
(* Steps of the block layer.                                               *)
(***************************************************************************)

\* The part of its sector that a call is about.
LEMMA ToCopyFacts ==
  ASSUME IInv, call \in BlkCalls, More
  PROVE  /\ ToCopy(call) \in Nat /\ ToCopy(call) > 0
         /\ call.offset_in_sector \in 0..SectorSize - 1
         /\ call.offset_in_sector + ToCopy(call) <= SectorSize /\ ToCopy(call) <= call.count
         /\ ToCopy(call) < call.count => call.offset_in_sector + ToCopy(call) = SectorSize
         /\ call.lba \in Sector /\ call.lba \in Nat /\ call.count \in Nat
         /\ call.total \in Nat /\ call.from \in Nat
         /\ offset = call.from + call.total
         /\ offset = call.lba * SectorSize + call.offset_in_sector
<1>1. /\ call.offset_in_sector \in 0..SectorSize - 1 /\ call.count \in Nat /\ call.lba \in Nat
      /\ call.total \in Nat /\ call.from \in Nat /\ call.at # "boot"
  BY DEF BlkCalls
<1>2. call.count > 0 /\ call.lba < Capacity
  BY <1>1 DEF More, IInv, TypeOK
<1>3. offset = call.from + call.total /\ offset = call.lba * SectorSize + call.offset_in_sector
  BY <1>2 DEF IInv, PlaceOK
<1>4. call.lba \in Sector
  BY <1>1, <1>2, SizeAssumption DEF Sector
<1>5. /\ ToCopy(call) \in Nat /\ ToCopy(call) > 0
      /\ call.offset_in_sector + ToCopy(call) <= SectorSize /\ ToCopy(call) <= call.count
      /\ ToCopy(call) < call.count => call.offset_in_sector + ToCopy(call) = SectorSize
  BY <1>1, <1>2, SizeAssumption DEF ToCopy
<1> QED
  BY <1>1, <1>3, <1>4, <1>5

\* The sector is within the disk.
LEMMA SectorEnds ==
  ASSUME NEW l \in Sector
  PROVE  l * SectorSize \in Nat /\ l * SectorSize + SectorSize <= Capacity * SectorSize
<1>1. l \in Nat /\ Capacity \in Nat /\ SectorSize \in Nat \ {0} /\ l < Capacity
  BY SizeAssumption DEF Sector
<1>2. SectorSize * l + SectorSize <= SectorSize * Capacity
  BY <1>1, Apart
<1>3. SectorSize * l = l * SectorSize /\ SectorSize * Capacity = Capacity * SectorSize /\ l * SectorSize \in Nat
  BY <1>1
<1> QED
  BY <1>2, <1>3

\* The bytes of a write copied over a sector make the sector it must become.
LEMMA BounceIsNew ==
  ASSUME IInv, call \in BlkCalls, call.op = "write", More, Written(call, medium, call.total),
         NEW sector,
         \A b \in 0..SectorSize - 1 :
           \/ b \in call.offset_in_sector..call.offset_in_sector + ToCopy(call) - 1
           \/ sector[b] = medium[call.lba][b]
  PROVE  /\ Bounce(sector) \in Content
         /\ Written(call, [medium EXCEPT ![call.lba] = Bounce(sector)], call.total + ToCopy(call))
<1> DEFINE o == call.offset_in_sector
           n == ToCopy(call)
           l == call.lba
           m == [medium EXCEPT ![l] = Bounce(sector)]
<1>1. /\ n \in Nat /\ n > 0 /\ o \in 0..SectorSize - 1 /\ o + n <= SectorSize /\ n <= call.count
      /\ l \in Sector /\ l \in Nat /\ call.count \in Nat /\ call.total \in Nat /\ call.from \in Nat
      /\ offset = call.from + call.total /\ offset = l * SectorSize + o
  BY ToCopyFacts
<1>2. medium \in Media /\ call.buf \in Seq(Byte) /\ Len(call.buf) = call.total + call.count
  BY DEF IInv, TypeOK, BlkCalls, PlaceOK
<1>3. medium[l] \in Content
  BY <1>1, <1>2 DEF Media
<1>4. \A b \in 0..SectorSize - 1 :
        Bounce(sector)[b] = IF b \in o..o + n - 1 THEN call.buf[call.total + b - o + 1] ELSE medium[l][b]
  BY DEF Bounce
<1>5. Bounce(sector) \in Content
  <2> HIDE DEF o, n, l
  <2>1. \A b \in 0..SectorSize - 1 : b \in o..o + n - 1 => call.total + b - o + 1 \in 1..Len(call.buf)
    <3> SUFFICES ASSUME NEW b \in 0..SectorSize - 1, b \in o..o + n - 1
                 PROVE  call.total + b - o + 1 \in 1..Len(call.buf)
      OBVIOUS
    <3>1. b \in Int /\ o <= b /\ b <= o + n - 1
      BY <1>1, SizeAssumption
    <3> QED
      BY <1>1, <1>2, <3>1, SizeAssumption
  <2>2. \A b \in 0..SectorSize - 1 : Bounce(sector)[b] \in Byte
    <3> SUFFICES ASSUME NEW b \in 0..SectorSize - 1 PROVE Bounce(sector)[b] \in Byte
      OBVIOUS
    <3>1. CASE b \in o..o + n - 1
      BY <1>2, <1>4, <2>1, <3>1
    <3>2. CASE b \notin o..o + n - 1
      BY <1>3, <1>4, <3>2 DEF Content
    <3> QED
      BY <3>1, <3>2
  <2>3. Bounce(sector) = [b \in 0..SectorSize - 1 |-> Bounce(sector)[b]]
    BY DEF Bounce
  <2> QED
    BY <2>2, <2>3 DEF Content
<1>6. Written(call, m, call.total + n)
  <2> SUFFICES ASSUME NEW a \in Address
               PROVE  ByteAt(m, a) = IF a \in call.from..call.from + (call.total + n) - 1
                                     THEN call.buf[a - call.from + 1] ELSE ByteAt(call.before, a)
    BY DEF Written
  <2> DEFINE k == a \div SectorSize
             b == a % SectorSize
  <2>1. k \in Sector /\ b \in 0..SectorSize - 1 /\ a = k * SectorSize + b /\ a \in Nat
    BY SectorOfByte
  <2>2. k \in Nat /\ k * SectorSize \in Nat /\ l * SectorSize \in Nat
    BY <1>1, <2>1, SectorEnds, SizeAssumption DEF Sector
  <2>3. ByteAt(m, a) = m[k][b] /\ ByteAt(medium, a) = medium[k][b]
    BY DEF ByteAt
  <2>4. ByteAt(medium, a) = IF a \in call.from..call.from + call.total - 1
                            THEN call.buf[a - call.from + 1] ELSE ByteAt(call.before, a)
    BY DEF Written
  <2> HIDE DEF k, b, o, n, l
  <2>5. a \in offset..(offset + n - 1) <=> k = l /\ b \in o..o + n - 1
    <3>1. k * SectorSize + b \in (l * SectorSize + o)..(l * SectorSize + o + n - 1)
            <=> k = l /\ b \in o..o + n - 1
      BY <1>1, <2>1, <2>2, PartOfSector, SizeAssumption
    <3> QED
      BY <1>1, <2>1, <3>1
  <2>6. a \in call.from..call.from + (call.total + n) - 1
          <=> a \in call.from..call.from + call.total - 1 \/ a \in offset..(offset + n - 1)
    BY <1>1, <2>1
  <2>7. ~(a \in call.from..call.from + call.total - 1 /\ a \in offset..(offset + n - 1))
    BY <1>1, <2>1
  <2>8. CASE k = l /\ b \in o..o + n - 1
    <3>1. m[k] = Bounce(sector)
      BY <1>1, <1>2, <2>1, <2>8 DEF Media
    <3>2. m[k][b] = call.buf[call.total + b - o + 1]
      BY <1>4, <2>1, <2>8, <3>1
    <3>3. call.total + b - o + 1 = a - call.from + 1
      BY <1>1, <2>1, <2>2, <2>8, SizeAssumption
    <3> QED
      BY <2>3, <2>5, <2>6, <2>8, <3>2, <3>3
  <2>9. CASE ~(k = l /\ b \in o..o + n - 1)
    <3>1. m[k][b] = medium[k][b]
      <4>1. CASE k = l
        BY <1>1, <1>2, <1>4, <2>1, <2>9, <4>1 DEF Media
      <4>2. CASE k # l
        BY <1>1, <1>2, <2>1, <4>2 DEF Media
      <4> QED
        BY <4>1, <4>2
    <3> QED
      BY <2>3, <2>4, <2>5, <2>6, <2>9, <3>1
  <2> QED
    BY <2>8, <2>9
<1> QED
  BY <1>5, <1>6

\* What a step with the drive at rest keeps.
LEMMA RestStep ==
  ASSUME IInv, io.at \in {"none", "ok", "failed"}, UNCHANGED <<medium, drive, sector_count>>,
         io' = NoIo \/ (io' \in Transfers /\ io'.at = "command") \/ (io' = io /\ io \in Transfers),
         call.at # "boot",
         call' \in {NoCall} \cup BlkCalls \cup KfsReadCalls \cup KfsWriteCalls,
         offset' \in 0..Capacity * SectorSize
  PROVE  TypeOK' /\ DriveOK'
<1>1. call'.at # "boot"
  BY DEF NoCall, BlkCalls, KfsReadCalls, KfsWriteCalls
<1>2. TypeOK'
  BY <1>1 DEF IInv, TypeOK
<1>3. ~Is("BSY") /\ ~Is("DRQ") /\ drive.data = NoData /\ (io.at = "ok" => io.count = 0)
  BY DEF IInv, DriveOK
<1>4. io' = NoIo => io'.at = "none"
  BY DEF NoIo
<1>5. DriveOK'
  BY <1>3, <1>4 DEF DriveOK, Is
<1> QED
  BY <1>2, <1>5

\* What a write has done does not depend on where it is.
LEMMA WrittenSame ==
  ASSUME NEW c, NEW d, c.from = d.from, c.buf = d.buf, c.before = d.before, NEW m, NEW n,
         Written(c, m, n)
  PROVE  Written(d, m, n)
BY DEF Written

\* The numbers of a call after one sector more.
LEMMA AdvanceNumbers ==
  ASSUME IInv, call \in BlkCalls, More, NEW n, n = ToCopy(call)
  PROVE  /\ call.total + n \in Nat /\ call.count - n \in Nat /\ call.lba + 1 \in Nat
         /\ 0 \in 0..SectorSize - 1
         /\ offset + n \in 0..Capacity * SectorSize
         /\ offset + n = call.from + (call.total + n)
         /\ (call.total + n) + (call.count - n) = call.total + call.count
         /\ call.count - n > 0 => offset + n = (call.lba + 1) * SectorSize + 0
<1> DEFINE o == call.offset_in_sector
           start == call.lba * SectorSize
           end == Capacity * SectorSize
<1>1. /\ n \in Nat /\ o \in 0..SectorSize - 1 /\ o + n <= SectorSize /\ n <= call.count
      /\ n < call.count => o + n = SectorSize
      /\ call.lba \in Sector /\ call.lba \in Nat /\ call.count \in Nat
      /\ call.total \in Nat /\ call.from \in Nat
      /\ offset = call.from + call.total /\ offset = start + o
  BY ToCopyFacts
<1>2. start \in Nat /\ start + SectorSize <= end
  BY <1>1, SectorEnds
<1>3. SectorSize \in Nat \ {0} /\ end \in Nat
  BY SizeAssumption
<1>4. (call.lba + 1) * SectorSize + 0 = start + SectorSize
  BY <1>1, <1>3
<1>5. o \in Nat
  BY <1>1, <1>3
<1> HIDE DEF o, start, end
<1>6. call.total + n \in Nat /\ call.lba + 1 \in Nat /\ offset + n = call.from + (call.total + n)
  BY <1>1
<1>7. call.count - n \in Nat /\ (call.total + n) + (call.count - n) = call.total + call.count
  BY <1>1
<1>8. offset + n \in 0..end
  BY <1>1, <1>2, <1>3, <1>5
<1>9. call.count - n > 0 => offset + n = start + SectorSize
  BY <1>1, <1>2, <1>3, <1>5
<1>10. 0 \in 0..SectorSize - 1
  BY <1>3
<1> QED
  BY <1>4, <1>6, <1>7, <1>8, <1>9, <1>10, Zenon DEF end

\* A sector is done.
LEMMA AdvanceStep ==
  ASSUME IInv, call.at \in {"read", "write"}, io.at = "ok", NEW buf \in Seq(Byte), Advance(buf),
         call.op = "write" => buf = call.buf /\ Written(call, medium, call.total + ToCopy(call)),
         call.op = "read" =>
           /\ Len(buf) = call.total + ToCopy(call)
           /\ \A k \in 1..call.total + ToCopy(call) : buf[k] = ByteAt(medium, call.from + k - 1)
  PROVE  IInv'
<1> DEFINE n == ToCopy(call)
<1>1. call \in BlkCalls /\ More
  BY CallKinds DEF IInv, PlaceOK
<1>2. /\ call.total + n \in Nat /\ call.count - n \in Nat /\ call.lba + 1 \in Nat
      /\ 0 \in 0..SectorSize - 1
      /\ offset + n \in 0..Capacity * SectorSize
      /\ offset + n = call.from + (call.total + n)
      /\ (call.total + n) + (call.count - n) = call.total + call.count
      /\ call.count - n > 0 => offset + n = (call.lba + 1) * SectorSize + 0
  BY <1>1, AdvanceNumbers, Zenon
<1>3. /\ offset' = offset + n /\ io' = NoIo /\ UNCHANGED <<medium, drive, sector_count>>
      /\ call' = [call EXCEPT !.buf = buf, !.total = call.total + n, !.count = call.count - n,
                              !.lba = call.lba + 1, !.offset_in_sector = 0, !.at = "loop"]
  BY DEF Advance
<1> HIDE DEF n
<1>4. /\ call' \in BlkCalls /\ call'.op = call.op /\ call'.at = "loop" /\ call'.from = call.from
      /\ call'.before = call.before /\ call'.buf = buf /\ call'.total = call.total + n
      /\ call'.count = call.count - n /\ call'.lba = call.lba + 1 /\ call'.offset_in_sector = 0
  BY <1>1, <1>2, <1>3 DEF BlkCalls
<1>5. TypeOK' /\ DriveOK'
  BY <1>2, <1>3, <1>4, RestStep, Zenon
<1>6. IoOfCall'
  BY <1>3, <1>4 DEF IoOfCall
<1>7. PlaceOK'
  <2>1. offset' = call'.from + call'.total
    BY <1>2, <1>3, <1>4, Zenon
  <2>2. call'.count > 0 => offset' = call'.lba * SectorSize + call'.offset_in_sector
    BY <1>2, <1>3, <1>4, Zenon
  <2>3. call.op = "write" => call.total + call.count = Len(call.buf)
    BY <1>1, Zenon DEF IInv, PlaceOK
  <2>4. call'.op = "write" => call'.total + call'.count = Len(call'.buf)
    BY <1>2, <1>4, <2>3, Zenon
  <2>5. ~Failed'
    BY <1>3 DEF Failed, NoIo
  <2> QED
    BY <1>4, <2>1, <2>2, <2>4, <2>5 DEF PlaceOK
<1>8. CallReads'
  BY <1>3, <1>4 DEF CallReads, n
<1>9. CallWrites'
  <2>1. call.op = "write" => Written(call', medium, call'.total)
    BY <1>4, WrittenSame DEF n
  <2> QED
    BY <1>3, <1>4, <2>1 DEF CallWrites, Old
<1>10. IoReads' /\ IoWrites'
  BY <1>4 DEF IoReads, IoWrites
<1> QED
  BY <1>5, <1>6, <1>7, <1>8, <1>9, <1>10 DEF IInv

LEMMA BlkWrittenStep == IInv /\ BlkWritten => IInv'
<1> SUFFICES ASSUME IInv, BlkWritten PROVE IInv'
  OBVIOUS
<1>1. call.at = "write" /\ io.at = "ok" /\ Advance(call.buf)
  BY DEF BlkWritten
<1>2. call \in BlkCalls /\ call.buf \in Seq(Byte)
  BY <1>1, CallKinds DEF IInv, BlkCalls
<1>3. call.op = "write" /\ io.cmd = "WRITE" /\ io.count = 0
  BY <1>1 DEF IInv, IoOfCall, DriveOK
<1>4. New(call, medium)
  BY <1>1, <1>3 DEF IInv, IoWrites
<1>5. Written(call, medium, call.total + ToCopy(call))
  BY <1>1, <1>4 DEF New
<1> QED
  BY <1>1, <1>2, <1>3, <1>5, AdvanceStep

\* The sector a call asked for has been read.
LEMMA SectorIsRead ==
  ASSUME IInv, call.at = "read", io.at = "ok"
  PROVE  io.buf[1] = medium[call.lba] /\ medium[call.lba] \in Content
<1>1. call \in BlkCalls /\ More
  BY CallKinds DEF IInv, PlaceOK
<1>2. call.lba \in Sector /\ call.lba \in Nat
  BY <1>1, ToCopyFacts
<1>3. io \in Transfers /\ io.cmd = "READ" /\ io.lba + io.count = call.lba + 1 /\ io.count = 0
  BY DEF IInv, IoOfCall, DriveOK
<1>4. io.lba \in Nat
  BY <1>3, SizeAssumption DEF Transfers
<1>5. io.lba = call.lba + 1
  BY <1>2, <1>3, <1>4
<1>6. io.buf = Sectors(medium, call.lba, call.lba + 1)
  BY <1>3, <1>5 DEF IInv, IoReads
<1>7. io.buf[1] = medium[call.lba + 1 - 1]
  BY <1>2, <1>6 DEF Sectors
<1>8. medium[call.lba] \in Content
  BY <1>2 DEF IInv, TypeOK, Media
<1> QED
  BY <1>2, <1>7, <1>8

LEMMA BlkCopiesStep == IInv /\ BlkCopies => IInv'
<1> SUFFICES ASSUME IInv, BlkCopies PROVE IInv'
  OBVIOUS
<1> DEFINE n == ToCopy(call)
           o == call.offset_in_sector
           part == [k \in 1..n |-> io.buf[1][o + k - 1]]
           buf == call.buf \o part
<1>1. call.at = "read" /\ call.op = "read" /\ io.at = "ok" /\ Advance(buf)
  BY DEF BlkCopies
<1>2. call \in BlkCalls /\ More
  BY <1>1, CallKinds DEF IInv, PlaceOK
<1>3. /\ n \in Nat /\ n > 0 /\ o \in 0..SectorSize - 1 /\ o + n <= SectorSize /\ n <= call.count
      /\ call.lba \in Sector /\ call.lba \in Nat
      /\ call.total \in Nat /\ call.from \in Nat
      /\ offset = call.from + call.total /\ offset = call.lba * SectorSize + o
  BY <1>2, ToCopyFacts
<1>4. io.buf[1] = medium[call.lba] /\ medium[call.lba] \in Content
  BY <1>1, SectorIsRead
<1>5. /\ call.buf \in Seq(Byte) /\ Len(call.buf) = call.total
      /\ \A k \in 1..call.total : call.buf[k] = ByteAt(medium, call.from + k - 1)
  BY <1>1, <1>2 DEF IInv, CallReads, BlkCalls
<1>6. \A k \in 1..n : o + k - 1 \in 0..SectorSize - 1
  BY <1>3, SizeAssumption
<1>7. part \in Seq(Byte) /\ Len(part) = n /\ \A k \in 1..n : part[k] = medium[call.lba][o + k - 1]
  <2>1. \A k \in 1..n : io.buf[1][o + k - 1] \in Byte
    BY <1>4, <1>6 DEF Content
  <2> HIDE DEF n, o
  <2>2. part \in [1..n -> Byte]
    BY <2>1
  <2>3. \A k \in 1..n : part[k] = medium[call.lba][o + k - 1]
    BY <1>4
  <2> HIDE DEF part
  <2> QED
    BY <1>3, <2>2, <2>3
<1> HIDE DEF n, o, part
<1> DEFINE start == call.lba * SectorSize
           total == call.total
<1>8. /\ buf \in Seq(Byte) /\ Len(buf) = call.total + n
      /\ \A k \in 1..call.total : buf[k] = call.buf[k]
      /\ \A k \in call.total + 1..call.total + n : buf[k] = part[k - call.total]
  <2>1. total \in Nat /\ n \in Nat /\ call.buf \in Seq(Byte) /\ Len(call.buf) = total
    BY <1>3, <1>5
  <2>2. part \in Seq(Byte) /\ Len(part) = n
    BY <1>7
  <2> HIDE DEF total
  <2>3. buf \in Seq(Byte) /\ Len(buf) = total + n
    BY <2>1, <2>2
  <2>4. \A k \in 1..total : buf[k] = call.buf[k]
    BY <2>1, <2>2
  <2>5. \A k \in total + 1..total + n : buf[k] = part[k - total]
    BY <2>1, <2>2
  <2> QED
    BY <2>3, <2>4, <2>5 DEF total
<1> HIDE DEF buf
<1>9. \A k \in 1..call.total + n : buf[k] = ByteAt(medium, call.from + k - 1)
  <2> SUFFICES ASSUME NEW k \in 1..call.total + n, ~(k \in 1..call.total)
               PROVE  buf[k] = ByteAt(medium, call.from + k - 1)
    BY <1>5, <1>8
  <2> DEFINE j == k - call.total
  <2>1. j \in 1..n /\ k \in call.total + 1..call.total + n
    BY <1>3
  <2>2. buf[k] = medium[call.lba][o + j - 1]
    <3>1. buf[k] = part[j]
      BY <1>8, <2>1
    <3> HIDE DEF j
    <3> QED
      BY <1>7, <2>1, <3>1, Zenon
  <2>3. /\ start \in Nat /\ o \in Nat /\ call.from \in Nat /\ call.total \in Nat
        /\ call.from + call.total = start + o
    <3>1. start \in Nat
      BY <1>3, SectorEnds
    <3> QED
      BY <1>3, <3>1, SizeAssumption
  <2>4. call.from + k - 1 = call.lba * SectorSize + (o + j - 1)
    <3> HIDE DEF start
    <3>1. call.from + k - 1 = start + (o + j - 1)
      BY <2>1, <2>3
    <3> QED
      BY <3>1 DEF start
  <2>5. o + j - 1 \in 0..SectorSize - 1
    BY <1>6, <2>1
  <2> HIDE DEF j
  <2>6. ByteAt(medium, call.lba * SectorSize + (o + j - 1)) = medium[call.lba][o + j - 1]
    BY <1>3, <2>5, ByteOfSector
  <2> QED
    BY <2>2, <2>4, <2>6
<1> QED
  BY <1>1, <1>8, <1>9, AdvanceStep DEF n

\* A call that goes on to transfer its sector, with the disk as it was.
LEMMA TransferStep ==
  ASSUME IInv, call \in BlkCalls, io.at \in {"none", "ok"}, More,
         UNCHANGED <<medium, drive, sector_count, offset>>,
         NEW at \in {"read", "write"}, call' = [call EXCEPT !.at = at],
         io' \in Transfers, io'.at = "command", io'.lba = call.lba, io'.count = 1,
         at = "read" => io'.cmd = "READ" /\ io'.buf = <<>>,
         at = "write" => /\ call.op = "write" /\ io'.cmd = "WRITE" /\ Len(io'.buf) = 1
                         /\ Written(call, [medium EXCEPT ![call.lba] = io'.buf[1]], call.total + ToCopy(call)),
         call.op = "write" => Written(call, medium, call.total)
  PROVE  IInv'
<1>1. /\ call' \in BlkCalls /\ call'.at = at /\ call'.op = call.op /\ call'.lba = call.lba
      /\ call'.offset_in_sector = call.offset_in_sector /\ call'.count = call.count
      /\ call'.buf = call.buf /\ call'.total = call.total /\ call'.from = call.from
      /\ call'.before = call.before
  BY DEF BlkCalls
<1>2. call.at # "boot" /\ offset \in 0..Capacity * SectorSize
  BY CallKinds DEF IInv, TypeOK
<1>3. TypeOK' /\ DriveOK'
  BY <1>1, <1>2, RestStep
<1>4. call.lba \in Nat
  BY DEF BlkCalls
<1>5. IoOfCall'
  BY <1>1, <1>4 DEF IoOfCall
<1>6. PlaceOK'
  BY <1>1 DEF IInv, PlaceOK, More, Failed
<1>7. CallReads'
  BY <1>1 DEF IInv, CallReads
<1>8. \A m, n : Written(call, m, n) => Written(call', m, n)
  BY <1>1, WrittenSame
<1>9. CallWrites'
  BY <1>1, <1>8 DEF CallWrites, Old
<1>10. IoReads'
  <2>1. Sectors(medium, call.lba, call.lba) = <<>> /\ call.lba <= call.lba
    BY <1>4, NoSectors
  <2> QED
    BY <1>1, <2>1, Zenon DEF IoReads
<1>11. IoWrites'
  <2>1. ToCopy(call') = ToCopy(call)
    BY <1>1 DEF ToCopy
  <2> QED
    BY <1>1, <1>8, <2>1 DEF IoWrites, Storing, Old, New
<1> QED
  BY <1>3, <1>5, <1>6, <1>7, <1>9, <1>10, <1>11 DEF IInv

LEMMA BlkFillsStep == IInv /\ BlkFills => IInv'
<1> SUFFICES ASSUME IInv, BlkFills PROVE IInv'
  OBVIOUS
<1>1. /\ call.at = "read" /\ call.op = "write" /\ io.at = "ok"
      /\ call' = [call EXCEPT !.at = "write"]
      /\ io' = WriteSectors(call.lba, <<Bounce(io.buf[1])>>)
      /\ UNCHANGED <<medium, drive, sector_count, registered, offset>>
  BY DEF BlkFills
<1>2. call \in BlkCalls /\ More
  BY <1>1, CallKinds DEF IInv, PlaceOK
<1>3. call.lba \in Sector /\ call.lba \in Nat
  BY <1>2, ToCopyFacts
<1>4. io.buf[1] = medium[call.lba]
  BY <1>1, SectorIsRead
<1>5. Written(call, medium, call.total)
  BY <1>1, <1>2 DEF IInv, CallWrites, Old
<1> DEFINE sector == Bounce(io.buf[1])
<1>6. /\ sector \in Content
      /\ Written(call, [medium EXCEPT ![call.lba] = sector], call.total + ToCopy(call))
  BY <1>1, <1>2, <1>4, <1>5, BounceIsNew
<1>7. io' = [cmd |-> "WRITE", lba |-> call.lba, count |-> Len(<<sector>>), buf |-> <<sector>>, at |-> "command"]
  BY <1>1 DEF WriteSectors
<1> HIDE DEF sector
<1>8. /\ io' \in Transfers /\ io'.at = "command" /\ io'.lba = call.lba /\ io'.count = 1
      /\ io'.cmd = "WRITE" /\ Len(io'.buf) = 1 /\ io'.buf[1] = sector
  BY <1>3, <1>6, <1>7, SizeAssumption DEF Transfers, Sector
<1> QED
  BY <1>1, <1>2, <1>5, <1>6, <1>8, TransferStep

LEMMA BlkLoopStep == IInv /\ BlkLoop => IInv'
<1> SUFFICES ASSUME IInv, BlkLoop PROVE IInv'
  OBVIOUS
<1>1. call.at = "loop" /\ UNCHANGED <<medium, drive, sector_count, registered, offset>>
  BY DEF BlkLoop
<1>2. call \in BlkCalls /\ io = NoIo /\ io.at = "none"
  BY <1>1, CallKinds DEF IInv, IoOfCall, NoIo
<1>3. call.op = "write" => Written(call, medium, call.total)
  BY <1>1, <1>2 DEF IInv, CallWrites, Old
<1>4. CASE ~More
  <2>1. call' = [call EXCEPT !.at = "return"] /\ io' = io
    BY <1>4 DEF BlkLoop
  <2>2. /\ call' \in BlkCalls /\ call'.at = "return" /\ call'.op = call.op /\ call'.lba = call.lba
        /\ call'.offset_in_sector = call.offset_in_sector /\ call'.count = call.count
        /\ call'.buf = call.buf /\ call'.total = call.total /\ call'.from = call.from
        /\ call'.before = call.before
    BY <1>2, <2>1 DEF BlkCalls
  <2>3. offset \in 0..Capacity * SectorSize
    BY DEF IInv, TypeOK
  <2>4. TypeOK' /\ DriveOK'
    BY <1>1, <1>2, <2>1, <2>2, <2>3, RestStep
  <2>5. IoOfCall'
    BY <1>2, <2>1, <2>2 DEF IoOfCall
  <2>6. ~Failed /\ ~Failed'
    BY <1>2, <2>1 DEF Failed
  <2>7. PlaceOK'
    BY <1>1, <1>2, <1>4, <2>2, <2>6 DEF IInv, PlaceOK, More
  <2>8. CallReads'
    BY <1>1, <1>2, <2>2 DEF IInv, CallReads
  <2>9. CallWrites'
    <3>1. call.op = "write" => Written(call', medium, call.total)
      BY <1>3, <2>2, WrittenSame
    <3> QED
      BY <1>1, <2>2, <3>1 DEF CallWrites, Old
  <2>10. IoReads' /\ IoWrites'
    BY <2>2 DEF IoReads, IoWrites
  <2> QED
    BY <2>4, <2>5, <2>7, <2>8, <2>9, <2>10 DEF IInv
<1>5. CASE More /\ (call.op = "read" \/ Partial) /\ call' = [call EXCEPT !.at = "read"]
           /\ io' = ReadSectors(call.lba, 1)
  <2>1. call.lba \in Sector
    BY <1>2, <1>5, ToCopyFacts
  <2>2. /\ io' \in Transfers /\ io'.at = "command" /\ io'.lba = call.lba /\ io'.count = 1
        /\ io'.cmd = "READ" /\ io'.buf = <<>>
    BY <1>5, <2>1, SizeAssumption DEF ReadSectors, Transfers, Sector
  <2> QED
    BY <1>1, <1>2, <1>3, <1>5, <2>2, TransferStep
<1>6. CASE More /\ call.op = "write" /\ ~Partial /\ call' = [call EXCEPT !.at = "write"]
           /\ io' = WriteSectors(call.lba, <<Bounce([b \in 0..SectorSize - 1 |-> Junk])>>)
  <2> DEFINE junk == [b \in 0..SectorSize - 1 |-> Junk]
             sector == Bounce(junk)
  <2>1. call.lba \in Sector
    BY <1>2, <1>6, ToCopyFacts
  <2>2. call.offset_in_sector = 0 /\ ToCopy(call) = SectorSize
    BY <1>2, <1>6, SizeAssumption DEF Partial, ToCopy, BlkCalls
  <2>3. \A b \in 0..SectorSize - 1 : b \in call.offset_in_sector..call.offset_in_sector + ToCopy(call) - 1
    BY <2>2, SizeAssumption
  <2> HIDE DEF junk
  <2>4. /\ sector \in Content
        /\ Written(call, [medium EXCEPT ![call.lba] = sector], call.total + ToCopy(call))
    BY <1>2, <1>3, <1>6, <2>3, BounceIsNew
  <2>5. io' = [cmd |-> "WRITE", lba |-> call.lba, count |-> Len(<<sector>>), buf |-> <<sector>>, at |-> "command"]
    BY <1>6 DEF WriteSectors, junk
  <2> HIDE DEF sector
  <2>6. /\ io' \in Transfers /\ io'.at = "command" /\ io'.lba = call.lba /\ io'.count = 1
        /\ io'.cmd = "WRITE" /\ Len(io'.buf) = 1 /\ io'.buf[1] = sector
    BY <2>1, <2>4, <2>5, SizeAssumption DEF Transfers, Sector
  <2> QED
    BY <1>1, <1>2, <1>3, <1>6, <2>4, <2>6, TransferStep
<1> QED
  BY <1>4, <1>5, <1>6 DEF BlkLoop

LEMMA BlkBreaksStep == IInv /\ BlkBreaks => IInv'
<1> SUFFICES ASSUME IInv, BlkBreaks PROVE IInv'
  OBVIOUS
<1>1. /\ call.at \in {"read", "write"} /\ io.at = "failed" /\ call' = [call EXCEPT !.at = "return"]
      /\ UNCHANGED <<medium, drive, sector_count, registered, io, offset>>
  BY DEF BlkBreaks
<1>2. call \in BlkCalls /\ io \in Transfers /\ More
  BY <1>1, CallKinds DEF IInv, IoOfCall, PlaceOK
<1>3. /\ call' \in BlkCalls /\ call'.at = "return" /\ call'.op = call.op /\ call'.lba = call.lba
      /\ call'.offset_in_sector = call.offset_in_sector /\ call'.count = call.count
      /\ call'.buf = call.buf /\ call'.total = call.total /\ call'.from = call.from
      /\ call'.before = call.before
  BY <1>1, <1>2 DEF BlkCalls
<1>4. offset \in 0..Capacity * SectorSize /\ call.at # "boot"
  BY <1>1 DEF IInv, TypeOK
<1>5. TypeOK' /\ DriveOK'
  BY <1>1, <1>2, <1>3, <1>4, RestStep
<1>6. IoOfCall'
  BY <1>1, <1>2, <1>3 DEF IoOfCall
<1>7. PlaceOK'
  BY <1>1, <1>2, <1>3 DEF IInv, PlaceOK, More, Failed
<1>8. CallReads'
  BY <1>1, <1>2, <1>3 DEF IInv, CallReads
<1>9. CallWrites'
  <2>1. \A m, n : Written(call, m, n) => Written(call', m, n)
    BY <1>3, WrittenSame
  <2>2. ToCopy(call') = ToCopy(call)
    BY <1>3 DEF ToCopy
  <2>3. call.op = "write" => Old(call, medium) \/ New(call, medium)
    <3>1. CASE call.at = "read"
      BY <1>2, <3>1 DEF IInv, CallWrites
    <3>2. CASE call.at = "write"
      BY <1>1, <3>2 DEF IInv, IoOfCall, IoWrites, Storing
    <3> QED
      BY <1>1, <3>1, <3>2
  <2>4. call.op = "write" => Old(call', medium) \/ New(call', medium)
    BY <1>1, <1>3, <2>1, <2>2, <2>3 DEF Old, New
  <2> QED
    BY <1>1, <1>3, <2>4 DEF CallWrites, Failed
<1>10. IoReads' /\ IoWrites'
  BY <1>3 DEF IoReads, IoWrites
<1> QED
  BY <1>5, <1>6, <1>7, <1>8, <1>9, <1>10 DEF IInv

-----------------------------------------------------------------------------
(***************************************************************************)
(* Boot, and the calls of programs and of KFS.                             *)
(***************************************************************************)

LEMMA InitIInv == Init => IInv
<1> SUFFICES ASSUME Init PROVE IInv
  OBVIOUS
<1>1. Capacity \in Nat /\ SectorSize \in Nat \ {0} /\ 0 \in 0..Capacity /\ 0 \in 0..Capacity * SectorSize
  BY SizeAssumption
<1>2. drive \in Controllers /\ drive.status = {} /\ drive.data = NoData
  BY <1>1 DEF Init, Controllers
<1>3. medium \in Media
  <2>1. {[b \in 0..SectorSize - 1 |-> v] : v \in Byte} \subseteq Content
    BY DEF Content
  <2> QED
    BY <2>1 DEF Init, Media
<1>4. call = [at |-> "boot"] /\ call.at = "boot" /\ io = NoIo /\ io.at = "none"
  BY DEF Init, NoIo
<1>5. TypeOK
  BY <1>1, <1>2, <1>3, <1>4 DEF Init, TypeOK
<1>6. call \notin BlkCalls
  BY <1>4, <1>5, CallKinds
<1>7. IoOfCall /\ DriveOK
  <2>1. io \notin Transfers
    BY <1>4 DEF Transfers
  <2> QED
    BY <1>2, <1>4, <2>1 DEF IoOfCall, DriveOK, Is
<1>8. PlaceOK /\ CallReads /\ IoReads /\ CallWrites /\ IoWrites
  BY <1>4, <1>6 DEF PlaceOK, CallReads, IoReads, CallWrites, IoWrites
<1> QED
  BY <1>5, <1>7, <1>8 DEF IInv

LEMMA AtaInitStep == IInv /\ AtaInit => IInv'
<1> SUFFICES ASSUME IInv, AtaInit PROVE IInv'
  OBVIOUS
<1>1. call.at = "boot" /\ io = NoIo /\ UNCHANGED <<medium, sector_count, registered, call, offset>>
  BY DEF AtaInit
<1>2. drive \in Controllers /\ ~Is("BSY") /\ ~Is("DRQ") /\ drive.data = NoData
  BY <1>1 DEF IInv, TypeOK, DriveOK, NoIo
<1>3. PICK at \in {"ready", "failed"} :
        /\ io' = [cmd |-> "IDENTIFY", at |-> at]
        /\ at = "ready" => drive' = [status |-> {"BSY"}, cmd |-> "IDENTIFY", regs |-> LbaRegisters(0), data |-> NoData]
        /\ at = "failed" => drive' = drive
  BY DEF AtaInit, OutCommand
<1>4. io' \in Identifies /\ io' \notin Transfers /\ io'.at = at /\ io'.cmd = "IDENTIFY"
  BY <1>3 DEF Identifies, Transfers
<1>5. drive' \in Controllers
  <2>1. 0 \in 0..Capacity
    BY SizeAssumption
  <2> QED
    BY <1>2, <1>3, <2>1 DEF Controllers
<1>6. TypeOK'
  BY <1>1, <1>4, <1>5 DEF IInv, TypeOK
<1>7. IoOfCall'
  BY <1>1, <1>4 DEF IoOfCall
<1>8. DriveOK'
  BY <1>2, <1>3, <1>4 DEF DriveOK, Is
<1>9. call \notin BlkCalls
  BY <1>1, CallKinds DEF IInv
<1>10. PlaceOK' /\ CallReads' /\ IoReads' /\ CallWrites' /\ IoWrites'
  BY <1>1, <1>9 DEF PlaceOK, CallReads, IoReads, CallWrites, IoWrites
<1> QED
  BY <1>6, <1>7, <1>8, <1>10 DEF IInv

\* No call is made, and the drive is at rest.
LEMMA ToNoCall ==
  ASSUME medium' \in Media, drive' \in Controllers, io' = NoIo, call' = NoCall, sector_count' = Capacity,
         offset' \in 0..Capacity * SectorSize, ~Is("BSY")', ~Is("DRQ")', drive'.data = NoData
  PROVE  IInv'
<1>1. call'.at = "none" /\ io'.at = "none" /\ io' \notin Transfers
  BY DEF NoCall, NoIo, Transfers
<1>2. TypeOK'
  BY <1>1 DEF TypeOK
<1>3. call' \notin BlkCalls
  BY <1>1 DEF BlkCalls
<1>4. IoOfCall' /\ DriveOK'
  BY <1>1 DEF IoOfCall, DriveOK
<1>5. PlaceOK' /\ CallReads' /\ IoReads' /\ CallWrites' /\ IoWrites'
  BY <1>1, <1>3 DEF PlaceOK, CallReads, IoReads, CallWrites, IoWrites
<1> QED
  BY <1>2, <1>4, <1>5 DEF IInv

LEMMA AtaRegistersStep == IInv /\ AtaRegisters => IInv'
<1> SUFFICES ASSUME IInv, AtaRegisters PROVE IInv'
  OBVIOUS
<1>1. /\ io.at = "ready" /\ drive' = [drive EXCEPT !.status = {}] /\ sector_count' = Capacity
      /\ call' = NoCall /\ io' = NoIo /\ UNCHANGED <<medium, offset>>
  BY DEF AtaRegisters
<1>2. medium \in Media /\ drive \in Controllers /\ offset \in 0..Capacity * SectorSize
  BY DEF IInv, TypeOK
<1>3. drive.data = NoData
  BY <1>1 DEF IInv, DriveOK
<1>4. drive' \in Controllers /\ drive'.status = {} /\ drive'.data = NoData
  BY <1>1, <1>2, <1>3 DEF Controllers
<1>5. ~Is("BSY")' /\ ~Is("DRQ")'
  BY <1>4 DEF Is
<1> QED
  BY <1>1, <1>2, <1>4, <1>5, ToNoCall

LEMMA ReturnsStep == IInv /\ Returns => IInv'
<1> SUFFICES ASSUME IInv, Returns PROVE IInv'
  OBVIOUS
<1>1. /\ call.at \in {"return", "sectors"} /\ call' = NoCall /\ io' = NoIo
      /\ UNCHANGED <<medium, drive, sector_count, offset>>
      /\ call.at = "sectors" => io.at \in {"ok", "failed"}
  BY DEF Returns
<1>2. io.at \in {"none", "ok", "failed"}
  BY <1>1 DEF IInv, IoOfCall, NoIo
<1>3. ~Is("BSY") /\ ~Is("DRQ") /\ drive.data = NoData
  BY <1>2 DEF IInv, DriveOK
<1>4. ~Is("BSY")' /\ ~Is("DRQ")'
  BY <1>1, <1>3 DEF Is
<1>5. medium \in Media /\ drive \in Controllers /\ offset \in 0..Capacity * SectorSize /\ sector_count = Capacity
  BY <1>1 DEF IInv, TypeOK
<1> QED
  BY <1>1, <1>3, <1>4, <1>5, ToNoCall

\* Between calls.
LEMMA Idle ==
  ASSUME IInv, call = NoCall
  PROVE  /\ call.at = "none" /\ io = NoIo /\ io.at = "none" /\ sector_count = Capacity
         /\ medium \in Media /\ drive \in Controllers /\ offset \in 0..Capacity * SectorSize
         /\ ~Is("BSY") /\ ~Is("DRQ") /\ drive.data = NoData
<1>1. call.at = "none"
  BY DEF NoCall
<1>2. io = NoIo /\ io.at = "none"
  BY <1>1 DEF IInv, IoOfCall, NoIo
<1> QED
  BY <1>1, <1>2 DEF IInv, TypeOK, DriveOK

LEMMA BlkOpenStep == IInv /\ BlkOpen => IInv'
<1> SUFFICES ASSUME IInv, BlkOpen PROVE IInv'
  OBVIOUS
<1>1. call = NoCall /\ offset' = 0 /\ UNCHANGED <<medium, drive, sector_count, io, call>>
  BY DEF BlkOpen
<1>2. 0 \in 0..Capacity * SectorSize
  BY SizeAssumption
<1>3. ~Is("BSY")' /\ ~Is("DRQ")'
  BY <1>1, Idle DEF Is
<1> QED
  BY <1>1, <1>2, <1>3, Idle, ToNoCall

\* A read or a write of count bytes begins where the file offset is.
LEMMA CalledStep ==
  ASSUME IInv, call = NoCall, NEW op \in {"read", "write"}, NEW count \in Nat, NEW buf \in Seq(Byte),
         op = "read" => buf = <<>>, op = "write" => Len(buf) = count,
         call' = Called(op, count, buf), UNCHANGED <<medium, drive, sector_count, io, offset>>
  PROVE  IInv'
<1> DEFINE l == offset \div SectorSize
           o == offset % SectorSize
<1>1. offset \in Nat /\ SectorSize \in Nat \ {0}
  BY Idle, SizeAssumption
<1>2. l \in Nat /\ o \in 0..SectorSize - 1 /\ offset = SectorSize * l + o
  BY <1>1, Division
<1>3. call' = [op |-> op, lba |-> l, offset_in_sector |-> o, count |-> count, buf |-> buf, total |-> 0,
               at |-> "loop", from |-> offset, before |-> medium]
  BY DEF Called
<1> HIDE DEF l, o
<1>4. /\ call' \in BlkCalls /\ call'.at = "loop" /\ call'.op = op /\ call'.lba = l
      /\ call'.offset_in_sector = o /\ call'.count = count /\ call'.buf = buf /\ call'.total = 0
      /\ call'.from = offset /\ call'.before = medium
  <2>1. medium \in Media
    BY Idle
  <2>2. call' \in BlkCalls
    BY <1>1, <1>2, <1>3, <2>1 DEF BlkCalls
  <2> QED
    BY <1>3, <2>2
<1>5. TypeOK' /\ DriveOK'
  BY <1>4, Idle, RestStep
<1>6. IoOfCall'
  BY <1>4, Idle DEF IoOfCall
<1>7. PlaceOK'
  <2>1. SectorSize * l + o = l * SectorSize + o
    BY <1>1, <1>2
  <2>2. offset = offset + 0 /\ 0 + count = count
    BY <1>1
  <2>3. ~Failed'
    BY Idle DEF Failed
  <2> QED
    BY <1>2, <1>4, <2>1, <2>2, <2>3 DEF PlaceOK
<1>8. CallReads'
  <2>1. 1..0 = {} /\ Len(<<>>) = 0
    OBVIOUS
  <2> QED
    BY <1>4, <2>1 DEF CallReads
<1>9. CallWrites'
  <2>1. Written(call', medium, 0)
    <3>1. \A a \in Address : a \notin offset..offset + 0 - 1
      BY <1>1, SizeAssumption DEF Address
    <3> QED
      BY <1>4, <3>1 DEF Written
  <2> QED
    BY <1>4, <2>1 DEF CallWrites, Old
<1>10. IoReads' /\ IoWrites'
  BY <1>4 DEF IoReads, IoWrites
<1> QED
  BY <1>5, <1>6, <1>7, <1>8, <1>9, <1>10 DEF IInv

LEMMA KfsReadsStep ==
  ASSUME IInv, NEW l \in Sector, NEW n \in Nat, KfsReads(l, n)
  PROVE  IInv'
<1>1. /\ call = NoCall /\ call' = [op |-> "sectors", at |-> "sectors", lba |-> l, before |-> medium]
      /\ io' = [cmd |-> "READ", lba |-> l, count |-> n, buf |-> <<>>, at |-> "command"]
      /\ UNCHANGED <<medium, drive, sector_count, offset>>
  BY DEF KfsReads, ReadSectors
<1>2. call' \in KfsReadCalls /\ call'.at = "sectors" /\ call'.lba = l /\ call' \notin BlkCalls
  BY <1>1, Idle DEF KfsReadCalls, BlkCalls
<1>3. l \in 0..Capacity /\ l \in Nat
  BY SizeAssumption DEF Sector
<1>4. /\ io' \in Transfers /\ io'.cmd = "READ" /\ io'.lba = l /\ io'.buf = <<>> /\ io'.at = "command"
  <2>1. <<>> \in Seq(Content)
    OBVIOUS
  <2>2. io' \in Transfers
    BY <1>1, <1>3, <2>1 DEF Transfers
  <2> QED
    BY <1>1, <2>2
<1>5. TypeOK' /\ DriveOK'
  BY <1>1, <1>2, <1>4, Idle, RestStep
<1>6. IoOfCall'
  BY <1>2, <1>4 DEF IoOfCall
<1>7. PlaceOK' /\ CallReads' /\ CallWrites'
  BY <1>2 DEF PlaceOK, CallReads, CallWrites
<1>8. IoReads'
  <2>1. Sectors(medium, l, l) = <<>> /\ l <= l
    BY <1>3, NoSectors
  <2> QED
    BY <1>1, <1>2, <1>4, <2>1, Zenon DEF IoReads
<1>9. IoWrites'
  BY <1>4 DEF IoWrites
<1> QED
  BY <1>5, <1>6, <1>7, <1>8, <1>9 DEF IInv

LEMMA KfsWritesStep ==
  ASSUME IInv, NEW l \in Sector, NEW sector \in Content, KfsWrites(l, sector)
  PROVE  IInv'
<1>1. /\ call = NoCall
      /\ call' = [op |-> "sectors", at |-> "sectors", lba |-> l, before |-> medium, sector |-> sector]
      /\ io' = [cmd |-> "WRITE", lba |-> l, count |-> Len(<<sector>>), buf |-> <<sector>>, at |-> "command"]
      /\ UNCHANGED <<medium, drive, sector_count, offset>>
  BY DEF KfsWrites, WriteSectors
<1>2. /\ call' \in KfsWriteCalls /\ call'.at = "sectors" /\ call'.lba = l /\ call' \notin BlkCalls
      /\ call'.before = medium /\ call'.sector = sector
  BY <1>1, Idle DEF KfsWriteCalls, BlkCalls
<1>3. l \in 0..Capacity
  BY SizeAssumption DEF Sector
<1>4. /\ io' \in Transfers /\ io'.cmd = "WRITE" /\ io'.lba = l /\ io'.count = 1 /\ Len(io'.buf) = 1
      /\ io'.buf[1] = sector /\ io'.at = "command"
  <2>1. <<sector>> \in Seq(Content) /\ Len(<<sector>>) = 1 /\ <<sector>>[1] = sector
    OBVIOUS
  <2>2. /\ io'.cmd = "WRITE" /\ io'.lba = l /\ io'.count = 1 /\ io'.buf = <<sector>>
        /\ io'.at = "command"
    BY <1>1, <2>1
  <2>3. io' \in Transfers
    BY <1>1, <1>3, <2>1 DEF Transfers
  <2> QED
    BY <2>1, <2>2, <2>3
<1>5. TypeOK' /\ DriveOK'
  BY <1>1, <1>2, <1>4, Idle, RestStep
<1>6. IoOfCall'
  BY <1>2, <1>4 DEF IoOfCall
<1>7. PlaceOK' /\ CallReads' /\ CallWrites'
  BY <1>2 DEF PlaceOK, CallReads, CallWrites
<1>8. IoReads'
  BY <1>4 DEF IoReads
<1>9. IoWrites'
  <2>1. Old(call', medium') /\ New(call', [medium' EXCEPT ![io'.lba] = io'.buf[1]])
    <3>1. Old(call', medium) /\ New(call', [medium EXCEPT ![l] = sector])
      BY <1>2 DEF Old, New
    <3> QED
      BY <1>1, <1>4, <3>1
  <2>2. io'.at \notin {"busy", "ok"} /\ io'.count = 1 /\ Len(io'.buf) = 1 /\ io'.lba = call'.lba
    BY <1>2, <1>4
  <2>3. Storing'
    BY <1>4 DEF Storing
  <2> QED
    BY <2>1, <2>2, <2>3 DEF IoWrites
<1> QED
  BY <1>5, <1>6, <1>7, <1>8, <1>9 DEF IInv

LEMMA NextIInv == IInv /\ [Next]_vars => IInv'
<1> SUFFICES ASSUME IInv, [Next]_vars PROVE IInv'
  OBVIOUS
<1>1. CASE Driver
  BY <1>1, AtaInitStep, AtaRegistersStep, AtaCommandStep, AtaFailsStep, AtaReadsStep, AtaWritesStep,
     AtaWaitBusyStep, BlkLoopStep, BlkCopiesStep, BlkFillsStep, BlkWrittenStep, BlkBreaksStep,
     ReturnsStep DEF Driver
<1>2. CASE Drive
  BY <1>2, DriveAnswersStep, DriveStoresStep DEF Drive
<1>3. CASE BlkOpen
  BY <1>3, BlkOpenStep
<1>4. CASE \E count \in Reads : BlkVnodeRead(count)
  <2>1. PICK count \in Reads : BlkVnodeRead(count)
    BY <1>4
  <2>2. count \in Nat /\ <<>> \in Seq(Byte)
    BY InputAssumption
  <2> QED
    BY <2>1, <2>2, CalledStep DEF BlkVnodeRead
<1>5. CASE \E buf \in Writes : BlkVnodeWrite(buf)
  <2>1. PICK buf \in Writes : BlkVnodeWrite(buf)
    BY <1>5
  <2>2. buf \in Seq(Byte) /\ Len(buf) \in Nat
    BY InputAssumption
  <2> QED
    BY <2>1, <2>2, CalledStep DEF BlkVnodeWrite
<1>6. CASE \E l \in Sector, n \in Runs : KfsReads(l, n)
  BY <1>6, KfsReadsStep, InputAssumption
<1>7. CASE \E l \in Sector, v \in Byte : KfsWrites(l, [b \in 0..SectorSize - 1 |-> v])
  <2>1. PICK l \in Sector, v \in Byte : KfsWrites(l, [b \in 0..SectorSize - 1 |-> v])
    BY <1>7
  <2>2. [b \in 0..SectorSize - 1 |-> v] \in Content
    BY DEF Content
  <2> QED
    BY <2>1, <2>2, KfsWritesStep
<1>8. CASE UNCHANGED vars
  <2> USE <1>8 DEF vars
  <2>1. TypeOK' /\ IoOfCall'
    BY DEF IInv, TypeOK, IoOfCall
  <2>2. DriveOK' /\ PlaceOK'
    BY DEF IInv, DriveOK, PlaceOK, More, Failed, Is
  <2>3. CallReads' /\ IoReads' /\ CallWrites'
    BY DEF IInv, CallReads, IoReads, CallWrites, Failed
  <2>4. IoWrites'
    BY DEF IInv, IoWrites, Storing, Is
  <2> QED
    BY <2>1, <2>2, <2>3, <2>4 DEF IInv
<1> QED
  BY <1>1, <1>2, <1>3, <1>4, <1>5, <1>6, <1>7, <1>8 DEF Next, Calls

\* IInv is an invariant of the disk, its driver and the calls.
LEMMA Invariance == Spec => []IInv
<1>1. Init => IInv
  BY InitIInv
<1>2. IInv /\ [Next]_vars => IInv'
  BY NextIInv
<1> QED
  BY <1>1, <1>2, PTL DEF Spec

-----------------------------------------------------------------------------
(***************************************************************************)
(* What the invariant gives.                                               *)
(***************************************************************************)

\* ata_read_sectors_impl() and ata_write_sectors_impl() write a command only when the
\* drive is neither busy nor in a transfer, for every run of sectors and every error.
THEOREM CommandsFindIdleDrive == Spec => []CommandsMeetIdleDrive
<1>1. IInv => CommandsMeetIdleDrive
  BY DEF IInv, DriveOK, CommandsMeetIdleDrive
<1> QED
  BY <1>1, Invariance, PTL

\* A call that met no error has moved all it was asked for, up to the end of the disk.
LEMMA MovesAll ==
  ASSUME IInv, call.at = "return", ~Failed
  PROVE  call.total = Moves(call.total + call.count)
<1> DEFINE size == Capacity * SectorSize
           start == call.lba * SectorSize
<1>1. call \in BlkCalls /\ sector_count = Capacity /\ offset \in 0..size
  BY CallKinds DEF IInv, TypeOK
<1>2. /\ call.total \in Nat /\ call.count \in Nat /\ call.from \in Nat /\ call.lba \in Nat
      /\ call.offset_in_sector \in 0..SectorSize - 1
  BY <1>1 DEF BlkCalls
<1>3. /\ offset = call.from + call.total /\ ~More
      /\ call.count > 0 => offset = start + call.offset_in_sector
  BY <1>1 DEF IInv, PlaceOK
<1>4. size \in Nat /\ SectorSize \in Nat \ {0} /\ Capacity \in Nat
  BY SizeAssumption
<1>5. call.count = 0 \/ ~(call.lba < Capacity)
  BY <1>1, <1>2, <1>3 DEF More
<1>6. ~(call.lba < Capacity) => start \in Nat /\ size <= start
  <2> SUFFICES ASSUME ~(call.lba < Capacity) PROVE start \in Nat /\ size <= start
    OBVIOUS
  <2>1. SectorSize * (call.lba - Capacity) \in Nat
    BY <1>2, <1>4
  <2>2. SectorSize * (call.lba - Capacity) = start - size /\ start \in Nat
    BY <1>2, <1>4
  <2> QED
    BY <1>4, <2>1, <2>2
<1> HIDE DEF size, start
<1>7. call.total <= size - call.from
  BY <1>1, <1>2, <1>3, <1>4
<1>8. call.count > 0 => call.total = size - call.from
  BY <1>1, <1>2, <1>3, <1>4, <1>5, <1>6
<1>9. call.total = Min2(call.total + call.count, size - call.from)
  BY <1>2, <1>4, <1>7, <1>8 DEF Min2
<1> QED
  BY <1>9 DEF Moves, size

\* blk_vnode_read() returns the bytes of the disk at the file offset, across sectors of
\* any size and up to the end of a disk of any size, and moves the offset by as many; a
\* run of sectors that ata_read_sectors_impl() reads without an error is complete.
THEOREM ReadsAreExact == Spec => []ReadIsExact
<1>1. IInv => ReadIsExact
  <2> SUFFICES ASSUME IInv PROVE ReadIsExact
    OBVIOUS
  <2>1. ASSUME call.at = "return", call.op = "read"
        PROVE  /\ offset = call.from + call.total /\ Len(call.buf) = call.total
               /\ ~Failed => call.total = Moves(call.total + call.count)
               /\ \A k \in 1..call.total : call.buf[k] = ByteAt(medium, call.from + k - 1)
    <3>1. call \in BlkCalls
      BY <2>1, CallKinds DEF IInv
    <3>2. offset = call.from + call.total
      BY <3>1 DEF IInv, PlaceOK
    <3>3. /\ Len(call.buf) = call.total
          /\ \A k \in 1..call.total : call.buf[k] = ByteAt(medium, call.from + k - 1)
      BY <2>1, <3>1 DEF IInv, CallReads
    <3> QED
      BY <2>1, <3>2, <3>3, MovesAll
  <2>2. call.at = "sectors" /\ io.cmd = "READ" => io.buf = Sectors(medium, call.lba, io.lba)
    BY DEF IInv, IoReads
  <2> QED
    BY <2>1, <2>2 DEF ReadIsExact
<1> QED
  BY <1>1, Invariance, PTL

\* blk_vnode_write() puts exactly the bytes it reports on the disk, although it reads and
\* writes back whole sectors, for sectors and disks of any size: the rest of the disk is
\* as it was, but for bytes of the one sector whose transfer failed.
THEOREM WritesAreExact == Spec => []WriteIsExact
<1>1. IInv => WriteIsExact
  <2> SUFFICES ASSUME IInv PROVE WriteIsExact
    OBVIOUS
  <2> DEFINE end == call.from + call.total
             new(a) == call.buf[a - call.from + 1]
             old(a) == ByteAt(call.before, a)
             Allowed(a) == IF a \in call.from..end - 1 THEN {new(a)}
                           ELSE IF /\ Failed /\ a \in end..call.from + Len(call.buf) - 1
                                   /\ a \div SectorSize = end \div SectorSize
                                THEN {old(a), new(a)} ELSE {old(a)}
  <2>1. ASSUME call.at = "return", call.op = "write"
        PROVE  /\ offset = end
               /\ ~Failed => call.total = Moves(Len(call.buf))
               /\ \A a \in Address : ByteAt(medium, a) \in Allowed(a)
    <3>1. call \in BlkCalls
      BY <2>1, CallKinds DEF IInv
    <3>2. offset = end /\ call.total + call.count = Len(call.buf) /\ (Failed => More)
      BY <2>1, <3>1 DEF IInv, PlaceOK
    <3>3. Written(call, medium, call.total) \/ (Failed /\ Written(call, medium, call.total + ToCopy(call)))
      BY <2>1, <3>1 DEF IInv, CallWrites, Old, New
    <3>4. CASE Written(call, medium, call.total)
      <4>1. \A a \in Address : ByteAt(medium, a) = IF a \in call.from..end - 1 THEN new(a) ELSE old(a)
        <5> TAKE a \in Address
        <5>1. ByteAt(medium, a) = IF a \in call.from..call.from + call.total - 1
                                  THEN call.buf[a - call.from + 1] ELSE ByteAt(call.before, a)
          BY <3>4 DEF Written
        <5>2. a \in Nat /\ call.from \in Nat /\ call.total \in Nat
          BY <3>1, SectorOfByte DEF BlkCalls
        <5> QED
          BY <5>1, <5>2
      <4> HIDE DEF new, old, end
      <4>2. \A a \in Address : ByteAt(medium, a) \in Allowed(a)
        BY <4>1
      <4> QED
        BY <2>1, <3>2, <4>2, MovesAll
    <3>5. CASE Failed /\ Written(call, medium, call.total + ToCopy(call))
      <4> DEFINE n == ToCopy(call)
                 o == call.offset_in_sector
                 l == call.lba
      <4>1. /\ n \in Nat /\ n > 0 /\ o \in 0..SectorSize - 1 /\ o + n <= SectorSize /\ n <= call.count
            /\ l \in Nat /\ call.count \in Nat /\ call.total \in Nat /\ call.from \in Nat
            /\ end = l * SectorSize + o
        BY <3>1, <3>2, <3>5, ToCopyFacts
      <4>2. SectorSize \in Nat \ {0} /\ o \in Nat /\ end \in Nat
        BY <4>1, SizeAssumption
      <4>3. \A a \in Address : ByteAt(medium, a) =
              IF a \in call.from..call.from + (call.total + n) - 1 THEN new(a) ELSE old(a)
        BY <3>5 DEF Written
      <4>4. ASSUME NEW a \in Address PROVE ByteAt(medium, a) \in Allowed(a)
        <5>1. a \in Nat
          BY SectorOfByte
        <5>2. a \in call.from..call.from + (call.total + n) - 1
                <=> a \in call.from..end - 1 \/ a \in end..(end + n - 1)
          <6> HIDE DEF n
          <6> QED
            BY <4>1, <5>1
        <5>3. a \in end..(end + n - 1) => a \in end..call.from + Len(call.buf) - 1
          <6> HIDE DEF n
          <6>1. /\ n \in Nat /\ n <= call.count /\ call.count \in Nat /\ call.total \in Nat
                /\ call.from \in Nat
            BY <4>1, Zenon
          <6>2. call.total + call.count = Len(call.buf)
            BY <3>2, Zenon
          <6> DEFINE length == Len(call.buf)
          <6>3. call.total + call.count = length
            BY <6>2
          <6> HIDE DEF length
          <6>4. end + n <= call.from + length /\ length \in Nat
            BY <6>1, <6>3
          <6> HIDE DEF end
          <6> QED
            BY <4>2, <5>1, <6>1, <6>4 DEF length
        <5>4. a \in end..(end + n - 1) => a \div SectorSize = end \div SectorSize
          <6> DEFINE k == a \div SectorSize
                     b == a % SectorSize
          <6>1. k \in Nat /\ b \in 0..SectorSize - 1 /\ a = k * SectorSize + b
            BY SectorOfByte, SizeAssumption DEF Sector
          <6> HIDE DEF n, o, l, k, b
          <6>2. k * SectorSize + b \in (l * SectorSize + o)..(l * SectorSize + o + n - 1)
                  <=> k = l /\ b \in o..o + n - 1
            BY <4>1, <4>2, <6>1, PartOfSector
          <6>3. (l * SectorSize + o) \div SectorSize = l
            BY <4>1, ByteOfSector
          <6> QED
            BY <4>1, <6>1, <6>2, <6>3 DEF k
        <5> HIDE DEF new, old, end, n
        <5> QED
          BY <3>5, <4>3, <5>2, <5>3, <5>4
      <4> QED
        BY <3>2, <3>5, <4>4
    <3> QED
      BY <3>3, <3>4, <3>5
  <2>2. ASSUME io.at \in {"ok", "failed"}, call.at = "sectors", io.cmd = "WRITE"
        PROVE  medium \in IF Failed THEN {call.before, [call.before EXCEPT ![call.lba] = call.sector]}
                          ELSE {[call.before EXCEPT ![call.lba] = call.sector]}
    <3>1. io.at = "ok" => io.count = 0
      BY DEF IInv, DriveOK
    <3>2. io.at = "ok" => New(call, medium)
      BY <2>2, <3>1 DEF IInv, IoWrites
    <3>3. Old(call, medium) \/ New(call, medium)
      BY <2>2 DEF IInv, IoWrites, Storing
    <3> QED
      BY <2>2, <3>2, <3>3 DEF Old, New, Failed
  <2> QED
    BY <2>1, <2>2 DEF WriteIsExact
<1> QED
  BY <1>1, Invariance, PTL
=============================================================================
