---------------------------- MODULE BlockDevice ----------------------------
(***************************************************************************)
(* The disk as the kernel sees it: the ATA driver (kernel/drivers/ata.c),  *)
(* which drives the controller by polling its status register, and the     *)
(* block layer (kernel/fs/blk.c), which makes /dev/hda a file of bytes out *)
(* of transfers of whole sectors.  KFS calls the driver directly.          *)
(*                                                                         *)
(* System calls run with interrupts disabled, so there is one call at a    *)
(* time; what runs concurrently is the drive, which takes its time and may *)
(* report an error for any command.                                        *)
(***************************************************************************)
EXTENDS Integers, Sequences

CONSTANTS
  SectorSize,  \* BLK_SECTOR_SIZE
  Capacity,    \* the sectors of the drive, as IDENTIFY reports them
  Byte,        \* what a byte may be
  Junk,        \* what the stack holds where bounce[] is not initialised
  RegBase,     \* the values of an 8-bit register
  HeadBase,    \* the values of the address bits in ATA_REG_HDDEVSEL
  Writes,      \* what programs write to /dev/hda: sequences of bytes
  Reads,       \* how many bytes programs ask for
  Runs         \* how many sectors KFS asks for

ASSUME SizeAssumption ==
  /\ SectorSize \in Nat \ {0} /\ Capacity \in Nat
  /\ RegBase \in Nat \ {0} /\ HeadBase \in Nat \ {0}
  /\ Capacity < RegBase * RegBase * RegBase * HeadBase

ASSUME InputAssumption ==
  Writes \subseteq Seq(Byte) /\ Reads \subseteq Nat /\ Runs \subseteq Nat

VARIABLES
  medium,        \* sector -> its bytes
  drive,         \* the controller: status, command and address registers, data
  sector_count,  \* hda_dev.sector_count
  registered,    \* registered_devs[] holds hda
  io,            \* the transfer the driver is making
  call,          \* the call of the block layer or of KFS it is made for
  offset         \* f->offset of the open /dev/hda

vars == <<medium, drive, sector_count, registered, io, call, offset>>

Sector == 0..Capacity - 1
Content == [0..SectorSize - 1 -> Byte]
NoData == <<>>

\* The bytes of the disk, numbered from 0.
Address == 0..Capacity * SectorSize - 1
ByteAt(m, a) == m[a \div SectorSize][a % SectorSize]

\* The sectors from first up to but not including end.
Sectors(m, first, end) == [k \in 1..end - first |-> m[first + k - 1]]

-----------------------------------------------------------------------------
(***************************************************************************)
(* The controller.                                                         *)
(***************************************************************************)

\* The four address registers the driver fills, lowest first.
LbaRegisters(lba) ==
  <<lba % RegBase, (lba \div RegBase) % RegBase,
    (lba \div (RegBase * RegBase)) % RegBase,
    (lba \div (RegBase * RegBase * RegBase)) % HeadBase>>

\* The sector the drive finds there.
Addressed(r) == r[1] + RegBase * (r[2] + RegBase * (r[3] + RegBase * r[4]))

Is(bit) == bit \in drive.status

\* Writing the command register makes the drive busy and clears old errors, at once: a
\* drive may take 400 ns to show it, for which ata.c does not wait.
OutCommand(cmd, lba) ==
  drive' = [status |-> {"BSY"}, cmd |-> cmd, regs |-> LbaRegisters(lba), data |-> NoData]

\* The drive is ready to transfer the sector, or refuses.
DriveAnswers ==
  /\ Is("BSY") /\ drive.data = NoData
  /\ \/ /\ drive.cmd = "IDENTIFY" \/ Addressed(drive.regs) \in Sector
        /\ drive' = [drive EXCEPT !.status = {"DRQ"}]
     \/ \E bit \in {"ERR", "DF"} : drive' = [drive EXCEPT !.status = {bit}]
  /\ UNCHANGED <<medium, sector_count, registered, io, call, offset>>

\* The drive stores the sector it was given; when it reports an error it may have.
DriveStores ==
  LET stored == [medium EXCEPT ![Addressed(drive.regs)] = drive.data] IN
  /\ Is("BSY") /\ drive.data # NoData
  /\ \/ medium' = stored /\ drive' = [drive EXCEPT !.status = {}, !.data = NoData]
     \/ /\ medium' \in {medium, stored}
        /\ \E bit \in {"ERR", "DF"} :
             drive' = [drive EXCEPT !.status = {bit}, !.data = NoData]
  /\ UNCHANGED <<sector_count, registered, io, call, offset>>

-----------------------------------------------------------------------------
(***************************************************************************)
(* The driver: ata_read_sectors_impl(), ata_write_sectors_impl() and       *)
(* ata_init().  A poll that finds the drive busy changes nothing.          *)
(***************************************************************************)

NoIo == [at |-> "none"]
ReadSectors(l, n) == [cmd |-> "READ", lba |-> l, count |-> n, buf |-> <<>>, at |-> "command"]
WriteSectors(l, s) == [cmd |-> "WRITE", lba |-> l, count |-> Len(s), buf |-> s, at |-> "command"]

\* The head of the loop over the sectors of a transfer.
AtaCommand ==
  /\ io.at = "command"
  /\ \/ /\ io.count = 0
        /\ io' = [io EXCEPT !.at = "ok"]
        /\ UNCHANGED drive
     \/ /\ io.count > 0
        /\ OutCommand(io.cmd, io.lba)
        /\ io' = [io EXCEPT !.at = "ready"]
  /\ UNCHANGED <<medium, sector_count, registered, call, offset>>

AtaFails ==
  /\ io.at \in {"ready", "busy"}
  /\ Is("ERR") \/ Is("DF")
  /\ io' = [io EXCEPT !.at = "failed"]
  /\ UNCHANGED <<medium, drive, sector_count, registered, call, offset>>

\* ata_wait_ready() has seen DRQ: the 256 words are moved.
AtaReads ==
  /\ io.at = "ready" /\ io.cmd = "READ" /\ ~Is("BSY") /\ Is("DRQ")
  /\ io' = [io EXCEPT !.buf = Append(@, medium[Addressed(drive.regs)]),
                      !.lba = @ + 1, !.count = @ - 1, !.at = "command"]
  /\ drive' = [drive EXCEPT !.status = {}]
  /\ UNCHANGED <<medium, sector_count, registered, call, offset>>

AtaWrites ==
  /\ io.at = "ready" /\ io.cmd = "WRITE" /\ ~Is("BSY") /\ Is("DRQ")
  /\ drive' = [drive EXCEPT !.status = {"BSY"}, !.data = Head(io.buf)]
  /\ io' = [io EXCEPT !.at = "busy"]
  /\ UNCHANGED <<medium, sector_count, registered, call, offset>>

\* Mutants: the wait after the data is forgotten, or waits for DRQ.
AtaWaitBusyNot ==
  /\ io.at = "busy"
  /\ io' = [io EXCEPT !.buf = Tail(@), !.lba = @ + 1, !.count = @ - 1, !.at = "command"]
  /\ UNCHANGED <<medium, drive, sector_count, registered, call, offset>>
AtaWaitBusyForData ==
  /\ io.at = "busy" /\ ~Is("BSY") /\ Is("DRQ")
  /\ io' = [io EXCEPT !.buf = Tail(@), !.lba = @ + 1, !.count = @ - 1, !.at = "command"]
  /\ UNCHANGED <<medium, drive, sector_count, registered, call, offset>>

AtaWaitBusy ==
  /\ io.at = "busy" /\ ~Is("BSY") /\ ~Is("ERR") /\ ~Is("DF")
  /\ io' = [io EXCEPT !.buf = Tail(@), !.lba = @ + 1, !.count = @ - 1, !.at = "command"]
  /\ UNCHANGED <<medium, drive, sector_count, registered, call, offset>>

-----------------------------------------------------------------------------
(***************************************************************************)
(* Boot: ata_init() asks the drive for its size and registers it.          *)
(***************************************************************************)

NoCall == [at |-> "none"]

\* An empty bus reads as status 0, and kernel_main() panics without hda.
AtaInit ==
  /\ call.at = "boot" /\ io = NoIo
  /\ \/ OutCommand("IDENTIFY", 0) /\ io' = [cmd |-> "IDENTIFY", at |-> "ready"]
     \/ UNCHANGED drive /\ io' = [cmd |-> "IDENTIFY", at |-> "failed"]
  /\ UNCHANGED <<medium, sector_count, registered, call, offset>>

AtaRegisters ==
  /\ call.at = "boot" /\ io.at = "ready" /\ ~Is("BSY") /\ Is("DRQ")
  /\ drive' = [drive EXCEPT !.status = {}]
  /\ sector_count' = Capacity
  /\ registered' = (Capacity > 0)
  /\ call' = NoCall /\ io' = NoIo
  /\ UNCHANGED <<medium, offset>>

-----------------------------------------------------------------------------
(***************************************************************************)
(* The block layer: reads and writes of /dev/hda.                          *)
(***************************************************************************)

Called(op, count, buf) ==
  [op |-> op, lba |-> offset \div SectorSize, offset_in_sector |-> offset % SectorSize,
   count |-> count, buf |-> buf, total |-> 0, at |-> "loop", from |-> offset, before |-> medium]

\* blk_get_vnode() is given hda, and the file starts at 0.
BlkOpen ==
  /\ call = NoCall /\ registered
  /\ offset' = 0
  /\ UNCHANGED <<medium, drive, sector_count, registered, io, call>>

BlkVnodeRead(count) ==
  /\ call = NoCall /\ registered
  /\ call' = Called("read", count, <<>>)
  /\ UNCHANGED <<medium, drive, sector_count, registered, io, offset>>

BlkVnodeWrite(buf) ==
  /\ call = NoCall /\ registered
  /\ call' = Called("write", Len(buf), buf)
  /\ UNCHANGED <<medium, drive, sector_count, registered, io, offset>>

More == call.count > 0 /\ call.lba < sector_count
ToCopy(c) ==
  LET room == SectorSize - c.offset_in_sector
  IN IF room > c.count THEN c.count ELSE room

\* Mutant: a short last sector is written without being read first.
PartialAtStart == call.offset_in_sector > 0

Partial == call.offset_in_sector > 0 \/ call.count < SectorSize

\* bounce[] with the bytes to write copied over it.
Bounce(sector) ==
  [b \in 0..SectorSize - 1 |->
     IF b \in call.offset_in_sector..call.offset_in_sector + ToCopy(call) - 1
     THEN call.buf[call.total + b - call.offset_in_sector + 1] ELSE sector[b]]

\* Mutant: the next sector is entered where the first one was.
AdvanceSameOffset(buf) ==
  /\ offset' = offset + ToCopy(call)
  /\ call' = [call EXCEPT !.buf = buf, !.total = @ + ToCopy(call), !.count = @ - ToCopy(call),
                          !.lba = @ + 1, !.at = "loop"]
  /\ io' = NoIo
  /\ UNCHANGED <<medium, drive, sector_count, registered>>

\* The tail of either loop: one sector is done.
Advance(buf) ==
  /\ offset' = offset + ToCopy(call)
  /\ call' = [call EXCEPT !.buf = buf, !.total = @ + ToCopy(call), !.count = @ - ToCopy(call),
                          !.lba = @ + 1, !.offset_in_sector = 0, !.at = "loop"]
  /\ io' = NoIo
  /\ UNCHANGED <<medium, drive, sector_count, registered>>

BlkLoop ==
  /\ call.at = "loop"
  /\ \/ /\ ~More
        /\ call' = [call EXCEPT !.at = "return"]
        /\ UNCHANGED io
     \/ /\ More /\ (call.op = "read" \/ Partial)
        /\ call' = [call EXCEPT !.at = "read"]
        /\ io' = ReadSectors(call.lba, 1)
     \/ /\ More /\ call.op = "write" /\ ~Partial
        /\ call' = [call EXCEPT !.at = "write"]
        /\ io' = WriteSectors(call.lba, <<Bounce([b \in 0..SectorSize - 1 |-> Junk])>>)
  /\ UNCHANGED <<medium, drive, sector_count, registered, offset>>

BlkCopies ==
  /\ call.at = "read" /\ call.op = "read" /\ io.at = "ok"
  /\ Advance(call.buf \o [k \in 1..ToCopy(call) |-> io.buf[1][call.offset_in_sector + k - 1]])

BlkFills ==
  /\ call.at = "read" /\ call.op = "write" /\ io.at = "ok"
  /\ call' = [call EXCEPT !.at = "write"]
  /\ io' = WriteSectors(call.lba, <<Bounce(io.buf[1])>>)
  /\ UNCHANGED <<medium, drive, sector_count, registered, offset>>

BlkWritten ==
  /\ call.at = "write" /\ io.at = "ok"
  /\ Advance(call.buf)

BlkBreaks ==
  /\ call.at \in {"read", "write"} /\ io.at = "failed"
  /\ call' = [call EXCEPT !.at = "return"]
  /\ UNCHANGED <<medium, drive, sector_count, registered, io, offset>>

-----------------------------------------------------------------------------
(***************************************************************************)
(* KFS reads runs of sectors and writes single ones.                       *)
(***************************************************************************)

KfsReads(lba, n) ==
  /\ call = NoCall /\ registered
  /\ call' = [op |-> "sectors", at |-> "sectors", lba |-> lba, before |-> medium]
  /\ io' = ReadSectors(lba, n)
  /\ UNCHANGED <<medium, drive, sector_count, registered, offset>>

KfsWrites(lba, sector) ==
  /\ call = NoCall /\ registered
  /\ call' = [op |-> "sectors", at |-> "sectors", lba |-> lba, before |-> medium,
              sector |-> sector]
  /\ io' = WriteSectors(lba, <<sector>>)
  /\ UNCHANGED <<medium, drive, sector_count, registered, offset>>

Returns ==
  /\ call # NoCall
  /\ \/ call.at = "return"
     \/ call.at = "sectors" /\ io.at \in {"ok", "failed"}
  /\ call' = NoCall /\ io' = NoIo
  /\ UNCHANGED <<medium, drive, sector_count, registered, offset>>

-----------------------------------------------------------------------------
Init ==
  /\ medium \in [Sector -> {[b \in 0..SectorSize - 1 |-> v] : v \in Byte}]
  /\ drive = [status |-> {}, cmd |-> "none", regs |-> LbaRegisters(0), data |-> NoData]
  /\ sector_count = 0 /\ registered = FALSE
  /\ io = NoIo /\ call = [at |-> "boot"]
  /\ offset = 0

Driver ==
  \/ AtaInit \/ AtaRegisters
  \/ AtaCommand \/ AtaFails \/ AtaReads \/ AtaWrites \/ AtaWaitBusy
  \/ BlkLoop \/ BlkCopies \/ BlkFills \/ BlkWritten \/ BlkBreaks \/ Returns

Drive == DriveAnswers \/ DriveStores

Calls ==
  \/ BlkOpen
  \/ \E count \in Reads : BlkVnodeRead(count)
  \/ \E buf \in Writes : BlkVnodeWrite(buf)
  \/ \E lba \in Sector :
       \/ \E n \in Runs : KfsReads(lba, n)
       \/ \E v \in Byte : KfsWrites(lba, [b \in 0..SectorSize - 1 |-> v])

Next == Driver \/ Drive \/ Calls

\* The driver runs, and the drive answers every command in the end: the driver polls
\* without a limit, so a drive that never answers stops the machine.
Spec == Init /\ [][Next]_vars /\ WF_vars(Driver) /\ WF_vars(Drive)

-----------------------------------------------------------------------------
Failed == io.at = "failed"
Min2(a, b) == IF a < b THEN a ELSE b

\* How much a call moves when nothing fails: what was asked for, up to the end of the disk.
Moves(n) == Min2(n, Capacity * SectorSize - call.from)

\* A write of /dev/hda that returns n bytes written has put exactly those n bytes on
\* the disk and has moved the file offset by n.  No other byte has changed, although
\* whole sectors are read and written back; only when the drive reported an error may
\* bytes of the sector that failed be new, and only then, or at the end of the disk,
\* is n less than what was asked for.  A sector KFS writes changes nothing else either.
WriteIsExact ==
  /\ call.at = "return" /\ call.op = "write" =>
       LET end == call.from + call.total IN
       /\ offset = end
       /\ ~Failed => call.total = Moves(Len(call.buf))
       /\ \A a \in Address :
            LET new == call.buf[a - call.from + 1]
                old == ByteAt(call.before, a)
            IN ByteAt(medium, a) \in
                 IF a \in call.from..end - 1 THEN {new}
                 ELSE IF Failed /\ a \in end..call.from + Len(call.buf) - 1
                              /\ a \div SectorSize = end \div SectorSize
                      THEN {old, new} ELSE {old}
  /\ io.at \in {"ok", "failed"} /\ call.at = "sectors" /\ io.cmd = "WRITE" =>
       LET stored == [call.before EXCEPT ![call.lba] = call.sector]
       IN medium \in IF Failed THEN {call.before, stored} ELSE {stored}

\* A read returns the bytes of the disk at the file offset, in order across sectors,
\* moves the offset by as many, and returns fewer than asked for only after an error or
\* at the end of the disk; a run of sectors read by KFS is complete when it succeeds.
ReadIsExact ==
  /\ call.at = "return" /\ call.op = "read" =>
       /\ offset = call.from + call.total /\ Len(call.buf) = call.total
       /\ ~Failed => call.total = Moves(call.total + call.count)
       /\ \A k \in 1..call.total : call.buf[k] = ByteAt(medium, call.from + k - 1)
  /\ io.at = "ok" /\ call.at = "sectors" /\ io.cmd = "READ" =>
       io.buf = Sectors(medium, call.lba, io.lba)

\* The driver never writes a command while the drive is still busy with the last one or
\* waits to transfer its data, whatever path an error took out of the loops before.
\* This is about drives whose status register is up to date when it is read.
CommandsMeetIdleDrive == io.at = "command" => ~Is("BSY") /\ ~Is("DRQ")

\* Every call returns, if the drive answers: no error or status bit leaves one of the
\* unbounded polling loops waiting for something that will not come.
\* At boot it may instead find no usable drive.
CallReturns == (call.at # "none") ~> (call.at = "none" \/ (call.at = "boot" /\ Failed))

-----------------------------------------------------------------------------
(***************************************************************************)
(* The inductive invariant behind the three invariants.                    *)
(***************************************************************************)

Media == [Sector -> Content]

Controllers ==
  [status : {{}, {"BSY"}, {"DRQ"}, {"ERR"}, {"DF"}}, cmd : {"none", "IDENTIFY", "READ", "WRITE"},
   regs : {LbaRegisters(l) : l \in 0..Capacity}, data : {NoData} \cup Content]

Identifies == [cmd : {"IDENTIFY"}, at : {"ready", "failed"}]

Transfers ==
  [cmd : {"READ", "WRITE"}, lba : 0..Capacity, count : Nat, buf : Seq(Content),
   at : {"command", "ready", "busy", "ok", "failed"}]

BlkCalls ==
  [op : {"read", "write"}, lba : Nat, offset_in_sector : 0..SectorSize - 1, count : Nat,
   buf : Seq(Byte), total : Nat, at : {"loop", "read", "write", "return"}, from : Nat,
   before : Media]

KfsReadCalls == [op : {"sectors"}, at : {"sectors"}, lba : Sector, before : Media]

KfsWriteCalls ==
  [op : {"sectors"}, at : {"sectors"}, lba : Sector, before : Media, sector : Content]

TypeOK ==
  /\ medium \in Media /\ drive \in Controllers
  /\ io \in {NoIo} \cup Identifies \cup Transfers
  /\ call \in {NoCall, [at |-> "boot"]} \cup BlkCalls \cup KfsReadCalls \cup KfsWriteCalls
  /\ offset \in 0..Capacity * SectorSize
  /\ sector_count = IF call.at = "boot" THEN 0 ELSE Capacity

\* Which transfer belongs to which call.
IoOfCall ==
  /\ call.at = "boot" => io \in {NoIo} \cup Identifies
  /\ call.at \in {"none", "loop"} => io = NoIo
  /\ call.at = "read" => io \in Transfers /\ io.cmd = "READ" /\ io.lba + io.count = call.lba + 1
  /\ call.at = "write" => io \in Transfers /\ io.cmd = "WRITE" /\ call.op = "write"
  /\ call.at = "return" => io = NoIo \/ (io \in Transfers /\ io.at = "failed")
  /\ call.at = "sectors" => io \in Transfers /\ (io.cmd = "WRITE" => call \in KfsWriteCalls)

\* What the drive is doing at each place of the driver.
DriveOK ==
  /\ io.at \in {"none", "command", "ok", "failed"} =>
       ~Is("BSY") /\ ~Is("DRQ") /\ drive.data = NoData
  /\ io.at = "ready" => drive.status # {} /\ drive.data = NoData /\ drive.cmd = io.cmd
  /\ io.at = "busy" => io.cmd = "WRITE" /\ ~Is("DRQ") /\ (Is("BSY") <=> drive.data # NoData)
  /\ io \in Transfers /\ io.at \in {"ready", "busy"} =>
       /\ drive.regs = LbaRegisters(io.lba) /\ io.count > 0
       /\ Is("DRQ") \/ io.at = "busy" => io.lba \in Sector
  /\ io.at = "ok" => io.count = 0

\* The call has come to where the file offset is; it stops at the end of the disk.
PlaceOK ==
  call \in BlkCalls =>
    /\ offset = call.from + call.total
    /\ call.count > 0 => offset = call.lba * SectorSize + call.offset_in_sector
    /\ call.op = "write" => call.total + call.count = Len(call.buf)
    /\ call.at \in {"read", "write"} \/ Failed => More
    /\ call.at = "return" /\ ~Failed => ~More

\* What has been read: the bytes of the file, and the sectors of the transfer.
CallReads ==
  call \in BlkCalls /\ call.op = "read" =>
    /\ Len(call.buf) = call.total
    /\ \A k \in 1..call.total : call.buf[k] = ByteAt(medium, call.from + k - 1)

IoReads ==
  call.at \in {"read", "sectors"} /\ io.cmd = "READ" =>
    /\ call.lba <= io.lba
    /\ io.buf = Sectors(medium, call.lba, io.lba)

\* On disk m the first n bytes of write c are there, and nothing else is new.
Written(c, m, n) ==
  \A a \in Address :
    ByteAt(m, a) = IF a \in c.from..c.from + n - 1 THEN c.buf[a - c.from + 1]
                   ELSE ByteAt(c.before, a)

\* The disk before and after the sector in transfer is stored.
Old(c, m) == IF c.at = "sectors" THEN m = c.before ELSE Written(c, m, c.total)

New(c, m) ==
  IF c.at = "sectors" THEN m = [c.before EXCEPT ![c.lba] = c.sector]
  ELSE Written(c, m, c.total + ToCopy(c))

\* What has been written, by the calls for bytes and by the transfer of a sector, which
\* is still to be stored, has been stored, or may have been.
CallWrites ==
  call \in BlkCalls /\ call.op = "write" =>
    /\ call.at \in {"loop", "read"} => Old(call, medium)
    /\ call.at = "return" => Old(call, medium) \/ (Failed /\ New(call, medium))

Storing ==
  \/ io.at \in {"command", "ready"} /\ io.count > 0
  \/ io.at = "busy" /\ Is("BSY")

IoWrites ==
  call.at \in {"write", "sectors"} /\ io.cmd = "WRITE" =>
    /\ Storing \/ io.at = "busy" => io.count = 1 /\ Len(io.buf) = 1 /\ io.lba = call.lba
    /\ Storing => Old(call, medium) /\ New(call, [medium EXCEPT ![io.lba] = io.buf[1]])
    /\ io.at = "busy" /\ Is("BSY") => drive.data = io.buf[1]
    /\ io.at = "busy" /\ drive.status = {} => New(call, medium)
    /\ io.at \in {"command", "ok"} /\ io.count = 0 => New(call, medium)
    /\ ~Storing => Old(call, medium) \/ New(call, medium)

IInv ==
  /\ TypeOK /\ IoOfCall /\ DriveOK /\ PlaceOK
  /\ CallReads /\ IoReads /\ CallWrites /\ IoWrites
=============================================================================
