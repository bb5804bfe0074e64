-------------------------------- MODULE KFS --------------------------------
(***************************************************************************)
(* The on-disk file system (kernel/fs/kfs.c), the path walk above it       *)
(* (kernel/fs/vfs.c) and the system calls on files (kernel/syscall).       *)
(*                                                                         *)
(* A system call runs with interrupts disabled and the ATA driver polls,   *)
(* so each call is one atomic step, unless the machine crashes in it: the  *)
(* call keeps the images that its writes put on the disk one after the     *)
(* other, and a crash leaves one of them.  The bitmaps cached in memory    *)
(* are written through on every change, so the disk and the cache agree.   *)
(*                                                                         *)
(* Sizes and offsets count units.  A unit of a block holds one byte of a   *)
(* file, a piece of a directory entry, or one block pointer.  Entries all  *)
(* have the same reclen, which need not divide the size of a block, so     *)
(* they straddle blocks.  The first piece has the inode, the reclen, the   *)
(* type and the start of the name.  kmalloc() and the disk are taken not   *)
(* to fail, except that kmalloc(0) is NULL.                                *)
(***************************************************************************)
EXTENDS Integers, Sequences, SequencesExt

CONSTANTS
  InodeCount,  \* sb->inode_count
  DataBlocks,  \* blocks 1..DataBlocks are the data area; 0 is the null pointer
  BlockUnits,  \* KFS_BLOCK_SIZE, in units
  EntryUnits,  \* the reclen of a directory entry, in units
  NDirect,     \* direct pointers of an inode
  NIndirect,   \* pointers in a block
  Fds,         \* descriptors sys_open() hands out
  Installed,   \* the name of the file mkfs_kfs.py installs
  Paths,       \* paths programs use: sequences of names
  OpenCalls,   \* what programs pass to open(): pairs of a path and a set of O_ flags
  Values,      \* bytes programs write
  Counts,      \* counts programs pass to read() and write()
  Crashes      \* whether the machine may crash

ASSUME GeometryAssumption ==
  /\ {InodeCount, DataBlocks, EntryUnits, NDirect, NIndirect} \subseteq Nat \ {0}
  /\ BlockUnits \in Nat /\ 2 * EntryUnits <= BlockUnits  \* "." and ".." share a block
  /\ Fds \subseteq Nat
  /\ Counts \subseteq Nat \ {0}
  /\ Crashes \in BOOLEAN

Ino == 0..InodeCount - 1
RootInode == 0
Block == 1..DataBlocks
MaxUnits == (NDirect + NIndirect) * BlockUnits

VARIABLES
  fs,          \* the disk: the two bitmaps, the inode table, the data blocks
  fd_table,    \* fd -> struct file, or NoFile
  got,         \* what the last call returned, if it was a read of a file
  dir_written, \* history: a program has written to a directory, or truncated one
  cut,         \* history: on a full disk an entry was written in part
  torn         \* history: whether a crash has hit a call that takes something away,
               \* and whether blocks have been allocated since

history == <<dir_written, cut, torn>>
vars == <<fs, fd_table, got, history>>

Unit == 0..BlockUnits - 1
Zero == <<"zero">>
BlockOf(cells) == [u \in Unit |-> IF u < Len(cells) THEN cells[u + 1] ELSE Zero]
ZeroBlock == BlockOf(<<>>)
Byte(v) == <<"byte", v>>
Dirent(name, ino, type) == [k \in 1..EntryUnits |-> <<"dirent", name, ino, type, k>>]
PointerTo(b) == <<"pointer", b>>
Pointer(cell) == IF cell[1] = "pointer" THEN cell[2] ELSE 0

NewInode(type) ==
  [type |-> type, size |-> 0, direct |-> [i \in 0..NDirect - 1 |-> 0], indirect |-> 0]

NoFile == [ino |-> -1]
Open(fd) == fd_table[fd] # NoFile

\* What a read that fails returns.
NoData == <<<<"enoent">>>>

\* What a call returns: an error, the file system it leaves, and a value.
Ok(f, v) == [err |-> "OK", fs |-> f, val |-> v]
Fail(f, e) == [err |-> e, fs |-> f, val |-> 0]

-----------------------------------------------------------------------------
(***************************************************************************)
(* Blocks and inodes.                                                      *)
(***************************************************************************)

Least(S) == CHOOSE x \in S : \A y \in S : x <= y

\* A sector has been written: from here on a crash leaves at least this.
Wrote(f) == IF Crashes THEN [f EXCEPT !.past = @ \cup {[f EXCEPT !.past = {}]}] ELSE f

\* kfs_read_inode() finds ino allocated; if not, it returns -ENOENT.
KfsReadInode(f, ino) == ino \in f.inode_bitmap

KfsWriteInode(f, ino, inode) == Wrote([f EXCEPT !.inodes[ino] = inode])

FreeInodes(f) == (Ino \ {RootInode}) \ f.inode_bitmap

KfsAllocInode(f, type) ==
  LET Marked(i) == Wrote([f EXCEPT !.inode_bitmap = @ \cup {i}])
      Take(i) == Ok(KfsWriteInode(Marked(i), i, NewInode(type)), i)
  IN IF FreeInodes(f) = {} THEN Fail(f, "ENOSPC") ELSE Take(Least(FreeInodes(f)))

KfsFreeInode(f, ino) == Wrote([f EXCEPT !.inode_bitmap = @ \ {ino}])

FreeBlocks(f) == Block \ f.block_bitmap

\* Mutant of KfsAllocBlock: the block is not marked.
KfsAllocBlockUnmarked(f) ==
  LET Take(b) == Ok(Wrote([f EXCEPT !.disk[b] = ZeroBlock]), b)
  IN IF FreeBlocks(f) = {} THEN Fail(f, "ENOSPC") ELSE Take(Least(FreeBlocks(f)))

\* Mutant of KfsAllocBlock: the block is not cleared.
KfsAllocBlockDirty(f) ==
  LET Take(b) == Ok([f EXCEPT !.block_bitmap = @ \cup {b}], b)
  IN IF FreeBlocks(f) = {} THEN Fail(f, "ENOSPC") ELSE Take(Least(FreeBlocks(f)))

KfsAllocBlock(f) ==
  LET Marked(b) == Wrote([f EXCEPT !.block_bitmap = @ \cup {b}])
      Take(b) == Ok(Wrote([Marked(b) EXCEPT !.disk[b] = ZeroBlock]), b)
  IN IF FreeBlocks(f) = {} THEN Fail(f, "ENOSPC") ELSE Take(Least(FreeBlocks(f)))

KfsFreeBlock(f, b) == IF b = 0 THEN f ELSE Wrote([f EXCEPT !.block_bitmap = @ \ {b}])

\* The block of logical block l, or 0.
KfsMapBlock(f, inode, l) ==
  IF l < NDirect THEN inode.direct[l]
  ELSE IF inode.indirect = 0 \/ l - NDirect >= NIndirect THEN 0
  ELSE Pointer(f.disk[inode.indirect][l - NDirect])

\* The same for a writer: the block is allocated if need be.  The inode is the
\* caller's copy, which is why it is part of the answer.
KfsMapOrAllocBlock(f, inode, l) ==
  LET Mapped(g, in, b) == [err |-> "OK", fs |-> g, inode |-> in, blk |-> b]
      Unmapped(g, in, e) == [err |-> e, fs |-> g, inode |-> in, blk |-> 0]
      Direct(new) ==
        IF new.err # "OK" THEN Unmapped(f, inode, new.err)
        ELSE Mapped(new.fs, [inode EXCEPT !.direct[l] = new.val], new.val)
      Leaf(in, table, new) ==
        IF new.err # "OK" THEN Unmapped(new.fs, in, new.err)
        ELSE Mapped(Wrote([new.fs EXCEPT !.disk[table][l - NDirect] = PointerTo(new.val)]),
                    in, new.val)
      Indirect(table) ==
        IF table.err # "OK" THEN Unmapped(f, inode, table.err)
        ELSE Leaf([inode EXCEPT !.indirect = table.val], table.val, KfsAllocBlock(table.fs))
  IN IF l - NDirect >= NIndirect THEN Unmapped(f, inode, "EFBIG")
     ELSE IF KfsMapBlock(f, inode, l) # 0 THEN Mapped(f, inode, KfsMapBlock(f, inode, l))
     ELSE IF l < NDirect THEN Direct(KfsAllocBlock(f))
     ELSE Indirect(IF inode.indirect # 0 THEN Ok(f, inode.indirect) ELSE KfsAllocBlock(f))

\* Every pointer of an inode, in the order in which its blocks are freed; the
\* table of indirect pointers comes last.
PointersOf(f, inode) ==
  Append([k \in 1..NDirect + NIndirect |-> KfsMapBlock(f, inode, k - 1)], inode.indirect)

BlocksOf(f, inode) == Range(PointersOf(f, inode)) \ {0}

\* Mutant of KfsFreeInodeBlocks: the indirect blocks are forgotten.
KfsFreeInodeBlocksDirect(f, inode) ==
  FoldLeft(KfsFreeBlock, f, SubSeq(PointersOf(f, inode), 1, NDirect))

KfsFreeInodeBlocks(f, inode) == FoldLeft(KfsFreeBlock, f, PointersOf(f, inode))

-----------------------------------------------------------------------------
(***************************************************************************)
(* Reading and writing, unit by unit.  Only the first unit of a block can  *)
(* find it missing, so an error falls where the loop over chunks has it.   *)
(***************************************************************************)

\* A read stops with -ENOENT at a block that was never written.
KfsVnodeRead(f, ino, offset, count) ==
  LET inode == f.inodes[ino]
      last == IF offset + count > inode.size THEN inode.size ELSE offset + count
      Cell(u) == f.disk[KfsMapBlock(f, inode, u \div BlockUnits)][u % BlockUnits]
      UpTo(stop, e) == [err |-> e, cells |-> [k \in 1..stop - offset |-> Cell(offset + k - 1)],
                        offset |-> stop]
      Until(missing) == IF missing = {} THEN UpTo(last, "OK") ELSE UpTo(Least(missing), "ENOENT")
  IN IF ~KfsReadInode(f, ino) THEN UpTo(offset, "ENOENT")
     ELSE IF offset >= inode.size THEN UpTo(offset, "OK")
     ELSE Until({u \in offset..last - 1 : KfsMapBlock(f, inode, u \div BlockUnits) = 0})

\* One unit of a write: cell goes to w.offset.  A sector reaches the disk with the
\* last unit of a chunk.
WriteUnit(w, cell) ==
  LET Filled(f) == IF (w.offset + 1) % BlockUnits = 0 THEN Wrote(f) ELSE f
      Put(m) ==
        IF m.err # "OK" THEN [w EXCEPT !.err = m.err, !.fs = m.fs, !.inode = m.inode]
        ELSE [err |-> "OK",
              fs |-> Filled([m.fs EXCEPT !.disk[m.blk][w.offset % BlockUnits] = cell]),
              inode |-> [m.inode EXCEPT !.size = IF w.offset < @ THEN @ ELSE w.offset + 1],
              offset |-> w.offset + 1]
  IN IF w.err # "OK" THEN w
     ELSE Put(KfsMapOrAllocBlock(w.fs, w.inode, w.offset \div BlockUnits))

\* Mutant of KfsVnodeWrite: the size reaches the disk before the data does.
KfsVnodeWriteSizeFirst(f, ino, offset, cells) ==
  LET inode == [f.inodes[ino] EXCEPT !.size = IF offset + Len(cells) < @ THEN @
                                              ELSE offset + Len(cells)]
      w[k \in 0..Len(cells)] ==
        IF k = 0 THEN [err |-> "OK", fs |-> KfsWriteInode(f, ino, inode), inode |-> inode, offset |-> offset]
        ELSE WriteUnit(w[k - 1], cells[k])
      end == w[Len(cells)]
  IN IF ~KfsReadInode(f, ino) \/ end.err # "OK" THEN [err |-> "ENOENT", fs |-> f, offset |-> offset]
     ELSE [err |-> "OK", fs |-> KfsWriteInode(Wrote(end.fs), ino, end.inode), offset |-> end.offset]

\* A write that fails before its first unit returns without writing the inode;
\* one that fails later writes the inode and reports what it wrote.
KfsVnodeWrite(f, ino, offset, cells) ==
  LET w[k \in 0..Len(cells)] ==
        IF k = 0 THEN [err |-> "OK", fs |-> f, inode |-> f.inodes[ino], offset |-> offset]
        ELSE WriteUnit(w[k - 1], cells[k])
      Done(end) ==
        IF end.offset = offset THEN [err |-> end.err, fs |-> end.fs, offset |-> offset]
        ELSE [err |-> "OK", fs |-> KfsWriteInode(Wrote(end.fs), ino, end.inode),
              offset |-> end.offset]
  IN IF ~KfsReadInode(f, ino) THEN [err |-> "ENOENT", fs |-> f, offset |-> offset]
     ELSE Done(w[Len(cells)])

\* Mutant of KfsVnodeTruncate: the pointers stay.
KfsVnodeTruncateKeepsPointers(f, ino) ==
  IF ~KfsReadInode(f, ino) THEN Fail(f, "ENOENT")
  ELSE Ok(KfsWriteInode(KfsFreeInodeBlocks(f, f.inodes[ino]), ino,
                        [f.inodes[ino] EXCEPT !.size = 0]), 0)

KfsVnodeTruncate(f, ino) ==
  IF ~KfsReadInode(f, ino) THEN Fail(f, "ENOENT")
  ELSE Ok(KfsWriteInode(KfsFreeInodeBlocks(f, f.inodes[ino]), ino,
                        NewInode(f.inodes[ino].type)), 0)

-----------------------------------------------------------------------------
(***************************************************************************)
(* Directories.  A scan goes from entry to entry by reclen and ends where  *)
(* no entry begins.  Of an entry that was cut off the scan compares the    *)
(* name with whatever follows it in memory: fs.behind says whether that    *)
(* completes the name.                                                     *)
(***************************************************************************)

IsDir(f, ino) == KfsReadInode(f, ino) /\ f.inodes[ino].type = "DIR"

DirData(f, ino) == KfsVnodeRead(f, ino, 0, f.inodes[ino].size).cells

\* In the directory data d an entry begins at offset o, and is all there.
Begins(d, o) == o < Len(d) /\ d[o + 1][1] = "dirent" /\ d[o + 1][5] = 1
Whole(d, o) ==
  /\ Begins(d, o) /\ o + EntryUnits <= Len(d)
  /\ SubSeq(d, o + 1, o + EntryUnits) = Dirent(d[o + 1][2], d[o + 1][3], d[o + 1][4])

\* The offsets a scan of d comes by.
Scanned(d) ==
  {o \in 0..Len(d) - 1 :
     /\ o % EntryUnits = 0
     /\ \A p \in 0..o : p % EntryUnits = 0 => Begins(d, p)}

\* Read directory dir and search it for name.
FindEntry(f, dir, name) ==
  LET Hits(d) == {o \in Scanned(d) : d[o + 1][2] = name /\ (Whole(d, o) \/ f.behind)}
      Entry(d, o) == Ok(f, [pos |-> o, ino |-> d[o + 1][3], type |-> d[o + 1][4]])
      Search(read) ==
        IF read.err # "OK" THEN Fail(f, read.err)
        ELSE IF Hits(read.cells) = {} THEN Fail(f, "ENOENT")
        ELSE Entry(read.cells, Least(Hits(read.cells)))
  IN Search(KfsVnodeRead(f, dir, 0, f.inodes[dir].size))

KfsVnodeLookup(f, ino, name) ==
  IF ~KfsReadInode(f, ino) THEN Fail(f, "ENOENT")
  ELSE IF f.inodes[ino].type # "DIR" THEN Fail(f, "ENOTDIR")
  ELSE IF name = "." \/ (ino = RootInode /\ name = "..") THEN Ok(f, [ino |-> ino, type |-> "DIR"])
  ELSE IF f.inodes[ino].size = 0 THEN Fail(f, "ENOMEM")
  ELSE FindEntry(f, ino, name)

\* The entry at offset pos goes.  Trailing blocks are freed first, and the table of
\* indirect pointers with the last of those it points to; then what is behind moves
\* up, block by block.
KfsRemoveDirent(f, dir, pos) ==
  LET inode == f.inodes[dir]
      BlocksFor(n) == (n + BlockUnits - 1) \div BlockUnits
      old == BlocksFor(inode.size)
      new == BlocksFor(inode.size - EntryUnits)
      Drop(g, l) ==
        LET freed == KfsFreeBlock(g, KfsMapBlock(g, inode, l))
        IN IF l < NDirect \/ inode.indirect = 0 THEN freed
           ELSE Wrote([freed EXCEPT !.disk[inode.indirect][l - NDirect] = Zero])
      table == IF new <= NDirect THEN 0 ELSE inode.indirect
      dropped == KfsFreeBlock(FoldLeft(Drop, f, [n \in 1..old - new |-> new + n - 1]),
                              IF table = 0 THEN inode.indirect ELSE 0)
      Compacted(d) ==
        LET Moved(l) == [u \in Unit |-> IF l * BlockUnits + u < Len(d)
                                         THEN d[l * BlockUnits + u + 1] ELSE Zero]
            Move(g, l) == Wrote([g EXCEPT !.disk[KfsMapBlock(f, inode, l)] = Moved(l)])
        IN FoldLeft(Move, dropped, [n \in 1..new |-> n - 1])
  IN KfsWriteInode(Compacted(SubSeq(DirData(f, dir), 1, pos)
                             \o SubSeq(DirData(f, dir), pos + EntryUnits + 1, inode.size)), dir,
                   [inode EXCEPT !.size = @ - EntryUnits, !.indirect = table,
                                 !.direct = [l \in DOMAIN @ |-> IF l < new \/ l >= old THEN @[l] ELSE 0]])

\* unlink and rmdir once they have decided that the entry goes.  If the entry was cut
\* off at the end of the directory, the number of bytes behind it is negative as an
\* unsigned number, and memmove() runs into memory that is not mapped: the kernel
\* panics.
Removed(f, dir, entry) ==
  LET emptied == KfsWriteInode(KfsFreeInodeBlocks(f, f.inodes[entry.ino]), entry.ino, NewInode("FREE"))
      freed == KfsFreeInode(emptied, entry.ino)
  IN IF entry.pos + EntryUnits > f.inodes[dir].size THEN Fail(freed, "PANIC")
     ELSE Ok(KfsRemoveDirent(freed, dir, entry.pos), entry)

KfsVnodeUnlink(f, dir, name) ==
  LET Target(e) ==
        IF e.err # "OK" THEN e
        ELSE IF ~KfsReadInode(f, e.val.ino) THEN Fail(f, "ENOENT")
        ELSE IF f.inodes[e.val.ino].type = "DIR" THEN Fail(f, "EISDIR")
        ELSE Removed(f, dir, e.val)
  IN IF ~KfsReadInode(f, dir) THEN Fail(f, "ENOENT")
     ELSE IF f.inodes[dir].type # "DIR" THEN Fail(f, "ENOTDIR")
     ELSE Target(FindEntry(f, dir, name))

Dots == {".", ".."}

\* Mutant of EmptyDir: only the first entries are looked at.
EmptyDirDots(d) == \A o \in Scanned(d) : o < 2 * EntryUnits => d[o + 1][2] \in Dots

\* The scan meets no entry but "." and "..".
EmptyDir(d) == \A o \in Scanned(d) : d[o + 1][2] \in Dots

KfsVnodeRmdir(f, dir, name) ==
  LET Emptied(entry, sub) ==
        IF sub.err # "OK" THEN Fail(f, sub.err)
        ELSE IF ~EmptyDir(sub.cells) THEN Fail(f, "ENOTEMPTY")
        ELSE Removed(f, dir, entry)
      Target(e) ==
        IF e.err # "OK" THEN e
        ELSE IF ~KfsReadInode(f, e.val.ino) THEN Fail(f, "ENOENT")
        ELSE IF f.inodes[e.val.ino].type # "DIR" THEN Fail(f, "ENOTDIR")
        ELSE Emptied(e.val, KfsVnodeRead(f, e.val.ino, 0, f.inodes[e.val.ino].size))
  IN IF ~KfsReadInode(f, dir) THEN Fail(f, "ENOENT")
     ELSE IF f.inodes[dir].type # "DIR" THEN Fail(f, "ENOTDIR")
     ELSE Target(FindEntry(f, dir, name))

\* A new directory ino under dir, in block b: "." and "..".
WithDots(f, ino, dir, b) ==
  LET dots == Dirent(".", ino, "DIR") \o Dirent("..", dir, "DIR")
  IN KfsWriteInode(Wrote([f EXCEPT !.disk[b] = BlockOf(dots)]), ino,
                   [NewInode("DIR") EXCEPT !.size = Len(dots), !.direct[0] = b])

\* A write of the entry that is cut short by a full disk counts as a success.
KfsVnodeCreate(f, dir, name, type) ==
  LET Undone(g, i) == KfsFreeInode(KfsFreeBlock(g, g.inodes[i].direct[0]), i)
      Entered(i, w) ==
        IF w.err # "OK" THEN Fail(Undone(w.fs, i), w.err) ELSE Ok(w.fs, [ino |-> i, type |-> type])
      Enter(g, i) ==
        Entered(i, KfsVnodeWrite(g, dir, g.inodes[dir].size, Dirent(name, i, type)))
      Furnish(i, b) ==
        IF b.err # "OK" THEN Fail(KfsFreeInode(i.fs, i.val), b.err)
        ELSE Enter(WithDots(b.fs, i.val, dir, b.val), i.val)
      Make(i) ==
        IF i.err # "OK" THEN Fail(f, i.err)
        ELSE IF type = "FILE" THEN Enter(i.fs, i.val)
        ELSE Furnish(i, KfsAllocBlock(i.fs))
      Unless(found) ==
        IF found.err # "OK" THEN Make(KfsAllocInode(f, type))
        ELSE IF type = "DIR" THEN Fail(f, "EEXIST") ELSE found
  IN IF ~KfsReadInode(f, dir) THEN Fail(f, "ENOENT")
     ELSE IF f.inodes[dir].type # "DIR" THEN Fail(f, "ENOTDIR")
     ELSE Unless(KfsVnodeLookup(f, dir, name))

-----------------------------------------------------------------------------
(***************************************************************************)
(* Paths.                                                                  *)
(***************************************************************************)

VfsResolvePath(f, path) ==
  LET Step(r, comp) ==
        IF r.err # "OK" \/ comp = "." THEN r
        ELSE IF r.val.type # "DIR" THEN Fail(f, "ENOTDIR")
        ELSE KfsVnodeLookup(f, r.val.ino, comp)
      at[k \in 0..Len(path)] ==
        IF k = 0 THEN Ok(f, [ino |-> RootInode, type |-> "DIR"])
        ELSE Step(at[k - 1], path[k])
  IN at[Len(path)]

\* The directory of the last component, as mkdir, unlink, rmdir and a creating
\* open() use it.
VfsResolveParent(f, path) ==
  LET Parent(r) ==
        IF r.err # "OK" THEN r
        ELSE IF r.val.type # "DIR" THEN Fail(f, "ENOTDIR")
        ELSE IF Last(path) \in Dots THEN Fail(f, "EINVAL")
        ELSE r
  IN IF path = <<>> THEN Fail(f, "EINVAL") ELSE Parent(VfsResolvePath(f, Front(path)))

Writable(flags) == flags \cap {"O_WRONLY", "O_RDWR"} # {}
Truncates(flags) == "O_TRUNC" \in flags /\ Writable(flags)

VfsOpen(f, path, flags) ==
  LET Created(p) ==
        IF p.err # "OK" THEN p ELSE KfsVnodeCreate(f, p.val.ino, Last(path), "FILE")
      Truncated(t, vn) == IF t.err # "OK" THEN t ELSE Ok(t.fs, vn)
      Resolved(r) ==
        IF r.err = "ENOENT" /\ "O_CREAT" \in flags THEN Created(VfsResolveParent(f, path))
        ELSE IF r.err # "OK" THEN r
        ELSE IF {"O_CREAT", "O_EXCL"} \subseteq flags THEN Fail(f, "EEXIST")
        ELSE IF Truncates(flags) THEN Truncated(KfsVnodeTruncate(f, r.val.ino), r.val)
        ELSE r
  IN Resolved(VfsResolvePath(f, path))

VfsMkdir(f, path) ==
  LET Under(p) ==
        IF p.err # "OK" THEN p
        ELSE IF KfsVnodeLookup(f, p.val.ino, Last(path)).err = "OK" THEN Fail(f, "EEXIST")
        ELSE KfsVnodeCreate(f, p.val.ino, Last(path), "DIR")
  IN Under(VfsResolveParent(f, path))

VfsUnlink(f, path) ==
  LET Under(p) == IF p.err # "OK" THEN p ELSE KfsVnodeUnlink(f, p.val.ino, Last(path))
  IN Under(VfsResolveParent(f, path))

VfsRmdir(f, path) ==
  LET Under(p) == IF p.err # "OK" THEN p ELSE KfsVnodeRmdir(f, p.val.ino, Last(path))
  IN Under(VfsResolveParent(f, path))

-----------------------------------------------------------------------------
(***************************************************************************)
(* The system calls.                                                       *)
(***************************************************************************)

\* The call returns, and the disk stays as it left it.
Returned(f) == [f EXCEPT !.past = {}, !.behind = FALSE]

\* The file system as a call finds it.  What lies in memory behind the data of a
\* directory matters only if an entry was cut off.
Found == {[fs EXCEPT !.behind = b] : b \in IF cut THEN BOOLEAN ELSE {FALSE}}

\* No room was left for all of an entry.
CutOff(f) ==
  \E i \in f.inode_bitmap :
    /\ f.inodes[i].type = "DIR" /\ f.inodes[i].size % EntryUnits # 0
    /\ f.block_bitmap = Block \/ f.inodes[i].size = MaxUnits

\* The history variables after a change of fs, in which a crash has hit a call that
\* takes something away, or has not.
Remember(hit) ==
  /\ cut' = (cut \/ CutOff(fs'))
  /\ torn' = IF torn = "no" THEN IF hit THEN "torn" ELSE "no"
             ELSE IF fs'.block_bitmap \subseteq fs.block_bitmap THEN torn ELSE "reused"

NoFiles == [fd \in Fds |-> NoFile]
FreeFds == {fd \in Fds : ~Open(fd)}

SysOpen(path, flags) ==
  /\ FreeFds # {}
  /\ \E f \in Found : \E r \in {VfsOpen(f, path, flags)} :
       /\ fs' = Returned(r.fs)
       /\ fd_table' = IF r.err # "OK" THEN fd_table
                      ELSE [fd_table EXCEPT ![Least(FreeFds)] =
                              [ino |-> r.val.ino, type |-> r.val.type,
                               offset |-> 0, writable |-> Writable(flags),
                               append |-> "O_APPEND" \in flags]]
       /\ dir_written' = (\/ dir_written
                          \/ r.err = "OK" /\ r.val.type = "DIR" /\ Truncates(flags))
  /\ got' = <<>>
  /\ Remember(FALSE)

\* A read that fails halfway has moved the offset.
SysRead(fd, count) ==
  /\ Open(fd)
  /\ \E r \in {KfsVnodeRead(fs, fd_table[fd].ino, fd_table[fd].offset, count)} :
       /\ fd_table' = [fd_table EXCEPT ![fd].offset = r.offset]
       /\ got' = IF r.err = "OK" THEN r.cells ELSE NoData
  /\ UNCHANGED <<fs, history>>

\* The write that write() makes, at the end of the file for O_APPEND.
VfsWrite(file, cells) ==
  LET append == file.append /\ KfsReadInode(fs, file.ino)
  IN KfsVnodeWrite(fs, file.ino, IF append THEN fs.inodes[file.ino].size ELSE file.offset, cells)

SysWrite(fd, cells) ==
  /\ Open(fd) /\ fd_table[fd].writable
  /\ \E w \in {VfsWrite(fd_table[fd], cells)} :
       /\ fs' = Returned(w.fs)
       /\ fd_table' = [fd_table EXCEPT ![fd].offset = w.offset]
  /\ got' = <<>>
  /\ dir_written' = (dir_written \/ IsDir(fs, fd_table[fd].ino))
  /\ Remember(FALSE)

SysClose(fd) ==
  /\ Open(fd)
  /\ fd_table' = [fd_table EXCEPT ![fd] = NoFile]
  /\ got' = <<>>
  /\ UNCHANGED <<fs, history>>

SysGetdents(fd) ==
  LET file == fd_table[fd] IN
  /\ Open(fd)
  /\ file.type = "DIR" /\ IsDir(fs, file.ino)
  /\ KfsVnodeRead(fs, file.ino, 0, fs.inodes[file.ino].size).err = "OK"
  /\ Begins(DirData(fs, file.ino), file.offset)
  /\ file.offset + EntryUnits <= fs.inodes[file.ino].size
  /\ fd_table' = [fd_table EXCEPT ![fd].offset = @ + EntryUnits]
  /\ got' = <<>>
  /\ UNCHANGED <<fs, history>>

SysMkdir(path) ==
  /\ \E f \in Found : fs' = Returned(VfsMkdir(f, path).fs)
  /\ got' = <<>>
  /\ Remember(FALSE)
  /\ UNCHANGED <<fd_table, dir_written>>

\* unlink and rmdir; after a panic no file is open.
Removes(r) ==
  /\ fs' = Returned(r.fs)
  /\ fd_table' = IF r.err = "PANIC" THEN NoFiles ELSE fd_table
  /\ got' = <<>>
  /\ Remember(FALSE)
  /\ UNCHANGED dir_written

SysUnlink(path) == \E f \in Found : \E r \in {VfsUnlink(f, path)} : Removes(r)

SysRmdir(path) == \E f \in Found : \E r \in {VfsRmdir(f, path)} : Removes(r)

-----------------------------------------------------------------------------
(***************************************************************************)
(* The machine crashes after some write of a call and boots again: the     *)
(* bitmaps are loaded from the disk, and no file is open.                  *)
(***************************************************************************)

CrashIn(f) ==
  /\ fs' \in {Returned(g) : g \in f.past}
  /\ fd_table' = NoFiles
  /\ got' = <<>>

CrashInOpen(path, flags) ==
  /\ \E f \in Found :
       /\ CrashIn(VfsOpen(f, path, flags).fs)
       /\ Remember(Truncates(flags) /\ VfsResolvePath(f, path).err = "OK")
  /\ UNCHANGED dir_written

CrashInWrite(fd, cells) ==
  /\ Open(fd) /\ fd_table[fd].writable
  /\ CrashIn(VfsWrite(fd_table[fd], cells).fs)
  /\ dir_written' = (dir_written \/ IsDir(fs, fd_table[fd].ino))
  /\ Remember(FALSE)

CrashInMkdir(path) ==
  /\ \E f \in Found : CrashIn(VfsMkdir(f, path).fs)
  /\ Remember(FALSE)
  /\ UNCHANGED dir_written

CrashInRemoval(path) ==
  /\ \E f \in Found : CrashIn(VfsUnlink(f, path).fs) \/ CrashIn(VfsRmdir(f, path).fs)
  /\ Remember(TRUE)
  /\ UNCHANGED dir_written

-----------------------------------------------------------------------------
\* What mkfs_kfs.py leaves: a root directory holding one file of one byte.
Init ==
  \E v \in Values :
    /\ fs = [block_bitmap |-> {1, 2},
             inode_bitmap |-> {RootInode, 1},
             inodes |-> [i \in Ino |->
                           IF i = RootInode
                           THEN [NewInode("DIR") EXCEPT !.size = EntryUnits, !.direct[0] = 2]
                           ELSE IF i = 1 THEN [NewInode("FILE") EXCEPT !.size = 1, !.direct[0] = 1]
                           ELSE NewInode("FREE")],
             disk |-> [b \in Block |->
                         IF b = 1 THEN BlockOf(<<Byte(v)>>)
                         ELSE IF b = 2 THEN BlockOf(Dirent(Installed, 1, "FILE"))
                         ELSE ZeroBlock],
             past |-> {},
             behind |-> FALSE]
    /\ fd_table = NoFiles
    /\ got = <<>>
    /\ dir_written = FALSE
    /\ cut = FALSE
    /\ torn = "no"

Requests == {[k \in 1..n |-> Byte(v)] : n \in Counts, v \in Values}

Next ==
  \/ \E path \in Paths : SysMkdir(path) \/ SysUnlink(path) \/ SysRmdir(path)
  \/ \E open \in OpenCalls : SysOpen(open[1], open[2])
  \/ \E fd \in Fds : \/ SysClose(fd) \/ SysGetdents(fd)
                     \/ \E count \in Counts : SysRead(fd, count)
                     \/ \E cells \in Requests : SysWrite(fd, cells)
  \/ /\ Crashes
     /\ \/ \E path \in Paths : CrashInMkdir(path) \/ CrashInRemoval(path)
        \/ \E open \in OpenCalls : CrashInOpen(open[1], open[2])
        \/ \E fd \in Fds, cells \in Requests : CrashInWrite(fd, cells)

Spec == Init /\ [][Next]_vars

-----------------------------------------------------------------------------
TypeOK ==
  /\ fs.block_bitmap \subseteq Block
  /\ fs.inode_bitmap \subseteq Ino /\ RootInode \in fs.inode_bitmap
  /\ \A i \in fs.inode_bitmap :
       /\ fs.inodes[i].type \in {"FILE", "DIR"}
       /\ fs.inodes[i].size \in 0..MaxUnits
       /\ BlocksOf(fs, fs.inodes[i]) \subseteq Block
  /\ \A fd \in Fds : Open(fd) => fd_table[fd].ino \in Ino /\ fd_table[fd].offset \in 0..MaxUnits

\* Every pointer of an inode in use: <<inode, place, block>>.  Place -1 is the
\* pointer to the table of indirect pointers.
Links ==
  {link \in {<<i, l, KfsMapBlock(fs, fs.inodes[i], l)>> :
               i \in fs.inode_bitmap, l \in 0..NDirect + NIndirect - 1}
             \cup {<<i, -1, fs.inodes[i].indirect>> : i \in fs.inode_bitmap} :
     link[3] # 0}

\* The state is well typed, no block that an inode in use points to is marked
\* free, and none is in two places: allocation, truncation, removal and the
\* compaction of directories keep the bitmap and the pointers together.
NoCrossLinks ==
  LET links == Links IN
  /\ TypeOK
  /\ \A x \in links : /\ x[3] \in fs.block_bitmap
                      /\ \A y \in links : x[3] = y[3] => x = y

Leaked == fs.block_bitmap \ UNION {BlocksOf(fs, fs.inodes[i]) : i \in fs.inode_bitmap}

\* A call loses a block only if it ran out of blocks: afterwards at most one is
\* free, the one kfs_vnode_create() gave back.
LeaksOnlyWhenFull ==
  [][fs' # fs => \/ Leaked' \subseteq Leaked
                 \/ \E b \in Block : Block \ {b} \subseteq fs'.block_bitmap]_vars

\* "zero leaked or unreferenced blocks": every block marked in use belongs to an
\* inode, whatever calls of programs failed.
NoLeaks == Leaked = {}

Directories == {i \in fs.inode_bitmap : fs.inodes[i].type = "DIR"}

EntriesOf(i) ==
  IF i \in Directories
  THEN {e \in {DirData(fs, i)[o + 1] : o \in {p \in Scanned(DirData(fs, i)) : Whole(DirData(fs, i), p)}} :
          e[2] \notin Dots}
  ELSE {}

\* The inodes that have a name, which is to say a path from the root.
Named ==
  LET within[n \in 0..InodeCount] ==
        IF n = 0 THEN {RootInode}
        ELSE within[n - 1] \cup {c[3] : c \in UNION {EntriesOf(i) : i \in within[n - 1]}}
  IN within[InodeCount]

\* Their entries, dots aside: <<directory, entry>>.
Entries == UNION {{i} \X EntriesOf(i) : i \in Named}

\* The names lead somewhere: each directory with a name, and the root, is readable
\* to its end, consists of whole entries and has no name twice, "." and ".." are
\* where the directory and its parent are, and each name is that of an inode in use,
\* of its type, with no other name.
NamesResolve ==
  LET entries == Entries
  IN /\ \A i \in Directories \cap Named :
          LET d == DirData(fs, i) IN
          /\ Len(d) = fs.inodes[i].size
          /\ \A o \in 0..Len(d) - 1 : o % EntryUnits = 0 => Whole(d, o)
          /\ \A o, p \in Scanned(d) : d[o + 1][2] = d[p + 1][2] => o = p
          /\ i # RootInode =>
               \E e \in entries :
                 /\ e[2][3] = i
                 /\ SubSeq(d, 1, 2 * EntryUnits) = Dirent(".", i, "DIR") \o Dirent("..", e[1], "DIR")
     /\ \A e \in entries : /\ e[2][3] \in fs.inode_bitmap \ {RootInode}
                           /\ fs.inodes[e[2][3]].type = e[2][4]
                           /\ \A d \in entries : d[2][3] = e[2][3] => d = e

\* Unless a program writes to a directory or truncates one, which nothing
\* forbids, or create finds room for a part of its entry only and lets that pass,
\* the directories are a tree, and each inode in use but the root has a name in it.
\* It holds although entries straddle blocks, and files are removed while they are
\* open and their inodes are used again.
DirectoryTree ==
  ~dir_written /\ ~cut =>
    /\ NamesResolve
    /\ fs.inode_bitmap \subseteq Named

\* "reclen 0" and the like are errors to kfsck.py: every directory consists of
\* whole entries.
EntriesWhole == ~dir_written => NamesResolve

\* A crash in a call that adds something (open() that creates, mkdir, write) costs
\* at most the blocks and the inode the call had taken: the blocks of a file that
\* has a name are marked in use, each is in one place, and all names resolve, since
\* the bitmaps are written first and the inode that makes the rest visible last.
\* An inode without a name may point to a block that is free or used again: a
\* mkdir that finds no room for its entry frees the block before the inode.
CrashSafe ==
  ~dir_written /\ ~cut /\ torn = "no" =>
    /\ NamesResolve
    /\ \E links \in {{x \in Links : x[1] \in Named}} :
         \A x \in links : /\ x[3] \in fs.block_bitmap
                          /\ \A y \in links : x[3] = y[3] => x = y

\* No block is in two places.
OneHome ==
  \E links \in {{x \in Links : x[1] \in Named}} :
    \A x, y \in links : x[3] = y[3] => x = y

\* A crash in unlink, rmdir or a truncating open() leaves pointers to blocks that
\* are free, since blocks are freed before their pointers are cleared.  Still no
\* block is in two places, whatever calls and crashes follow, until blocks are
\* allocated again: marking every block that a named inode points to repairs the
\* block bitmap, if it is done before that.  An entry that was cut off is left out,
\* as in DirectoryTree.
OneHomePerBlock == ~cut /\ torn # "reused" => OneHome

-----------------------------------------------------------------------------
(***************************************************************************)
(* Refinement: blocks, bitmaps and directories implement FileStore.        *)
(***************************************************************************)

Absent == <<<<"absent">>>>
Hole == <<"hole">>

\* The bytes of file i, and holes where a block is missing.
FileContent(i) ==
  IF i \notin fs.inode_bitmap \/ fs.inodes[i].type # "FILE" THEN Absent
  ELSE [k \in 1..fs.inodes[i].size |->
          LET b == KfsMapBlock(fs, fs.inodes[i], (k - 1) \div BlockUnits)
          IN IF b = 0 THEN Hole ELSE fs.disk[b][(k - 1) % BlockUnits]]

FileStoreSpec ==
  INSTANCE FileStore WITH
    Bytes <- {Byte(v) : v \in Values} \cup {Zero},
    Padding <- Zero,
    content <- [i \in Ino |-> FileContent(i)],
    inode_of <- [fd \in Fds |-> fd_table[fd].ino],
    position <- [fd \in Fds |-> IF Open(fd) THEN fd_table[fd].offset ELSE 0],
    sound <- torn = "no"

\* To its callers kfs.c is a store of byte sequences: a call changes at most one
\* file, a write only the range it reports, and a read returns the bytes written
\* last.  A byte never written reads as zero or not at all (-ENOENT), never as
\* what a freed block held.  Nothing is promised after a crash in a call that takes
\* something away.
ImplementsFileStore == FileStoreSpec!Spec

\* kfsck.py takes a missing block for an error: no file has one.
NoHoles == \A i \in Ino : Hole \notin Range(FileContent(i))

=============================================================================
