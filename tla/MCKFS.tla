------------------------------- MODULE MCKFS -------------------------------
(***************************************************************************)
(* Module KFS for TLC: four blocks of five units, entries of two, so that  *)
(* the third entry of a directory straddles its blocks, and two files or a *)
(* file and a directory with a block of indirect pointers fill the disk.   *)
(***************************************************************************)
EXTENDS KFS, FiniteSets

MCPaths == {<<"a">>, <<"b">>, <<"b", "a">>}
MCOpens ==
  {<<<<"a">>, {}>>,
   <<<<"a">>, {"O_WRONLY", "O_CREAT", "O_TRUNC"}>>,
   <<<<"b">>, {}>>,
   <<<<"b", "a">>, {"O_WRONLY", "O_CREAT", "O_APPEND"}>>}
MCCrashOpens ==
  {<<<<"a">>, {"O_WRONLY", "O_CREAT", "O_TRUNC"}>>,
   <<<<"b", "a">>, {"O_WRONLY", "O_CREAT", "O_APPEND"}>>}

Contents(inode) ==
  [type |-> inode.type, size |-> inode.size, table |-> inode.indirect # 0,
   blocks |-> [l \in 0..NDirect + NIndirect - 1 |->
                 LET b == KfsMapBlock(fs, inode, l)
                 IN IF b = 0 THEN <<>> ELSE fs.disk[b]]]

\* The numbers of blocks matter if a block that is free or in two places is still
\* pointed to; what a free inode holds, if a crash may bring it back.
NumbersMatter ==
  \/ ~NoCrossLinks
  \/ Crashes /\ \E i \in Ino \ fs.inode_bitmap : fs.inodes[i] # NewInode("FREE")

\* Otherwise states that differ only in which block is where, or in what a free
\* block or a free inode holds, or in the numbers of descriptors, behave alike: each
\* inode is viewed with its blocks in place, and fd_table as a bag.  No call depends
\* on what the last one returned.
View ==
  <<IF NumbersMatter
    THEN <<fs.block_bitmap, fs.inode_bitmap, fs.inodes,
           [b \in UNION {BlocksOf(fs, fs.inodes[i]) : i \in Ino} |-> fs.disk[b]]>>
    ELSE <<[i \in fs.inode_bitmap |-> Contents(fs.inodes[i])], Cardinality(fs.block_bitmap)>>,
    [file \in {fd_table[fd] : fd \in Fds} |-> Cardinality({fd \in Fds : fd_table[fd] = file})],
    history>>

\* An entry that was cut off has been written behind: a scan takes parts of the new
\* entry for entries.
Buried ==
  \E i \in Directories :
    \E o \in Scanned(DirData(fs, i)) :
      o + EntryUnits <= Len(DirData(fs, i)) /\ ~Whole(DirData(fs, i), o)

\* What programs write is not followed where the code takes it for entries or
\* pointers: in a directory that a program has written to, behind an entry that was
\* cut off, and in blocks that a crash has left pointed to and that are used again.
\* Crashes are not combined with an entry that was cut off.
Followed == ~dir_written /\ torn # "reused" /\ ~Buried /\ ~(Crashes /\ cut)
=============================================================================
