----------------------------- MODULE FileStore -----------------------------
(***************************************************************************)
(* What KFS promises of file contents: files are sequences of bytes named  *)
(* by an inode number, a descriptor is a position in one of them, a write  *)
(* changes the written range of one file and nothing else, a read returns  *)
(* what is there.  There are no blocks, bitmaps or directories here.       *)
(***************************************************************************)
EXTENDS Integers, Sequences

CONSTANTS
  Ino,       \* inode numbers
  Fds,       \* descriptors
  Bytes,     \* what a byte of a file may be
  Requests,  \* what programs ask to write: sequences of bytes
  Counts,    \* how many bytes programs ask to read
  Padding,   \* what a byte never written reads as
  Hole,      \* a byte never written that cannot be read
  NoData,    \* what a read that meets a hole returns
  Absent     \* the content of an inode number that names no file

VARIABLES
  content,   \* inode number -> bytes
  inode_of,  \* descriptor -> inode number, or -1
  position,  \* descriptor -> offset
  got,       \* what the last call returned, if it was a read
  sound      \* no crash has hit a call that takes something away

vars == <<content, inode_of, position, got, sound>>

Longer(m, n) == IF m > n THEN m ELSE n

\* Byte k of a file is what it was; if it was never written, it is padding or a hole.
Kept(old, new, k) ==
  IF k > Len(old) \/ old[k] = Hole THEN new[k] \in {Padding, Hole} ELSE new[k] = old[k]

InRange(k, offset, data) == k \in offset + 1..offset + Len(data)

\* Data is put at offset (from 0).
Written(old, new, offset, data) ==
  /\ DOMAIN new = 1..Longer(Len(old), offset + Len(data))
  /\ \A k \in DOMAIN new :
       IF InRange(k, offset, data) THEN new[k] = data[k - offset] ELSE Kept(old, new, k)

\* The file has its new size and all the data it covers, or its old size and some
\* of the data.
PartlyWritten(old, new, offset, data) ==
  \/ \E n \in 1..Len(data) : Written(old, new, offset, SubSeq(data, 1, n))
  \/ /\ DOMAIN new = DOMAIN old
     /\ \A k \in DOMAIN new :
          Kept(old, new, k) \/ (InRange(k, offset, data) /\ new[k] = data[k - offset])

Init ==
  /\ content \in [Ino -> {Absent} \cup Seq(Bytes)]
  /\ inode_of = [fd \in Fds |-> -1]
  /\ position = [fd \in Fds |-> 0]
  /\ got = <<>>
  /\ sound = TRUE

\* open(): the file is there, is emptied, or is new.
Opens(fd, i) ==
  /\ inode_of[fd] = -1
  /\ inode_of' = [inode_of EXCEPT ![fd] = i]
  /\ position' = [position EXCEPT ![fd] = 0]
  /\ content' \in {content, [content EXCEPT ![i] = <<>>]}
  /\ got' = <<>>

Close(fd) ==
  /\ inode_of' = [inode_of EXCEPT ![fd] = -1]
  /\ position' = [position EXCEPT ![fd] = 0]
  /\ got' = <<>>
  /\ UNCHANGED content

\* At the position, or at the end for a descriptor opened to append.
Write(fd, data) ==
  LET i == inode_of[fd] IN
  /\ i # -1 /\ content[i] # Absent
  /\ \E offset \in {position[fd], Len(content[i])}, n \in 0..Len(data) :
       /\ position' = [position EXCEPT ![fd] = offset + n]
       /\ IF n = 0 THEN UNCHANGED content
          ELSE /\ content' = [content EXCEPT ![i] = content'[i]]
               /\ Written(content[i], content'[i], offset, SubSeq(data, 1, n))
  /\ got' = <<>>
  /\ UNCHANGED inode_of

\* A read returns what is there, up to count bytes, or stops with an error at the
\* first hole.
Read(fd, count) ==
  LET i == inode_of[fd]
      end == IF position[fd] + count < Len(content[i]) THEN position[fd] + count ELSE Len(content[i])
      Clear(p) == \A k \in position[fd] + 1..p : content[i][k] # Hole
  IN /\ i # -1 /\ content[i] # Absent
     /\ \/ /\ Clear(end)
           /\ got' = SubSeq(content[i], position[fd] + 1, end)
           /\ position' = [position EXCEPT ![fd] = Longer(@, end)]
        \/ \E p \in position[fd]..end - 1 :
             /\ Clear(p) /\ content[i][p + 1] = Hole
             /\ got' = NoData
             /\ position' = [position EXCEPT ![fd] = p]
     /\ UNCHANGED <<content, inode_of>>

\* A descriptor of something that is no file: a directory, or a file removed.
\* What a read of it returns is not part of this.
Elsewhere(fd) ==
  /\ inode_of[fd] # -1 /\ content[inode_of[fd]] = Absent
  /\ position'[fd] \in Nat
  /\ position' = [position EXCEPT ![fd] = position'[fd]]
  /\ UNCHANGED <<content, inode_of>>

Remove(i) ==
  /\ content[i] # Absent
  /\ content' = [content EXCEPT ![i] = Absent]
  /\ got' = <<>>
  /\ UNCHANGED <<inode_of, position>>

\* A call that fails, or makes or removes a directory.
NoChange ==
  /\ got' = <<>>
  /\ UNCHANGED <<content, inode_of, position>>

\* A crash closes every descriptor.  The file being written is written in part; the
\* file being created, emptied or removed is, or is not yet.
Crash ==
  /\ inode_of' = [fd \in Fds |-> -1]
  /\ position' = [fd \in Fds |-> 0]
  /\ got' = <<>>
  /\ \/ \E i \in Ino : content' \in {content, [content EXCEPT ![i] = <<>>], [content EXCEPT ![i] = Absent]}
     \/ \E fd \in Fds, data \in Requests :
          LET i == inode_of[fd] IN
          /\ i # -1 /\ content[i] # Absent
          /\ content' = [content EXCEPT ![i] = content'[i]]
          /\ \E offset \in {position[fd], Len(content[i])} :
               PartlyWritten(content[i], content'[i], offset, data)

Call ==
  \/ \E fd \in Fds, i \in Ino : Opens(fd, i)
  \/ \E fd \in Fds : \/ Close(fd) \/ Elsewhere(fd)
                     \/ \E count \in Counts : Read(fd, count)
                     \/ \E data \in Requests : Write(fd, data)
  \/ \E i \in Ino : Remove(i)
  \/ NoChange

\* After a crash in a call that takes something away there is no promise.
Next ==
  \/ sound /\ Call /\ UNCHANGED sound
  \/ sound /\ Crash /\ sound' \in BOOLEAN
  \/ ~sound /\ UNCHANGED sound

Spec == Init /\ [][Next]_vars
=============================================================================
