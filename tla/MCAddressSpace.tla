--------------------------- MODULE MCAddressSpace ---------------------------
\* Three levels of tables of two entries.  Pages 0-3 are the lower half: the image
\* at 0 (one also at 2, in the way of the break), the break from 1, the stack at 3.
\* The heap is at 4-5, and the kernel itself is the next top entry.
EXTENDS AddressSpace

MCSpan == <<4, 2, 1>>

Segment(page, writable) == [page |-> page, writable |-> writable]

\* Code and data that share a page; a larger one with data in the way of the break;
\* and one rejected behind its first segment.
MCImages == {
  [segments |-> <<Segment(0, FALSE), Segment(0, TRUE)>>, valid |-> TRUE],
  [segments |-> <<Segment(0, FALSE), Segment(2, TRUE)>>, valid |-> TRUE],
  [segments |-> <<Segment(1, TRUE)>>, valid |-> FALSE]}
=============================================================================
