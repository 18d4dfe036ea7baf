----------------------------- MODULE ByteBuffer ------------------------------
(***************************************************************************)
(* byte_buffer (net/buffer.hpp): a ring over a vector that doubles when it *)
(* is too small.  A buffer is a record of the three members; storage[i+1]  *)
(* is the byte at offset i, and a region is the sequence of its offsets.   *)
(* Requests are small: size_ + n and the doubling do not overflow.         *)
(***************************************************************************)
EXTENDS Naturals, Sequences

Least(m, n)        == IF m <= n THEN m ELSE n
Region(start, n)   == [i \in 1..n |-> start + i - 1]
BytesAt(b, region) == [i \in DOMAIN region |-> b.storage[region[i] + 1]]
ZeroBytes(n)       == [i \in 1..n |-> 0]

EmptyBuffer(capacity) ==
  [storage |-> ZeroBytes(capacity), read_index |-> 0, size |-> 0]

Capacity(b)      == Len(b.storage)
WritableBytes(b) == Capacity(b) - b.size
WriteIndex(b)    == (b.read_index + b.size) % Capacity(b)

(* The two readable regions, and what they hold.                           *)
ReadableRegions(b) ==
  LET first == Least(b.size, Capacity(b) - b.read_index) IN
    <<Region(b.read_index, first), Region(0, b.size - first)>>

Readable(b) == ReadableRegions(b)[1] \o ReadableRegions(b)[2]
Content(b)  == BytesAt(b, Readable(b))

-----------------------------------------------------------------------------
(* Mutant of GrowAndLinearize: the second region is not copied.            *)
GrowFirstRegion(b, capacity) ==
  LET kept == BytesAt(b, ReadableRegions(b)[1]) IN
    [storage |-> kept \o ZeroBytes(capacity - Len(kept)), read_index |-> 0, size |-> b.size]

GrowAndLinearize(b, capacity) ==
  [storage |-> Content(b) \o ZeroBytes(capacity - b.size), read_index |-> 0, size |-> b.size]

(* ensure_writable(): double until n more bytes fit.                       *)
EnsureWritable(b, n) ==
  LET doubled[k \in 0..n] == IF k = 0 THEN Capacity(b) ELSE 2 * doubled[k - 1]
      fits == {k \in 0..n : doubled[k] >= b.size + n}
  IN  IF WritableBytes(b) >= n THEN b
      ELSE GrowAndLinearize(b, doubled[CHOOSE k \in fits : \A l \in fits : k <= l])

(* linearize(): the content moves to the front, by way of a copy if it     *)
(* wraps around.                                                           *)
Linearize(b) ==
  [storage |-> Content(b) \o SubSeq(b.storage, b.size + 1, Capacity(b)),
   read_index |-> 0, size |-> b.size]

WritableContiguous(b) ==
  IF b.size = Capacity(b) THEN 0
  ELSE IF WriteIndex(b) < b.read_index THEN b.read_index - WriteIndex(b)
  ELSE Capacity(b) - WriteIndex(b)

(* Mutant of PrepareContiguous: free bytes are taken for contiguous ones.  *)
PrepareScattered(b, n) == EnsureWritable(b, n)

(* The buffer after prepare_contiguous(n), whose span starts at the write  *)
(* index, and after writable_regions(n), with its two regions.             *)
PrepareContiguous(b, n) ==
  LET ensured == EnsureWritable(b, n) IN
    IF WritableContiguous(ensured) < n THEN Linearize(ensured) ELSE ensured

ContiguousSpan(b, n) == Region(WriteIndex(b), n)

WritableRegions(b, n) ==
  LET tail  == WriteIndex(b)
      first == Least(n, IF tail < b.read_index THEN b.read_index - tail ELSE Capacity(b) - tail)
      rest  == IF tail < b.read_index THEN 0 ELSE Least(n - first, b.read_index)
  IN  <<Region(tail, first), Region(0, rest)>>

Commit(b, n) == [b EXCEPT !.size = @ + n]

(* consume(): an emptied buffer starts again at the front.                 *)
Consume(b, n) ==
  [storage |-> b.storage,
   read_index |-> IF n = b.size THEN 0 ELSE (b.read_index + n) % Capacity(b),
   size |-> b.size - n]
=============================================================================
