------------------------------ MODULE SmartDelta ------------------------------
(***************************************************************************)
(* The five delta families of byte states (src/smart_delta.rs).  A state   *)
(* is a sequence of bytes; offsets count from 0 as in the code.  A payload *)
(* is the record of the numbers and bytes the code writes, with the gaps   *)
(* between positions as they are written, not the positions; how a number  *)
(* is laid out in varint bytes is left out.                                *)
(***************************************************************************)
EXTENDS Integers, SequencesExt

CONSTANTS Xor(_, _),  \* exclusive or of two bytes
          Invalid     \* stands for the InvalidPacket errors of apply

-----------------------------------------------------------------------------
(***************************************************************************)
(* Writing blocks of bytes at offsets, with the bounds check.              *)
(***************************************************************************)
Block(start, bytes) == [start |-> start, bytes |-> bytes]

Write(out, block) ==
  [i \in DOMAIN out |-> LET offset == i - block.start
                        IN  IF offset \in DOMAIN block.bytes THEN block.bytes[offset]
                            ELSE out[i]]

Fits(out, block) == block.start + Len(block.bytes) <= Len(out)

WriteAll(out, blocks) ==
  IF \A n \in DOMAIN blocks : Fits(out, blocks[n])
  THEN FoldLeft(Write, out, blocks) ELSE Invalid

\* The base cut or filled with zeros to a length.
Resize(base, len) == [i \in 1..len |-> IF i <= Len(base) THEN base[i] ELSE 0]

Slice(bytes, start, end) == SubSeq(bytes, start + 1, end)

\* The numbers below a count that are in a set, in order.
Ascending(numbers, count) ==
  FoldLeft(LAMBDA at, i : IF i \in numbers THEN Append(at, i) ELSE at,
           <<>>, [n \in 1..count |-> n - 1])

\* The first number and then the distances, and back.
Gaps(numbers) ==
  [n \in DOMAIN numbers |-> IF n = 1 THEN numbers[1] ELSE numbers[n] - numbers[n - 1]]

Sums(gaps) == [n \in DOMAIN gaps |-> FoldLeft(+, 0, SubSeq(gaps, 1, n))]
-----------------------------------------------------------------------------
(***************************************************************************)
(* Sparse, ranges and xor: for states of the same length.                  *)
(***************************************************************************)
Changed(old, new) == {i \in 0..(Len(new) - 1) : old[i + 1] # new[i + 1]}

EncodeSparse(old, new) ==
  LET at == Ascending(Changed(old, new), Len(new))
  IN  [kind |-> "Sparse", len |-> Len(new), gaps |-> Gaps(at),
       bytes |-> [n \in DOMAIN at |-> new[at[n] + 1]]]

ApplySparse(base, d) ==
  LET at == Sums(d.gaps)
  IN  IF d.len # Len(base) THEN Invalid
      ELSE WriteAll(base, [n \in DOMAIN at |-> Block(at[n], <<d.bytes[n]>>)])

\* A range takes in unchanged bytes as long as no more than gap of them lie
\* between two changed ones, and ends with a changed one.
RangeStarts(old, new, gap) ==
  {i \in Changed(old, new) : Changed(old, new) \cap (i - 1 - gap)..(i - 1) = {}}

RangeEnd(old, new, gap, start) ==
  1 + Max({i \in Changed(old, new) :
             start <= i /\ RangeStarts(old, new, gap) \cap (start + 1)..i = {}})

RangeGap(start, end, n) == IF n = 1 THEN start[1] ELSE start[n] - end[n - 1]

EncodeRanges(old, new, gap) ==
  LET start == Ascending(RangeStarts(old, new, gap), Len(new))
      end   == [n \in DOMAIN start |-> RangeEnd(old, new, gap, start[n])]
  IN  [kind |-> "Ranges", len |-> Len(new),
       gaps |-> [n \in DOMAIN start |-> RangeGap(start, end, n)],
       runs |-> [n \in DOMAIN start |-> Slice(new, start[n], end[n])]]

ApplyRanges(base, d) ==
  LET skipped(n) == FoldLeft(+, 0, SubSeq(d.gaps, 1, n))
      written(n) == FoldLeft(LAMBDA sum, run : sum + Len(run), 0, SubSeq(d.runs, 1, n - 1))
  IN  IF d.len # Len(base) THEN Invalid
      ELSE WriteAll(base, [n \in DOMAIN d.gaps |->
                             Block(skipped(n) + written(n), d.runs[n])])

EncodeXor(old, new) ==
  [kind |-> "Xor", bytes |-> [i \in DOMAIN new |-> Xor(old[i], new[i])]]

ApplyXor(base, d) ==
  IF Len(d.bytes) # Len(base) THEN Invalid
  ELSE [i \in DOMAIN base |-> Xor(base[i], d.bytes[i])]
-----------------------------------------------------------------------------
(***************************************************************************)
(* Splice and chunks: for states of any lengths.                           *)
(***************************************************************************)
CommonLen(old, new) == IF Len(old) < Len(new) THEN Len(old) ELSE Len(new)

SharedPrefix(old, new) ==
  Max({p \in 0..CommonLen(old, new) : \A i \in 1..p : old[i] = new[i]})

SharedAtEnd(old, new, s) ==
  \A i \in 0..(s - 1) : old[Len(old) - i] = new[Len(new) - i]

\* Two mutants of SharedSuffix: it may overlap the shared prefix, or is looked
\* for only when the length stays.
SharedSuffixOverlapping(old, new) ==
  Max({s \in 0..CommonLen(old, new) : SharedAtEnd(old, new, s)})

SharedSuffixSameLength(old, new) ==
  Max({s \in 0..(IF Len(old) = Len(new) THEN Len(new) - SharedPrefix(old, new) ELSE 0) :
         SharedAtEnd(old, new, s)})

SharedSuffix(old, new) ==
  Max({s \in 0..(CommonLen(old, new) - SharedPrefix(old, new)) : SharedAtEnd(old, new, s)})

Splice(new, prefix, suffix) ==
  [kind |-> "Splice", len |-> Len(new), prefix |-> prefix, suffix |-> suffix,
   middle |-> Slice(new, prefix, Len(new) - suffix)]

EncodeSplice(old, new) == Splice(new, SharedPrefix(old, new), SharedSuffix(old, new))

ApplySplice(base, d) ==
  IF d.prefix + d.suffix > Len(base) \/ d.prefix + Len(d.middle) + d.suffix # d.len
  THEN Invalid
  ELSE SubSeq(base, 1, d.prefix) \o d.middle
         \o SubSeq(base, Len(base) - d.suffix + 1, Len(base))

\* The bytes of chunk k; the last chunk may be short.
Chunk(bytes, size, k) ==
  Slice(bytes, k * size, IF (k + 1) * size < Len(bytes) THEN (k + 1) * size ELSE Len(bytes))

ChunkCount(bytes, size) == (Len(bytes) + size - 1) \div size

\* previous.get(start..end) equals the chunk, which it cannot where old ends
\* before the chunk does.
ChunkKept(old, new, size, k) ==
  LET chunk == Chunk(new, size, k)
  IN  /\ k * size + Len(chunk) <= Len(old)
      /\ Slice(old, k * size, k * size + Len(chunk)) = chunk

EncodeChunks(old, new, size) ==
  LET count == ChunkCount(new, size)
      at    == Ascending({k \in 0..(count - 1) : ~ChunkKept(old, new, size, k)}, count)
  IN  [kind |-> "Chunks", len |-> Len(new), size |-> size, gaps |-> Gaps(at),
       chunks |-> [n \in DOMAIN at |-> Chunk(new, size, at[n])]]

ApplyChunks(base, d) ==
  LET at == Sums(d.gaps)
  IN  IF d.size = 0 THEN Invalid
      ELSE WriteAll(Resize(base, d.len),
                    [n \in DOMAIN at |-> Block(at[n] * d.size, d.chunks[n])])
-----------------------------------------------------------------------------
\* encode_candidates: what the encoders choose from.
SmartCandidates(old, new, gap, size) ==
  {EncodeSplice(old, new), EncodeChunks(old, new, IF size = 0 THEN 1 ELSE size)} \cup
  (IF Len(old) = Len(new)
   THEN {EncodeSparse(old, new), EncodeRanges(old, new, gap), EncodeXor(old, new)}
   ELSE {})

\* apply, by the tag of the payload.
ApplySmart(base, d) ==
  CASE d.kind = "Sparse" -> ApplySparse(base, d)
    [] d.kind = "Ranges" -> ApplyRanges(base, d)
    [] d.kind = "Xor"    -> ApplyXor(base, d)
    [] d.kind = "Splice" -> ApplySplice(base, d)
    [] d.kind = "Chunks" -> ApplyChunks(base, d)
-----------------------------------------------------------------------------
\* Every candidate turns the old state into the new one.
SmartRestores(old, new, gap, size) ==
  \A d \in SmartCandidates(old, new, gap, size) : ApplySmart(old, d) = new

\* No splice that restores new has a shorter middle than the one encoded.
SpliceIsShortest(old, new) ==
  \A prefix, suffix \in 0..CommonLen(old, new) :
    ( /\ prefix + suffix <= CommonLen(old, new)
      /\ ApplySplice(old, Splice(new, prefix, suffix)) = new )
    => Len(EncodeSplice(old, new).middle) <= Len(Splice(new, prefix, suffix).middle)
=============================================================================
