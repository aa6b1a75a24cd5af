----------------------------- MODULE PartialRepair -----------------------------
(***************************************************************************)
(* Chunk-wise repair of a receiver's bytes (src/partial_repair.rs).  The   *)
(* sender compares manifests, the hashes of both sides' chunks, and sends  *)
(* the chunks that differ; the receiver checks the hash of what it gets.   *)
(***************************************************************************)
EXTENDS SmartDelta

CONSTANT HashOf(_)   \* fnv1a64

ChunkSize(size) == IF size = 0 THEN 1 ELSE size

Manifest(bytes, size) ==
  [k \in 0..(ChunkCount(bytes, size) - 1) |-> HashOf(Chunk(bytes, size, k))]

DifferingChunks(m, n) ==
  {k \in DOMAIN m \cup DOMAIN n :
     ~(k \in DOMAIN m /\ k \in DOMAIN n /\ m[k] = n[k])}

\* build: a chunk beyond the end of the target is sent empty.
BuildRepair(receiver, target, size) ==
  LET s     == ChunkSize(size)
      count == Max({ChunkCount(receiver, s), ChunkCount(target, s)})
      at    == Ascending(DifferingChunks(Manifest(receiver, s), Manifest(target, s)), count)
  IN  [len |-> Len(target), size |-> s, hash |-> HashOf(target),
       patches |-> [n \in DOMAIN at |->
                      [index |-> at[n],
                       bytes |-> IF at[n] * s >= Len(target) THEN <<>>
                                 ELSE Chunk(target, s, at[n])]]]

\* A mutant of RepairedHash: the hash is not looked at.
RepairedHashUnchecked(out, r) == TRUE

RepairedHash(out, r) == HashOf(out) = r.hash

\* apply: empty patches beyond the end are skipped, and write nothing.
ApplyRepair(base, r) ==
  LET blank    == Resize(base, r.len)
      block(p) == Block(p.index * r.size, p.bytes)
      spare(p) == p.bytes = <<>> /\ p.index * r.size >= r.len
      out      == IF \A n \in DOMAIN r.patches :
                       spare(r.patches[n]) \/ Fits(blank, block(r.patches[n]))
                  THEN FoldLeft(LAMBDA o, p : Write(o, block(p)), blank, r.patches)
                  ELSE Invalid
  IN  IF out = Invalid \/ ~RepairedHash(out, r) THEN Invalid ELSE out

PayloadBytes(r) == FoldLeft(LAMBDA sum, p : sum + Len(p.bytes), 0, r.patches)
-----------------------------------------------------------------------------
\* A repair built for a receiver restores the target, and costs no more than
\* the target itself.
RepairRestores(receiver, target, size) ==
  LET r == BuildRepair(receiver, target, size)
  IN  ApplyRepair(receiver, r) = target /\ PayloadBytes(r) <= Len(target)

\* On any other bytes it restores the target or is refused.
RepairNeverMisleads(receiver, target, size, others) ==
  \A other \in others :
    ApplyRepair(other, BuildRepair(receiver, target, size)) \in {target, Invalid}
=============================================================================
