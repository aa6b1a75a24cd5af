-------------------------------- MODULE Varint --------------------------------
(***************************************************************************)
(* The variable-length numbers of the payloads (src/smart_delta.rs for     *)
(* u64, src/binary.rs for u128 and, zigzagged, i128): groups of seven bits *)
(* from the lowest up, each but the last with its top bit set.  The width  *)
(* of the numbers and of a group are parameters, so that instances can     *)
(* scale them down; a group is a record [bits, more].                      *)
(***************************************************************************)
EXTENDS Integers, SequencesExt

CONSTANTS Widths,     \* {64, 128}
          GroupBits,  \* 7
          Malformed   \* stands for the InvalidPacket errors

ASSUME WidthsAssumption ==
  Widths \subseteq Nat \ {0} /\ GroupBits \in Nat \ {0}

UpTo(n) == [i \in 1..n |-> i]

\* 1 << n
Pow2(n) == FoldLeft(LAMBDA power, i : 2 * power, 1, UpTo(n))

Group(value, more) == [bits |-> value % Pow2(GroupBits), more |-> more]

\* A mutant of PutTurn: a number that just fills its groups gets no more.
PutTurnShort(s) ==
  IF s.done THEN s
  ELSE IF s.rest > Pow2(GroupBits)
  THEN [out |-> Append(s.out, Group(s.rest, TRUE)), rest |-> s.rest \div Pow2(GroupBits),
        done |-> FALSE]
  ELSE [out |-> Append(s.out, Group(s.rest, FALSE)), rest |-> s.rest, done |-> TRUE]

\* A turn of the loop of put_var runs while the rest does not fit a group.
PutTurn(s) ==
  IF s.done THEN s
  ELSE IF s.rest >= Pow2(GroupBits)
  THEN [out |-> Append(s.out, Group(s.rest, TRUE)), rest |-> s.rest \div Pow2(GroupBits),
        done |-> FALSE]
  ELSE [out |-> Append(s.out, Group(s.rest, FALSE)), rest |-> s.rest, done |-> TRUE]

\* No number takes more turns than it has bits.
PutVar(width, value) ==
  FoldLeft(LAMBDA s, i : PutTurn(s), [out |-> <<>>, rest |-> value, done |-> FALSE],
           UpTo(width)).out

\* A turn of the loop of read_var: stops after the first group without a
\* successor, and refuses another once as many bits as the number has were
\* read; bits over the width are lost.
ReadTurn(width, r, group) ==
  LET value == (r.value + group.bits * Pow2(r.shift)) % Pow2(width)
      shift == r.shift + GroupBits
  IN  IF r.status # "reading" THEN r
      ELSE IF ~group.more THEN [value |-> value, shift |-> r.shift, status |-> "read"]
      ELSE [value |-> value, shift |-> shift,
            status |-> IF shift >= width THEN "malformed" ELSE "reading"]

ReadVar(width, groups) ==
  LET r == FoldLeft(LAMBDA s, group : ReadTurn(width, s, group),
                    [value |-> 0, shift |-> 0, status |-> "reading"], groups)
  IN  IF r.status = "read" THEN r.value ELSE Malformed

\* put_var_i128 and var_i128: the sign moves to the lowest bit.
Zigzag(value) == IF value >= 0 THEN 2 * value ELSE -2 * value - 1

Unzigzag(value) == IF value % 2 = 0 THEN value \div 2 ELSE -(value \div 2) - 1
-----------------------------------------------------------------------------
Signed(width) == -Pow2(width - 1)..(Pow2(width - 1) - 1)

\* Every number of the width comes back, the largest and the smallest too.
VarRestores(width, value) ==
  /\ value \in 0..(Pow2(width) - 1) => ReadVar(width, PutVar(width, value)) = value
  /\ value \in Signed(width) =>
       Unzigzag(ReadVar(width, PutVar(width, Zigzag(value)))) = value
=============================================================================
