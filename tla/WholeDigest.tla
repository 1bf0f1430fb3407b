----------------------------- MODULE WholeDigest -----------------------------
(***************************************************************************)
(* The digest of a whole file in the browser, hashFileSha256 of            *)
(* src/frontend/src/files/wholeSha256.ts: slices of the file are read one  *)
(* after another, each is hashed in pieces with the page's other tasks in  *)
(* between, and the upload may be cancelled or paused at any of them.      *)
(*                                                                         *)
(* What a compression makes of a block is left out: the state is the       *)
(* sequence of the bytes compressed.  The i-th byte of the file is itself, *)
(* so that bytes left out, doubled or moved show.                          *)
(***************************************************************************)
EXTENDS Integers, Sequences, SequencesExt

CONSTANTS
  Block,        \* 64 bytes
  LengthCells,  \* 8, at the end of the last block
  Radix, Unit,  \* 256, and 8 bits to a byte
  Sizes,        \* of files
  ReadBytes,    \* SHA256_READ_BYTES
  Works         \* WORK_BYTES

VARIABLES
  size, work,   \* of this file
  pc,
  start, bytes, offset,  \* the slice read, and how far it is hashed
  state,                 \* bytes compressed
  tail, tailBytes, byteLength,
  told,         \* the last progress
  aborted,      \* the signal
  reads         \* slices being read, in the background, too

vars == <<size, work, pc, start, bytes, offset, state, tail, tailBytes,
          byteLength, told, aborted, reads>>
hash == <<state, tail, tailBytes, byteLength>>

Byte(i) == i + 2        \* the file's i-th byte, from 0
Zero == 0
Stop == 1               \* 0x80
Smaller(a, b) == IF a <= b THEN a ELSE b
Zeros(k) == [i \in 1..k |-> Zero]

Init ==
  /\ size \in Sizes /\ work \in Works /\ pc = "next"
  /\ start = 0 /\ bytes = <<>> /\ offset = 0
  /\ state = <<>> /\ tail = Zeros(Block) /\ tailBytes = 0 /\ byteLength = 0
  /\ told = 0 /\ aborted = FALSE /\ reads = 0

(***************************************************************************)
(* IncrementalSha256                                                       *)
(***************************************************************************)
\* tail.set(s, at)
Set(t, s, at) == [i \in DOMAIN t |-> IF i - at \in DOMAIN s THEN s[i - at]
                                     ELSE t[i]]
Sub(s, from, to) == SubSeq(s, from + 1, to)      \* subarray

Taken(b) == IF tailBytes > 0 THEN Smaller(Block - tailBytes, Len(b)) ELSE 0
Whole(b) == Taken(b) + ((Len(b) - Taken(b)) \div Block) * Block

update(b) ==
  LET filled == Set(tail, Sub(b, 0, Taken(b)), tailBytes)
      full == tailBytes + Taken(b) = Block
      rest == Sub(b, Whole(b), Len(b))
  IN /\ byteLength' = byteLength + Len(b)
     /\ state' = state \o (IF full THEN filled ELSE <<>>)
                       \o Sub(b, Taken(b), Whole(b))
     /\ IF rest # <<>>
        THEN tail' = Set(filled, rest, 0) /\ tailBytes' = Len(rest)
        ELSE /\ tail' = filled
             /\ tailBytes' = IF full THEN 0 ELSE tailBytes + Taken(b)

\* encodeSha256BitLength: digits from the last to the first.
encodeLength(n) ==
  [i \in 1..LengthCells |-> ((n * Unit) \div Radix ^ (LengthCells - i)) % Radix]

\* Mutant: the length goes where a whole block has room for it.
RoomAs == IF tailBytes < Block THEN Block ELSE 2 * Block
Room == IF tailBytes < Block - LengthCells THEN Block ELSE 2 * Block

padded ==
  Set(Set(Set(Zeros(Room), Sub(tail, 0, tailBytes), 0), <<Stop>>, tailBytes),
      encodeLength(byteLength), Room - LengthCells)

(***************************************************************************)
(* hashFileSha256                                                          *)
(***************************************************************************)
Fail == pc' = "failed" /\
  UNCHANGED <<size, work, start, bytes, offset, state, tail, tailBytes,
              byteLength, told, aborted>>

End == Smaller(size, start + ReadBytes)

\* The next slice is asked for, or all were hashed.
NextSlice ==
  /\ pc = "next"
  /\ \/ aborted /\ Fail /\ UNCHANGED reads
     \/ /\ ~aborted /\ UNCHANGED hash
        /\ UNCHANGED <<size, work, start, bytes, offset, told, aborted>>
        /\ IF start < size THEN pc' = "read" /\ reads' = reads + 1
           ELSE pc' = "digest" /\ UNCHANGED reads

\* The slice came, or less of it because the file was changed, or an error.
Read ==
  /\ pc = "read" /\ ~aborted /\ reads' = reads - 1
  /\ \/ /\ bytes' = [i \in 1..(End - start) |-> Byte(start + i - 1)]
        /\ pc' = "work" /\ offset' = 0
        /\ UNCHANGED <<size, work, start, told, aborted>> /\ UNCHANGED hash
     \/ Fail

GiveUp == pc = "read" /\ aborted /\ Fail /\ UNCHANGED reads
\* A slice nobody waits for.
Late ==
  /\ pc = "failed" /\ reads > 0 /\ reads' = reads - 1
  /\ UNCHANGED <<size, work, pc, start, bytes, offset, told, aborted>>
  /\ UNCHANGED hash

\* One piece; then the next one, or the page's turn.
Work ==
  /\ pc = "work" /\ UNCHANGED reads
  /\ IF aborted THEN Fail
     ELSE LET end == Smaller(Len(bytes), offset + work) IN
          /\ update(Sub(bytes, offset, end))
          /\ told' = start + end /\ offset' = end
          /\ pc' \in IF end = Len(bytes) THEN {"yield"} ELSE {"work", "yield"}
          /\ UNCHANGED <<size, work, start, bytes, aborted>>

Yield ==
  /\ pc = "yield" /\ UNCHANGED reads
  /\ IF aborted THEN Fail
     ELSE /\ IF offset < Len(bytes) THEN pc' = "work" /\ UNCHANGED start
             ELSE pc' = "next" /\ start' = start + ReadBytes
          /\ UNCHANGED <<size, work, bytes, offset, told, aborted>>
          /\ UNCHANGED hash

Digest ==
  /\ pc = "digest" /\ pc' = "done" /\ state' = state \o padded
  /\ UNCHANGED <<size, work, start, bytes, offset, tail, tailBytes, byteLength,
                 told, aborted, reads>>

\* Pause, Cancel or the page is left, at any time the page has its turn.
Abort ==
  /\ pc \in {"read", "yield"} /\ ~aborted /\ aborted' = TRUE
  /\ UNCHANGED <<size, work, pc, start, bytes, offset, told, reads>>
  /\ UNCHANGED hash

Next == NextSlice \/ Read \/ GiveUp \/ Late \/ Work \/ Yield \/ Digest \/ Abort
Spec == Init /\ [][Next]_vars
(***************************************************************************)
(* Properties                                                              *)
(***************************************************************************)
\* FIPS 180-4, 5.1.1, which wholeSha256.ts names: the message, one bit, the
\* fewest zeros that fill blocks, and the length in bits.
Value(d) == FoldLeft(LAMBDA v, x : v * Radix + x, 0, d)
IsPadded(s, n) ==
  LET zeros == Len(s) - n - 1 - LengthCells IN
  /\ Len(s) % Block = 0 /\ zeros \in 0..(Block - 1)
  /\ \A i \in 1..n : s[i] = Byte(i - 1)
  /\ s[n + 1] = Stop
  /\ \A i \in (n + 2)..(n + 1 + zeros) : s[i] = Zero
  /\ Value(SubSeq(s, n + 2 + zeros, Len(s))) = n * Unit

\* The digest is that of the whole file.
DigestOfFile == pc = "done" => IsPadded(state, size)

\* The progress told is what was hashed, which is a prefix of the file.
ProgressIsHashed ==
  /\ told = byteLength
  /\ Len(state) + tailBytes = byteLength \/ pc = "done"
  /\ pc # "done" =>
       LET s == state \o Sub(tail, 0, tailBytes) IN
       \A i \in DOMAIN s : s[i] = Byte(i - 1)

\* A cancelled digest reads no more of the file and is never returned.
StopsWhenCancelled ==
  aborted => /\ reads' <= reads /\ pc' # "done"

==============================================================================
