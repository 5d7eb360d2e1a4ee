---------------------------- MODULE FileContents ----------------------------
(***************************************************************************)
(* OS::compare_files and OS::copy_file (src/src/OS.cc): files are read     *)
(* through a buffer, until a read comes back short. A file whose length is *)
(* a multiple of the buffer's takes one more read, of nothing.             *)
(*                                                                         *)
(* What cannot be opened or read ends both with an Exception: that is      *)
(* "throws" in CompareFiles and a failed call in TestCase.                 *)
(***************************************************************************)
EXTENDS Integers, Sequences

CONSTANTS Byte, BufferSize

ASSUME BufferAssumption == BufferSize \in Nat \ {0}

Content == Seq(Byte)

\* What read stores behind the first at bytes, and whether it meets the end.
Short(file, at) == Len(file) - at < BufferSize
Chunk(file, at) == SubSeq(file, at + 1, IF Short(file, at) THEN Len(file) ELSE at + BufferSize)

\* Mutant: the numbers of bytes read are not compared.
SameAsFarAsRead(left, right) == \A k \in 1..Len(left) : k <= Len(right) => left[k] = right[k]

SameChunk(left, right) ==
    /\ Len(left) = Len(right)
    /\ \A k \in 1..Len(left) : left[k] = right[k]

compare_files(left, right) ==
    LET From[at \in Nat] ==
            /\ SameChunk(Chunk(left, at), Chunk(right, at))
            /\ IF Short(left, at) THEN Short(right, at) ELSE From[at + BufferSize]
    IN From[0]

copy_file(from) ==
    LET From[at \in Nat] ==
            Chunk(from, at) \o (IF Short(from, at) THEN <<>> ELSE From[at + BufferSize])
    IN From[0]

=============================================================================
