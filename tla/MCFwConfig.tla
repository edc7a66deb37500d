----------------------------- MODULE MCFwConfig -----------------------------
(* Instances of FwConfig for TLC. *)
EXTENDS FwConfig, SequencesExt

\* The file whose entries have the given parameter lengths; those of 6 bytes are addresses.
TlvOf(lens, cut) ==
    [entries |-> Len(lens), cut |-> cut, addr |-> {k \in 1..Len(lens) : lens[k] = 6},
     at |-> [k \in 0..Len(lens) |->
                FoldLeft(LAMBDA acc, l : acc + l + 3, 4, SubSeq(lens, 1, k))]]

\* No entry, one, runs that split, runs of 250 to 252 bytes and almost one of 253 before
\* another entry, entries of the largest length that fits and of the first that does not.
SendableLens == { <<6>>, <<249>>, <<100, 100, 100>>, <<249, 249>>, <<0, 0, 245, 4>>,
                  <<123, 121, 1>>, <<124, 121, 1>>, <<124, 122, 1>>, <<125, 122, 1>> }
MCTlvFiles ==
    {TlvOf(l, FALSE) : l \in SendableLens \cup {<<>>, <<250>>, <<6, 255, 6>>}}
    \cup {TlvOf(l, TRUE) : l \in {<<9>>, <<250>>, <<200, 60>>, <<6, 7>>}}

\* Empty, short, one block exactly, a block and a bit, two blocks exactly, and 257 blocks and
\* a bit, where the block number wraps.
MCBlkFiles == {0, 1, 251, 252, 253, 504, 257 * 252 + 1}
=============================================================================
