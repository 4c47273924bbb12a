--------------------------- MODULE MC_RingProduct ---------------------------
(* The degree of the protocol's ring, 64, over Z_257, where 9 is a primitive *)
(* 128th root of unity: the domain may be that of the ring, twice or half    *)
(* its size, or too small.  <<3,3,0>> is the table's row for 64; <<2,2,2>>   *)
(* has three layers, as the rows from 11 on.  The operands are dense and     *)
(* irregular, so that an entry out of place shows in all results.           *)
EXTENDS RingProduct

MCRow == [c \in Idx |-> ((((c * c) \div 4 + c \div 3) % 3) + 256) % 257]
MCVec == [c \in Idx |-> (11 * c * c * c + 5 * c + 2) % 257]
MCLeft  == {MCRow}
MCRight == {MCVec}
MCRoots == {3, 9, 81, 136}
MCSubs  == {<<3, 3, 0>>, <<2, 2, 2>>}
=============================================================================
