------------------------------ MODULE MCIoPath ------------------------------
(***************************************************************************)
(* The requests and latencies of the IoPath runs.                          *)
(***************************************************************************)
EXTENDS IoPath

\* With Units = 1 and Ratio = 2, block 0 belongs to FTL thread 0, blocks 1 and
\* 2 to FTL thread 1, block 3 to FTL thread 0 and so on: a command of three
\* pieces, the first and the last for thread 1.
SplitRequests == {<<1, 5>>}

\* One block, one piece.
SmallRequests == {<<0, 1>>}

\* Two blocks, two pieces, which one FTL thread answers over one slot.
PairRequests == {<<0, 2>>}

\* With Units = 2, a command that starts in the middle of FTL thread 0's
\* segment and runs into FTL thread 1's.
StraddlingRequests == {<<1, 2>>}

NoLats    == {0}
ShortLats == {0, 1}
=============================================================================
