----------------------------- MODULE MCCacheSim -----------------------------
(* Every configuration of up to two sets of up to two blocks, with arguments *)
(* that main refuses among those tried.                                      *)
EXTENDS CacheSim

SmallCounts == {0, 1, 2, 3}
Bytes == {2, 4, 6}
OneSetCount == {1}
OneBlockCount == {1}
FourBytes == {4}

\* In blocks of four bytes: 0, 1, 2, 4.
MCAddresses == {0, 5, 11, 16}
=============================================================================
