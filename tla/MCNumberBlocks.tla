--------------------------- MODULE MCNumberBlocks ---------------------------
(* Small instances of NumberBlocks for TLC.                                *)
EXTENDS NumberBlocks, TLC

CONSTANTS d1, d2

Devices == {d1, d2}
\* Devices are interchangeable: no definition of NumberBlocks orders them.
DeviceSymmetry == Permutations(Devices)

\* A device that has run out of numbers gets a block again: the liveness
\* promise of NumbersArriveAgain for batches of one Patta.
SinglesArriveAgain == NumbersArriveAgain(1)
=============================================================================
