----------------------------- MODULE MCXexPatcher -----------------------------
EXTENDS XexPatcher

OneHeader    == {3}
TwoExes      == {1, 2}
TwoImages    == {1, 3}
InTheHeader  == {0, 1, 2, 5}
InTheImage   == {0, 1, 2}
==============================================================================
