-------------------------- MODULE MCFlowerAVPlayer --------------------------
\* FlowerAVPlayer for TLC; the bounds are in the .cfg files.
EXTENDS FlowerAVPlayer
==============================================================================
