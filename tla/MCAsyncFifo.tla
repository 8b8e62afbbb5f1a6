---------------------------- MODULE MCAsyncFifo ----------------------------
(* Small values for AsyncFifo: four words, two messages.                    *)
EXTENDS AsyncFifo

CONSTANTS d1, d2
=============================================================================
