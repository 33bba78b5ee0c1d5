---------------------------- MODULE MCAsyncWorker ----------------------------
(* Constants for model checking AsyncWorker: message lengths, to be read    *)
(* against the buffer of 3 bytes every configuration starts with.           *)
EXTENDS AsyncWorker

UpToFull == {1, 2, 3}    \* may fill an empty buffer exactly
=============================================================================
