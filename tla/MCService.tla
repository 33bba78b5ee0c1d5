------------------------------ MODULE MCService ------------------------------
(* Constants for model checking Service. *)
EXTENDS Service

CONSTANTS f, g,   \* two file names
          c1, c2  \* two contents

OneName == {f}
TwoNames == {f, g}

\* Names that MySQL tells apart, and two that differ by case alone.
Distinct == [n \in Names |-> n]
SameFolded == [n \in Names |-> f]

\* Temporary files that no file name collides with.
Apart == [n \in Names |-> <<n, "uploading">>]

\* Both contents have one size, or each its own, in which case the first chunk of
\* the one still looks like that of the other.
SameShape == [c \in Contents |-> [total |-> 3, chunk |-> 2]]
OwnShape == [c \in Contents |-> [total |-> IF c = c1 THEN 3 ELSE 4, chunk |-> 2]]

AllButStartup == {"refused", "lost", "file", "crash"}
NoFaults == {}
OnlyLostReply == {"lostReply"}
StartupAndCrash == {"startup", "crash"}
=============================================================================
