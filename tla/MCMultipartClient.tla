-------------------------- MODULE MCMultipartClient --------------------------
(* Constants for model checking MultipartClient. *)
EXTENDS MultipartClient

CONSTANTS f,        \* the file name
          c1, c2,   \* two contents
          p1, p2    \* two pages

OneName == [n \in Names |-> n]
TmpApart == [n \in Names |-> <<n, "uploading">>]
\* The same file on both pages, or two versions of it.
SameOrOther == {[p \in Pages |-> c1], [p \in Pages |-> IF p = p1 THEN c1 ELSE c2]}

\* The versions have one size, or each its own, in which case the first chunk of the
\* one still looks like that of the other.
SameShape == [c \in Contents |-> [total |-> 3, chunk |-> 2]]
OwnShape == [c \in Contents |-> [total |-> IF c = c1 THEN 3 ELSE 4, chunk |-> 2]]
=============================================================================
