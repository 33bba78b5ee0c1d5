------------------------------ MODULE LogChannel ------------------------------
(***************************************************************************)
(* What an asynchronous logger promises, whatever its buffers do: a message*)
(* whose Push returned is in `accepted' for good, in the order of the      *)
(* pushes; the first `delivered' of them have been handed to the log       *)
(* files, always a prefix; and the channel closes only when nothing is     *)
(* left to deliver.                                                        *)
(***************************************************************************)
EXTENDS Naturals, Sequences

CONSTANT Messages

VARIABLES accepted, delivered, closed

chanVars == <<accepted, delivered, closed>>

ChanInit ==
  /\ accepted = <<>>
  /\ delivered = 0
  /\ closed = FALSE

Accept ==
  /\ ~closed
  /\ \E m \in Messages : accepted' = Append(accepted, m)
  /\ UNCHANGED <<delivered, closed>>

\* One flush hands over any non-empty run of the messages that are due.
Deliver ==
  /\ delivered < Len(accepted)
  /\ delivered' \in (delivered + 1) .. Len(accepted)
  /\ UNCHANGED <<accepted, closed>>

Close ==
  /\ ~closed
  /\ delivered = Len(accepted)
  /\ closed' = TRUE
  /\ UNCHANGED <<accepted, delivered>>

ChanNext == Accept \/ Deliver \/ Close

\* Delivery is the only duty: nobody has to log, and nobody has to shut down.
ChanSpec == ChanInit /\ [][ChanNext]_chanVars /\ WF_chanVars(Deliver)
=============================================================================
