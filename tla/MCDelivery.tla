----------------------------- MODULE MCDelivery -----------------------------
(***************************************************************************)
(* Small instances of Delivery for TLC.                                    *)
(***************************************************************************)
EXTENDS Delivery, TLC

CONSTANTS c1, c2, e1, e2, e3, v1, v2, h1, h2

\* A call to two suppliers, which releases them, and a call to one, which
\* settles it.
TwoThenOne == (c1 :> {e1, e2}) @@ (c2 :> {e3})
ReleasesThenSettles == (c1 :> {"RETRY_PENDING"}) @@ (c2 :> {"TERMINAL"})

\* Each call is announced by an event of its own; two requests may bring the
\* first at once.
BothAnnounced == (v1 :> c1) @@ (v2 :> c2)
FirstTwice == (v1 :> {h1, h2}) @@ (v2 :> {h1})
=============================================================================
