----------------------------- MODULE MCTransport -----------------------------
(***************************************************************************)
(* Message patterns for model checking Transport: m1 is sent before all    *)
(* others; m2, m3 and the unhandled u1 come from different goroutines.     *)
(***************************************************************************)
EXTENDS Transport, TLC

CONSTANTS m1, m2, m3, u1

MixMessages == {m1, m2, m3, u1}
MixBefore == m1 :> {} @@ m2 :> {m1} @@ m3 :> {m1} @@ u1 :> {m1}
=============================================================================
