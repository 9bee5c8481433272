--------------------------- MODULE MCRemotePanel ---------------------------
(***************************************************************************)
(* RemotePanel for TLC: the EQ is the first effect of one track, the       *)
(* second of another, and not in the third.                                *)
(***************************************************************************)
EXTENDS RemotePanel

MCSlots == {"track 1", "track 2", "track 3"}
MCEqAt == [s \in MCSlots |-> CASE s = "track 1" -> "fx1"
                               [] s = "track 2" -> "fx2"
                               [] OTHER -> NoEq]
=============================================================================
