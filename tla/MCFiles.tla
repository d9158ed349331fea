------------------------------ MODULE MCFiles ------------------------------
(***************************************************************************)
(* Files with the paths its configurations create, and with processes that *)
(* are alike but for the first.                                            *)
(***************************************************************************)
EXTENDS Files, TLC

MCShallow == {<<"root", <<"a">>>>}
MCDeep    == MCShallow \cup {<<"root", <<"dev", "a">>>>}
=============================================================================
