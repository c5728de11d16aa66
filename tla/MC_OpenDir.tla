----------------------------- MODULE MC_OpenDir -----------------------------
(* Instantiation of OpenDir for TLC: an active and a disabled account with *)
(* full records, a name without a record, two passwords.                   *)
EXTENDS OpenDir, TLC

CONSTANTS alice, bob, carol, p1, p2

\* Every record carries the three attributes it was asked for, in order.
MC_Records ==
    (alice :> [attrs |-> <<"location", "name", "type">>, pw |-> p1,
               status |-> "active"])
    @@ (bob :> [attrs |-> <<"location", "name", "type">>, pw |-> p1,
                status |-> "disabled"])
    @@ (carol :> NoRecord)

MC_Symmetry == Permutations(Req)
=============================================================================
