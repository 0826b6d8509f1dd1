---------------------------- MODULE FencedLease ----------------------------
(***************************************************************************)
(* What the control lease promises to everything that is guarded by it: at *)
(* any time there is at most one holder, and a lease revision (the term)    *)
(* identifies the holder it was read with, because the holder never moves   *)
(* without the term growing.  A command that carries the term it was        *)
(* prepared under is therefore fenced off once control has moved.           *)
(***************************************************************************)
EXTENDS Naturals

CONSTANTS Clients, NoClient

VARIABLES holder, term

lvars == <<holder, term>>

LeaseInit == holder = NoClient /\ term = 0

Move == /\ holder' \in Clients \cup {NoClient}
        /\ term' \in Nat
        /\ term' > term

LeaseSpec == LeaseInit /\ [][Move]_lvars
=============================================================================
