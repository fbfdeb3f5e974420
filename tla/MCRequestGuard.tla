---------------------------- MODULE MCRequestGuard ----------------------------
(***************************************************************************)
(* Small instances of RequestGuard.  The programs are the orders in which  *)
(* the mutations use the database: activate records before its plan rows   *)
(* are flushed, a data change flushes them in invalidate and then records  *)
(* twice, login and logout record nothing.                                 *)
(***************************************************************************)
EXTENDS RequestGuard, TLC

CONSTANTS w1, w2, a, b, x, y

Activate == <<"read", "audit", "plans">>
Change == <<"read", "plans", "audit", "audit">>
Login == <<"read">>

MCPrograms == {Activate, Change, Login}
MCOnOne == [r \in {a, b, x, y} |-> w1]
MCOnTwo == (a :> w1) @@ (b :> w2) @@ (x :> w1)
MCOnWrites == (a :> w1) @@ (b :> w2)
=============================================================================
