------------------------------- MODULE MCQueue -------------------------------
(***************************************************************************)
(* Two processes consume under the same name, at the same time or one      *)
(* after the other, with collections, with rejections or while the queue   *)
(* is deleted; two processes consume under different names; one process    *)
(* takes collections of up to four packages apart, with rejections; or a   *)
(* buffered queue is filled and flushed.                                   *)
(***************************************************************************)
EXTENDS QueueInv

MCPackage == 1 .. 4
MCNameOf == [c \in Client |-> IF c = "e" THEN "m" ELSE "n"]

Use(clients, packages, uses) ==
  [buffered |-> FALSE, clients |-> clients, packages |-> 1 .. packages, uses |-> uses]

MCMixes ==
  {Use({"c", "d"}, 3, {"multi"}),
   Use({"c", "d"}, 2, {"reject", "requeue"}),
   Use({"c", "d"}, 2, {"delete"}),
   Use({"c", "e"}, 1, {"delete", "reset"}),
   Use({"c"}, 4, {"nowait", "multi", "reject"}),
   [buffered |-> TRUE, clients |-> {}, packages |-> 1 .. 4, uses |-> {}]}
=============================================================================
