---------------------------- MODULE MCUserResolver ----------------------------
(* Model-checking instances of UserResolver: provider profiles and databases. *)
EXTENDS UserResolver, TLC

CONSTANTS i1, i2, i3, i4, i5, e1, e2, u1

(* Two persons with two providers each (i1 and i2, i3 and i5), and a profile *)
(* without an email (i4).                                                    *)
Everybody == {<<i1, e1>>, <<i2, e1>>, <<i3, e2>>, <<i5, e2>>, <<i4, NoEmail>>}

TwoNewcomers == {<<i1, e1>>, <<i3, e2>>}

EmptyTable == [x \in {} |-> x]

(* A member who has logged in before with i1. *)
MemberRows  == (u1 :> [email |-> e1, role |-> "platform_member"])
MemberLinks == (i1 :> u1)
===============================================================================
