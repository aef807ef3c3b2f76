------------------------------ MODULE MCMembers ------------------------------
EXTENDS Members, TLC

CONSTANTS ann, bob, cat, dan, w1, w2, c1, c2

(* The places for calls differ in nothing.                                *)
SamePlaces == Permutations(Calls)

MCOwner == w1 :> ann @@ w2 :> bob
MCJoined == w1 :> {bob} @@ w2 :> {ann}
MCHeld == <<cat, dan>>

MCOffers == {<<bob, Update(w1, ann, "editor", "active")>>,
             <<bob, Redeem(w2, 1, "editor")>>, <<bob, Redeem(w1, 2, "admin")>>, <<ann, Redeem(w1, 3, "editor")>>,
             <<cat, Issue>>}

MCSaves == {Redeem(w1, 1, "editor"), Update(w1, bob, "admin", "removed")}
=============================================================================
