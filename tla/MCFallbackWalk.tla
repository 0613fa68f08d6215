--------------------------- MODULE MCFallbackWalk ---------------------------
(* FallbackWalk for TLC: a small directory tree with a link. *)
EXTENDS FallbackWalk, TLC

CONSTANTS r, a, b, d, x, y, z

(* r holds a, b and the file x; a holds the link d and the file y; b holds *)
(* the file z.                                                             *)
Tree == (a :> r) @@ (b :> r) @@ (x :> r) @@ (d :> a) @@ (y :> a) @@ (z :> b)
TreeParent == [e \in (Dirs \ {r}) \cup Files |-> Tree[e]]

(* y and z may be names of one file.  The link may lead back to the root,  *)
(* to its sibling b or nowhere.  One worker meets every case.  Two meet a  *)
(* link that is a cycle and, where y is left out, one that is followed, so *)
(* that z is found under two paths.                                        *)
Linked == [f \in Files |-> IF f = x THEN NoIdentity ELSE y]
Unlinked == [f \in Files |-> NoIdentity]
SetupOf(workers, policy, target, identity, excluded, unreadable, faulty) ==
  [workers |-> workers, policy |-> policy, target |-> d :> target,
   identity |-> identity, excluded |-> excluded,
   unreadable |-> unreadable, faulty |-> faulty]
TreeSetups ==
  {SetupOf(1, p, t, i, {<<r, x>>}, {b}, {y}) :
     p \in Policies, t \in {r, b, Unresolvable}, i \in {Linked, Unlinked}}
  \cup {SetupOf(2, "FollowAll", r, Linked, {<<r, x>>}, {b}, {y}),
        SetupOf(2, "FollowAll", b, Linked, {<<r, x>>, <<r, a, y>>}, {}, {})}

=============================================================================
