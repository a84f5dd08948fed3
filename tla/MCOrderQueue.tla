---------------------------- MODULE MCOrderQueue ----------------------------
(***************************************************************************)
(* The values of the constants of OrderQueue for its runs.                 *)
(***************************************************************************)
EXTENDS OrderQueue, TLC

CONSTANTS f1, f2, r1, r2, p1, p2

One(x)    == f1 :> x
Two(x, y) == f1 :> x @@ f2 :> y

\* One request alone.
OpenKind    == One("open")
AdoptKind   == One("adopt")
BatchOfTwo  == One(2)
BatchOfSix  == One(6)
OneProject  == One(p1)

\* Two requests on the same node.
OpenBundleKind   == Two("open", "bundle")
AdoptBundleKind  == Two("adopt", "bundle")
AdoptProjectKind == Two("adopt", "project")
AdoptAdoptKind   == Two("adopt", "adopt")
AdoptOpenKind    == Two("adopt", "open")
BatchTwoOne      == Two(2, 1)
BatchOneOne      == Two(1, 1)
SameProject      == Two(p1, p1)
TwoProjects      == Two(p1, p2)
=============================================================================
