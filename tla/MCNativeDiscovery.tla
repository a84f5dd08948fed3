------------------------- MODULE MCNativeDiscovery -------------------------
(***************************************************************************)
(* The values of the constants of NativeDiscovery for its runs.            *)
(***************************************************************************)
EXTENDS NativeDiscovery, TLC

CONSTANTS f1, f2, x1, x2, x3

OneFile    == <<f1>>
TwoFiles   == <<f1, f2>>
OwnName    == f1 :> "k1" @@ f2 :> "k2"
SameName   == f1 :> "k1" @@ f2 :> "k1"
Names1     == f1 :> "k1"

LoopLoopFunc == x1 :> "loop" @@ x2 :> "loop" @@ x3 :> "func"
LoopFunc     == x1 :> "loop" @@ x2 :> "func"
LoopWebFunc  == x1 :> "loop" @@ x2 :> "web" @@ x3 :> "func"
LoopScan     == x1 :> "loop" @@ x2 :> "scan"

Disass       == <<"pdf", "afv">>
Decompile    == <<"pdc">>
Three(s)     == [x \in {x1, x2, x3} |-> s]
Two(s)       == [x \in {x1, x2} |-> s]
DisassThree    == Three(Disass)
DecompileThree == Three(Decompile)
DecompileTwo   == Two(Decompile)
SegmentsTwo    == Two(<<"segments">>)
=============================================================================
