----------------------------- MODULE MCScanOut -----------------------------
(* Instances of ScanOut: two elements over two regions of one output.      *)
EXTENDS ScanOut

CONSTANTS p1, p2, e1, e2

\* e1 fills the output; e2 moves over it.
ElementPlaces == e1 :> {{p1, p2}} @@ e2 :> {{p1}, {p2}}
=============================================================================
