---------------------------- MODULE MCGoCache ----------------------------
(***************************************************************************)
(* Three calls of exec.  Two of them share a process and may differ in     *)
(* cgo; the third asks for cgo, or has another file and wants a fresh      *)
(* compilation, or has the end of the others' code as its go.mod.          *)
(***************************************************************************)
EXTENDS GoCache, TLC

CONSTANTS c1, c2, c3, p1, p2

MCProcessOf == (c1 :> p1) @@ (c2 :> p1) @@ (c3 :> p2)

Plain   == [code |-> <<7, 8>>, go_mod |-> None, files |-> "f", cgo |-> FALSE, no_cache |-> FALSE]
Cgo     == [Plain EXCEPT !.cgo = TRUE]
Rebuilt == [Plain EXCEPT !.files = "g", !.no_cache = TRUE]
Divided == [Plain EXCEPT !.code = <<7>>, !.go_mod = <<8>>]

MCRequests ==
  (c1 :> {Plain, Cgo}) @@ (c2 :> {Plain, Cgo}) @@ (c3 :> {Cgo, Rebuilt, Divided})

Symmetry == Permutations({c1, c2})
=============================================================================
