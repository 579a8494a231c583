---------------------------- MODULE MCNamespace -----------------------------
(* Names for the runs of Namespace: x:y, and x::y, which UNLINK takes for it. *)
EXTENDS Namespace

SomeNames == {<<"x", "y">>, <<"x", "", "y">>}

=============================================================================
