---------------------------- MODULE MCLazyHandle ----------------------------
(* Three goroutines and every DSN; a provider that requires one and has    *)
(* one behaves like one that requires none.                                *)
EXTENDS LazyHandle
=============================================================================
