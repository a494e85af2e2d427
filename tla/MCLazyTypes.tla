---------------------------- MODULE MCLazyTypes ----------------------------
(***************************************************************************)
(* Instances of LazyTypes: the files library contains the readers of the   *)
(* other, there are as many names as values of an atom, and one name is of *)
(* a method of both types.                                                 *)
(***************************************************************************)
EXTENDS LazyTypes

CONSTANTS io, files, reader, file, plain, read, free, import_fn, other

MCMethods == [t \in Types |-> IF t = reader THEN {read, free} ELSE {free}]
MCContains == [l \in Libraries |-> IF l = io THEN {reader} ELSE {reader, file}]
=============================================================================
