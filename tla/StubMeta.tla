------------------------------ MODULE StubMeta ------------------------------
(***************************************************************************)
(* The stub library of a C library: what its dispatch function answers     *)
(* (src/stubsupport/stubcode.inc.c) from the tables that                   *)
(* NcccStubMacros.cmake generates.  An answer is the sequence of the cells *)
(* that are written, from out[0] on; the other cells are left alone.       *)
(***************************************************************************)
EXTENDS Marshal

CONSTANT Apis   \* the nccc_api() lines of a library, in their order

ASSUME ApisAssumption ==
    Apis \in Seq([in : Seq(Types), out : {<<>>} \cup {<<t>> : t \in Types}])

ApiIds == 0..(Len(Apis) - 1)
Api(id) == Apis[id + 1]
Stub(id) == <<"stub", id>>

\* out[0] is the name of the library.
library_info == <<"name", 0, Len(Apis), 0, 0, 0>>

library_export_info(id) ==
    IF id \notin ApiIds THEN <<-1>>
    ELSE <<0, id, "symbol", 0, 0, Stub(id), Len(Api(id).in), Len(Api(id).out)>>

\* The codes of the results come after those of the arguments.
library_arg_info(id) ==
    IF id \notin ApiIds THEN <<-1>>
    ELSE <<0, Len(Api(id).in), Len(Api(id).out)>> \o (Codes(Api(id).in) \o Codes(Api(id).out))

\* Any other operation is an abort().
stub_dispatch(op, id) == CASE op = 1 -> library_info
                           [] op = 2 -> library_export_info(id)
                           [] op = 6 -> library_arg_info(id)
=============================================================================
