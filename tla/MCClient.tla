------------------------------ MODULE MCClient ------------------------------
(* The values of Client's constants for the run: a stub library and a      *)
(* WebAssembly module whose symbols are mixed.                             *)
EXTENDS Client, TLC

CONSTANTS stublib, wasmlib, missing, entry, helper, absent, address

\* helper is a symbol whose value is a null pointer.
Tables == (stublib :> ((entry :> address) @@ (helper :> Null))) @@ (wasmlib :> (entry :> address))
Kinds == (stublib :> "stub") @@ (wasmlib :> "wasm")

\* The third signature is longer than the run's SigBuf keeps.
Library == <<[in |-> <<"s32", "ptr">>, out |-> <<"f64">>],
             [in |-> <<>>, out |-> <<"u64">>],
             [in |-> <<"s64", "f32", "uptr", "s32">>, out |-> <<>>],
             [in |-> <<"f64">>, out |-> <<"ptr">>]>>

Function(r, i, o) == [role |-> r, variable |-> FALSE, in |-> i, out |-> o]
Var(r, t) == [role |-> r, variable |-> TRUE, in |-> <<>>, out |-> <<t>>]

Symbols == <<Function("import", <<"u32", "f64">>, <<"u32">>),
             Var("import", "wasm_rt_memory_t"),
             Function("export", <<"f32", "u32">>, <<"f64">>),
             Var("export", "wasm_rt_table_t"),
             Function("import", <<"u64">>, <<>>),
             Function("export", <<>>, <<"u64">>),
             Var("import", "f64"),
             Function("export", <<"u32">>, <<>>)>>

\* The second signature is registered twice.
Registered == <<[in |-> <<"f32", "u32">>, out |-> <<"f64">>],
                [in |-> <<"u32">>, out |-> <<>>],
                [in |-> <<"u32">>, out |-> <<>>],
                [in |-> <<>>, out |-> <<"f32">>]>>
=============================================================================
