------------------------------- MODULE Dlfcn -------------------------------
(***************************************************************************)
(* Dynamic linking for JavaScript: dlfcn_open and dlfcn_get                *)
(* (src/common/ncccdlfcn.c) over dlopen, dlsym and dlerror, which are the  *)
(* C library's on POSIX and those of src/common/win32-dlfcn.c on Windows.  *)
(* A handle is the library it stands for, an address the value Symtab      *)
(* gives; on POSIX the value of a symbol that exists may be a null pointer.*)
(***************************************************************************)
EXTENDS Integers

CONSTANTS Paths,   \* what may be given to dlfcn_open
          Names,   \* what may be given to dlfcn_get
          Symtab,  \* library -> symbol -> its value; its domain are the paths that load
          Null     \* the null pointer

Libraries == DOMAIN Symtab

ASSUME DlfcnAssumption ==
    /\ Libraries \subseteq Paths /\ Null \notin Paths
    /\ \A l \in Libraries : DOMAIN Symtab[l] \subseteq Names

VARIABLES platform,   \* "posix" or "win32"
          lastError,  \* dlerror has an error to report
          reply       \* the out cells of the last dlfcn_ call, and what it was asked

dlvars == <<platform, lastError, reply>>

NoReply == [op |-> "none", obj |-> Null, name |-> Null, res |-> 0, ptr |-> Null]

DlInit == /\ platform \in {"posix", "win32"}
          /\ lastError = FALSE
          /\ reply = NoReply

Has(l, n) == n \in DOMAIN Symtab[l] /\ (platform = "win32" => Symtab[l][n] # Null)

\* A call that succeeds leaves the error of an earlier one in lastError on Windows; POSIX
\* does not say.
ErrorAfterSuccess(e) == IF platform = "win32" THEN {e} ELSE {e, FALSE}

dlfcn_open(path) ==
    /\ lastError' \in IF path \in Libraries THEN ErrorAfterSuccess(lastError) ELSE {TRUE}
    /\ reply' = IF path \in Libraries
                  THEN [NoReply EXCEPT !.op = "open", !.obj = path, !.ptr = path]
                  ELSE [NoReply EXCEPT !.op = "open", !.obj = path, !.res = -1]
    /\ UNCHANGED platform

\* (void)dlerror() before dlsym.
ErrorBefore_Left == lastError
ErrorBefore == FALSE

\* dlerror() after dlsym reports, and clears, what ErrorBefore and dlsym left.
dlfcn_get(handle, name) ==
    /\ \E errs \in IF Has(handle, name) THEN ErrorAfterSuccess(ErrorBefore) ELSE {TRUE} :
          reply' = IF errs
                     THEN [op |-> "get", obj |-> handle, name |-> name, res |-> -1,
                           ptr |-> -1]
                     ELSE [op |-> "get", obj |-> handle, name |-> name, res |-> 0,
                           ptr |-> Symtab[handle][name]]
    /\ lastError' = FALSE
    /\ UNCHANGED platform

-----------------------------------------------------------------------------
DlTypeOK == /\ platform \in {"posix", "win32"}
            /\ lastError \in BOOLEAN
            /\ reply.op \in {"none", "open", "get"} /\ reply.res \in {0, -1}
            /\ reply.op = "get" => reply.obj \in Libraries /\ reply.name \in Names

\* dlfcn_get reports the outcome of its own lookup, whatever failed before it: 0 and the
\* value exactly if the library has the symbol, a null value included.
GetReportsItself ==
    reply.op = "get" => /\ reply.res = 0 <=> Has(reply.obj, reply.name)
                        /\ reply.res = 0 => reply.ptr = Symtab[reply.obj][reply.name]
=============================================================================
