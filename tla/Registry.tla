------------------------------ MODULE Registry ------------------------------
(***************************************************************************)
(* The functions a formula can call: the registry (registry/functions, of  *)
(* which sheet-core and sheet-fn generate their tables) and the dispatch   *)
(* of a call to the kernel of its family.                                  *)
(***************************************************************************)
EXTENDS DateFunctions

Meta == CoreMeta @@ DateMeta

Is(fn, flag) == flag \in Meta[fn][3]

Arity(fn, args) == Len(args) >= Meta[fn][1] /\ Len(args) <= Meta[fn][2]

Kernel(fn, args, here) ==
    CASE fn \in DOMAIN CoreMeta -> CoreKernel(fn, args, here)
      [] fn \in DOMAIN DateMeta -> DateKernel(fn, args)

(* dispatch_rich: a call with too few or too many arguments is #VALUE!.    *)
Dispatch(fn, args, here) ==
    IF Arity(fn, args) THEN Kernel(fn, args, here) ELSE Error("#VALUE!")
=============================================================================
