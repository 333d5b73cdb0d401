--------------------------- MODULE AndersenCollect --------------------------
(***************************************************************************)
(* The constraints of the pointer analysis (aSSA/andersen/                 *)
(* ConstraintCollect.cpp, ExternalLibrary.cpp).  A program is a record     *)
(*   nodes   : the number of nodes                                         *)
(*   globals : set of [val, obj, kind, init]                               *)
(*   fun     : functions by name: val and obj (NoNode unless the address   *)
(*             is taken), ret and va (return and vararg nodes), params,    *)
(*             isDecl, isVarArg, lib (the table of ExternalLibrary.cpp     *)
(*             that lists a declaration, or "unknown")                     *)
(*   insts   : set of instructions                                         *)
(* Values appear as the nodes AndersNodeFactory gives them; NoNode is a    *)
(* value whose type is not a pointer, for which nothing is collected.      *)
(***************************************************************************)
EXTENDS Integers, Sequences

NoNode == -1

(* The nodes AndersNodeFactory creates first. *)
UniversalPtr == 0
UniversalObj == 1
NullPtr == 2
NullObj == 3

Constraint(type, dest, src) ==
  IF NoNode \in {dest, src} THEN {} ELSE {[type |-> type, dest |-> dest, src |-> src]}

ADDR_OF(dest, src) == Constraint("addr_of", dest, src)
LOAD(dest, src) == Constraint("load", dest, src)
STORE(dest, src) == Constraint("store", dest, src)
COPY(dest, src) == Constraint("copy", dest, src)

(* A global of another unit has no initializer, a null one is "zero", and  *)
(* init is the set of objects whose addresses occur in any other.          *)
addGlobalInitializerConstraints(g) ==
  CASE g.kind = "extern" -> COPY(g.obj, UniversalObj)
    [] g.kind = "zero"   -> COPY(g.obj, NullObj)
    [] g.kind = "init"   -> UNION {ADDR_OF(g.obj, o) : o \in g.init}

collectConstraintsForGlobals(P) ==
  (UNION {ADDR_OF(g.val, g.obj) \cup addGlobalInitializerConstraints(g) : g \in P.globals})
    \cup UNION {ADDR_OF(P.fun[f].val, P.fun[f].obj) : f \in DOMAIN P.fun}

(* addConstraintForExternalLibrary, for the tables of known functions.     *)
(* i.obj is the object an allocation creates, i.tmp the node of a memcpy.  *)
addConstraintForExternalLibrary(P, i, lib) ==
  LET arg == i.args IN
  CASE lib = "noop" -> {}
    [] lib = "malloc" /\ i.val # NoNode -> ADDR_OF(i.val, i.obj)
    [] lib = "malloc" /\ i.val = NoNode -> STORE(arg[1], i.obj)   \* posix_memalign
    [] lib = "realloc" /\ arg[1] # NullPtr -> ADDR_OF(i.val, i.obj)
    [] lib = "realloc" /\ arg[1] = NullPtr -> COPY(i.val, arg[1])
    [] lib = "retArg0" -> COPY(i.val, arg[1])
    [] lib = "retArg1" -> COPY(i.val, arg[2])
    [] lib = "retArg2" -> COPY(i.val, arg[3])
    [] lib = "memcpy" ->
         LOAD(i.tmp, arg[2]) \cup STORE(arg[1], i.tmp) \cup COPY(i.val, arg[1])
    [] lib = "convert" -> IF arg[2] = NullPtr THEN {} ELSE STORE(arg[1], arg[2])
    [] lib = "va_start" -> ADDR_OF(arg[1], P.fun[i.fn].va)

(* A call the tables do not know may give its arguments any value. *)
polluteArguments(i) == UNION {COPY(i.args[k], UniversalPtr) : k \in DOMAIN i.args}

(* Mutant: the arguments after the formal ones are dropped. *)
addArgumentConstraintForCall_NoVarArg(i, f) ==
  UNION {IF f.params[k] = NoNode THEN {}
         ELSE COPY(f.params[k], IF i.args[k] = NoNode THEN UniversalPtr ELSE i.args[k]) :
           k \in DOMAIN f.params \cap DOMAIN i.args}

addArgumentConstraintForCall(i, f) ==
  (UNION {IF f.params[k] = NoNode THEN {}
          ELSE COPY(f.params[k], IF i.args[k] = NoNode THEN UniversalPtr ELSE i.args[k]) :
            k \in DOMAIN f.params \cap DOMAIN i.args})
    \cup IF f.isVarArg THEN UNION {COPY(f.va, i.args[k]) : k \in DOMAIN i.args \ DOMAIN f.params}
         ELSE {}

(* A direct call. *)
addConstraintForDirectCall(P, i, f) ==
  IF ~ f.isDecl THEN COPY(i.val, f.ret) \cup addArgumentConstraintForCall(i, f)
  ELSE IF f.lib = "unknown" THEN COPY(i.val, UniversalPtr) \cup polluteArguments(i)
  ELSE addConstraintForExternalLibrary(P, i, f.lib)

(* An indirect call may reach every function whose address is taken and    *)
(* that takes that many arguments; its result is unknown.                  *)
addConstraintForIndirectCall(P, i) ==
  LET candidates == {f \in DOMAIN P.fun :
        /\ P.fun[f].val # NoNode
        /\ P.fun[f].isVarArg \/ Len(P.fun[f].params) = Len(i.args)}
      constraintsFor(f) ==
        IF ~ f.isDecl THEN addArgumentConstraintForCall(i, f)
        ELSE IF f.lib = "unknown" THEN polluteArguments(i)
        ELSE addConstraintForExternalLibrary(P, i, f.lib)
  IN  COPY(i.val, UniversalPtr) \cup UNION {constraintsFor(P.fun[f]) : f \in candidates}

(* collectConstraintsForInstruction.  "copy" stands for getelementptr, the *)
(* casts, phi and select, and for inttoptr of an unknown integer when the  *)
(* source is UniversalPtr.                                                 *)
collectConstraintsForInstruction(P, i) ==
  CASE i.op = "alloca" -> ADDR_OF(i.val, i.obj)
    [] i.op = "load"   -> LOAD(i.val, i.ptr)
    [] i.op = "store"  -> STORE(i.ptr, i.src)
    [] i.op = "copy"   -> UNION {COPY(i.val, s) : s \in i.srcs}
    [] i.op = "ret"    -> COPY(P.fun[i.fn].ret, i.src)
    [] i.op = "va_arg" -> COPY(i.val, P.fun[i.fn].va)
    [] i.op = "call"   -> addConstraintForDirectCall(P, i, P.fun[i.callee])
    [] i.op = "icall"  -> addConstraintForIndirectCall(P, i)

collectConstraints(P) ==
  ADDR_OF(UniversalPtr, UniversalObj) \cup STORE(UniversalObj, UniversalObj)
    \cup ADDR_OF(NullPtr, NullObj)
    \cup collectConstraintsForGlobals(P)
    \cup UNION {collectConstraintsForInstruction(P, i) : i \in P.insts}
=============================================================================
