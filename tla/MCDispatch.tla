----------------------------- MODULE MCDispatch -----------------------------
(***************************************************************************)
(* Finite instances of Dispatch.                                           *)
(***************************************************************************)
EXTENDS Dispatch

\* What the runtime's own bodies and the documented uses of methods nest: a
\* codec or a destructor reenters through AddRef and Release, a method calls
\* objects and other methods, a handler calls anything.
DocumentedNesting ==
    [object |-> {"object"}, method |-> {"object", "method", "affine"}, affine |-> {},
     handler |-> Kinds]

\* A method that also raises an event some Go handler listens to.
EventFromMethod == [DocumentedNesting EXCEPT !["method"] = {"object", "handler"}]

HandlersAndMethods == {"handler", "method"}
ObjectsOnly == {"object"}
=============================================================================
