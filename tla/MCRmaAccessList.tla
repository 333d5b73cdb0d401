--------------------------- MODULE MCRmaAccessList --------------------------
(* Instances of RmaAccessList: accesses by address, size and type.          *)
EXTENDS RmaAccessList

CONSTANTS Addrs, Sizes, Types

MCAccesses ==
  {[Addr |-> a, Size |-> n, Itv |-> FromMemory(a, n), Type |-> t] :
     a \in Addrs, n \in Sizes, t \in Types}

=============================================================================
