------------------------------- MODULE JsonBody -------------------------------
(***************************************************************************)
(* The body of a response: a tree of JSON, whose leaves have a type and a   *)
(* number that stands for their value.                                      *)
(***************************************************************************)
Leaf(type, v) == [type |-> type, val |-> v]
Obj(fields)   == [type |-> "object", val |-> fields]
Arr(items)    == [type |-> "array", val |-> items]
Gone          == Leaf("undefined", 0)
=============================================================================
