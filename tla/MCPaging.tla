------------------------------ MODULE MCPaging ------------------------------
(* Paging over lists of up to five rows; MaxEdits of them change meanwhile.  *)
EXTENDS Paging

\* No filter, and one that leaves out rows at either end of a page.
MCFilters == {RowIds, {2, 3, 5}}

MCShift == [n \in Limits |-> 10]
=============================================================================
