------------------------------ MODULE MCPaging ------------------------------
(* Paging with two tasks on a handful of pages and frames.                  *)
EXTENDS Paging

CONSTANTS t1, t2
=============================================================================
