------------------------------- MODULE Function -------------------------------
(***************************************************************************)
(* The function a mid-end pass works on.  Each pass runs over the functions *)
(* of the program one after the other and keeps nothing between them.       *)
(***************************************************************************)
EXTENDS IR

VARIABLES
  params,   \* parameters_, their names
  blocks,   \* blocks_; a block's number is its index
  phase     \* the step of the passes that comes next

function == <<params, blocks>>

Blocks == DOMAIN blocks
===============================================================================
