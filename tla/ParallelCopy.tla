---------------------------- MODULE ParallelCopy ----------------------------
(* What the phi nodes of a block promise on one incoming edge: every phi     *)
(* result takes, all at once, the value its source had on entry to the edge. *)
CONSTANTS
  Name,     \* variables and constants that occur in the phi nodes
  NoName    \* a name without a phi node

VARIABLES
  source,   \* the name a phi result is copied from
  value     \* the value of every name

Init ==
  /\ source = [n \in Name |-> NoName]
  /\ value = [n \in Name |-> n]

\* One more phi node; nothing has been copied yet.
AddPhi ==
  /\ \E from, to \in Name : /\ source[to] = NoName
                            /\ source' = [source EXCEPT ![to] = from]
  /\ value = [n \in Name |-> n]
  /\ UNCHANGED value

Copied == [n \in Name |-> IF source[n] = NoName THEN value[n] ELSE value[source[n]]]

\* The copy happens once, from the values on entry.
Copy ==
  /\ value = [n \in Name |-> n]
  /\ value' = Copied
  /\ UNCHANGED source

Next == AddPhi \/ Copy

Spec == Init /\ [][Next]_<<source, value>>
=============================================================================
