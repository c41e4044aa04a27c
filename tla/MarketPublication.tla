------------------------- MODULE MarketPublication -------------------------
(***************************************************************************)
(* What the market feed promises its client, as if a snapshot were one     *)
(* message: a build gathers offerings that carry its token, and is either  *)
(* published in one step, whole and with its token, or abandoned without a *)
(* trace.  MarketFeed implements it with chunks of a stream that may be    *)
(* cut off anywhere.                                                       *)
(***************************************************************************)
CONSTANTS Tokens, None, Offerings

VARIABLES
  current, gathered,   \* the token of the build, and what it found
  published, mark      \* the snapshot the client holds, and its token

Init == current \in Tokens /\ gathered = {} /\ published = {} /\ mark = None

Start ==
  /\ current' \in Tokens \ {current} /\ gathered' = {}
  /\ UNCHANGED <<published, mark>>

Gather ==
  /\ \E x \in Offerings : x.build = current /\ gathered' = gathered \cup {x}
  /\ UNCHANGED <<current, published, mark>>

Publish ==
  /\ published' = gathered /\ mark' = current
  /\ UNCHANGED <<current, gathered>>

Abandon == gathered' = {} /\ UNCHANGED <<current, published, mark>>

Next == Start \/ Gather \/ Publish \/ Abandon

Spec == Init /\ [][Next]_<<current, gathered, published, mark>>
=============================================================================
