--------------------------- MODULE StreamDelivery ---------------------------
(***************************************************************************)
(* What a streaming call promises its caller, whatever the transport: the  *)
(* messages come one at a time, in the order they were sent, none twice    *)
(* and none left out; the call is settled once; and it is settled as a     *)
(* success only after the last message that arrived was handed over.       *)
(***************************************************************************)
EXTENDS Naturals, Sequences

VARIABLES
    arriving,   \* how many messages the network carries to the client whole
    flawless,   \* TRUE if the response carries no error and breaks off nowhere
    delivered,  \* the messages handed to the caller, by their number
    outcome     \* "pending", "success" or "failure"

vars == <<arriving, flawless, delivered, outcome>>

Init ==
    /\ arriving \in Nat
    /\ flawless \in BOOLEAN
    /\ delivered = <<>>
    /\ outcome = "pending"

Deliver ==
    /\ outcome = "pending"
    /\ Len(delivered) < arriving
    /\ delivered' = Append(delivered, Len(delivered) + 1)
    /\ UNCHANGED <<arriving, flawless, outcome>>

Succeed ==
    /\ outcome = "pending"
    /\ flawless
    /\ Len(delivered) = arriving
    /\ outcome' = "success"
    /\ UNCHANGED <<arriving, flawless, delivered>>

Fail ==
    /\ outcome = "pending"
    /\ outcome' = "failure"
    /\ UNCHANGED <<arriving, flawless, delivered>>

Next == Deliver \/ Succeed \/ Fail

Spec == Init /\ [][Next]_vars
============================================================================
