----------------------------- MODULE WholeCall -----------------------------
(***************************************************************************)
(* What the binding promises of every call with a variable-size output     *)
(* (itb3.hpp on its buffers and pumps): it delivers the whole output the   *)
(* library made of the object at one moment of the call, or it throws and  *)
(* delivers nothing.  How the call finds a large enough buffer, and how    *)
(* often it asks, is its own affair.                                       *)
(***************************************************************************)
EXTENDS Naturals

CONSTANT Lengths     \* lengths an output may have

VARIABLES
    offered,   \* lengths the whole output has had since the call began
    verdict,   \* running, delivered or refused
    got        \* length of what the caller has in hand

callVars == <<offered, verdict, got>>

Init ==
    /\ \E n \in Lengths : offered = {n}
    /\ verdict = "running" /\ got = 0

\* Another thread changes the object.
Change ==
    /\ verdict = "running"
    /\ \E n \in Lengths : offered' = offered \cup {n}
    /\ UNCHANGED <<verdict, got>>

Deliver ==
    /\ verdict = "running"
    /\ verdict' = "delivered" /\ got' \in offered
    /\ UNCHANGED offered

Refuse ==
    /\ verdict = "running"
    /\ verdict' = "refused"
    /\ UNCHANGED <<offered, got>>

\* A caller that only wanted the effect of the call drops the output.
Forget ==
    /\ verdict = "delivered"
    /\ got' = 0
    /\ UNCHANGED <<offered, verdict>>

Next == Change \/ Deliver \/ Refuse \/ Forget

Spec == Init /\ [][Next]_callVars

=============================================================================
