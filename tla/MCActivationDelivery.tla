------------------------ MODULE MCActivationDelivery ------------------------
(***************************************************************************)
(* Instances of ActivationDelivery for TLC.                                *)
(***************************************************************************)
EXTENDS ActivationDelivery

CONSTANTS t1, c1, c2

MCOwner == [c \in Contracts |-> t1]

\* The events in one of their orders; they are activated in any.
MCRank == CHOOSE f \in [Events -> 1..Cardinality(Events)] :
            \A e, g \in Events : f[e] = f[g] => e = g

\* Each event is the activation of one contract in its second revision.
MCContract == CHOOSE f \in [Events -> Contracts] :
                \A e, g \in Events : f[e] = f[g] => e = g
MCActivation == [e \in Events |-> [contract |-> MCContract[e], revision |-> 2]]

=============================================================================
