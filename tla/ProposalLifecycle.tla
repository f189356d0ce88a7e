-------------------------- MODULE ProposalLifecycle --------------------------
(***************************************************************************)
(* What the proposal table promises a reader of it: a proposal is recorded *)
(* once, as open, and may be settled once, as merged or as closed, and as  *)
(* nothing that did not happen to it.  How branches, pull requests,        *)
(* refreshes and failures lead there is the subject of Proposals, which    *)
(* implements this specification.                                          *)
(***************************************************************************)
CONSTANT Proposals

VARIABLES
    life,   \* what the table says of each proposal
    fate    \* what has happened to it: "merged", "closed"

Happen == /\ \A p \in Proposals : fate[p] \subseteq fate'[p]
          /\ UNCHANGED life

Record(p) == /\ life[p] = "unrecorded"
             /\ life' = [life EXCEPT ![p] = "open"]
             /\ UNCHANGED fate

Settle(p, status) == /\ life[p] = "open"
                     /\ status \in fate[p]
                     /\ life' = [life EXCEPT ![p] = status]
                     /\ UNCHANGED fate

LifeInit == life = [p \in Proposals |-> "unrecorded"]

LifeNext == \/ Happen
            \/ \E p \in Proposals :
                  Record(p) \/ \E status \in {"merged", "closed"} : Settle(p, status)

LifeSpec == LifeInit /\ [][LifeNext]_<<life, fate>>
=============================================================================
