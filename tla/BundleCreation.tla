--------------------------- MODULE BundleCreation ---------------------------
(***************************************************************************)
(* What create() of a BundleBuilder promises its callers                    *)
(* (packages/sign/src/bundler/base.ts).  A call resolves only when each of  *)
(* the witnesses has put the signature on its record, settles once, and is  *)
(* free to reject at any time before.  The records are the services' own:   *)
(* they only grow, whether a call is pending or has settled, so a rejected  *)
(* call may have left, or may still leave, its signature on some of them.   *)
(***************************************************************************)
CONSTANTS
  Calls,   \* the create() calls
  Slots    \* the witnesses, by their place in the list of the builder

VARIABLES
  outcome,   \* outcome[c]: what the promise of call c has come to
  recorded   \* recorded[c]: the witnesses that have the signature of c on record

vars == <<outcome, recorded>>

TypeOK ==
  /\ outcome  \in [Calls -> {"pending", "resolved", "rejected"}]
  /\ recorded \in [Calls -> SUBSET Slots]

Init ==
  /\ outcome = [c \in Calls |-> "pending"]
  /\ recorded = [c \in Calls |-> {}]

Record ==
  /\ recorded' \in [Calls -> SUBSET Slots]
  /\ \A c \in Calls : recorded[c] \subseteq recorded'[c]
  /\ UNCHANGED outcome

Resolve(c) ==
  /\ outcome[c] = "pending" /\ recorded[c] = Slots
  /\ outcome' = [outcome EXCEPT ![c] = "resolved"]
  /\ UNCHANGED recorded

Reject(c) ==
  /\ outcome[c] = "pending"
  /\ outcome' = [outcome EXCEPT ![c] = "rejected"]
  /\ UNCHANGED recorded

Next == Record \/ \E c \in Calls : Resolve(c) \/ Reject(c)

Spec == Init /\ [][Next]_vars
=============================================================================
