-------------------------------- MODULE Ledger --------------------------------
(***************************************************************************)
(* What the write protocol promises to the clients of the service, however *)
(* their requests are lost, repeated or raced and whenever the server      *)
(* stops: a request takes effect in one indivisible step, at most once     *)
(* under its request id, and only on the revision its client had seen.     *)
(***************************************************************************)
EXTENDS Naturals, Sequences

CONSTANTS
  Jobs,
  Requests \* records with at least the fields id, job and expected

VARIABLE accepted \* accepted[j]: the requests that took effect on job j

Init == accepted = [j \in Jobs |-> <<>>]

Accept(m) ==
  /\ \A j \in Jobs : \A k \in DOMAIN accepted[j] : accepted[j][k].id # m.id
  /\ m.expected = Len(accepted[m.job])
  /\ accepted' = [accepted EXCEPT ![m.job] = Append(@, m)]

Next == \E m \in Requests : Accept(m)

Spec == Init /\ [][Next]_accepted
===============================================================================
