------------------------- MODULE MCWebhookDelivery -------------------------
(* Instances of WebhookDelivery for TLC: events e1 and e2, endpoint p,     *)
(* replica a, handler runs s1 and s2.                                      *)
EXTENDS WebhookDelivery

CONSTANTS e1, e2, p, a, s1, s2

\* The first number drawn is e1's, whichever event is there first, and the second
\* is drawn before e1's selection begins: an admission may stay open for ever.
\* A third number, after an admission that failed, would only leave a gap.
\* Where e2 was there before e1, only crashes are looked at.
InTurn ==
  /\ serial <= 2
  /\ passed = {} \/ happened \subseteq {"crash"}
  /\ serial = 1 => /\ order[e2] = 0 /\ entry[e2] = NoEntry
                   /\ queue[e1] \in {"absent", "open"}
=============================================================================
