------------------------------- MODULE Totals -------------------------------
(***************************************************************************)
(* Sums over what is numbered from 1: the bytes of a policy's bindings     *)
(* (PolicyPath), the traffic of an authorization's periods and services    *)
(* (TrafficLedger).                                                        *)
(***************************************************************************)
EXTENDS Naturals

\* The sum of f[1], ..., f[n].
Total(f, n) ==
  LET upTo[i \in 0 .. n] == IF i = 0 THEN 0 ELSE upTo[i - 1] + f[i]
  IN  upTo[n]

=============================================================================
