------------------------------ MODULE MCAccess ------------------------------
(* Instances of Access for TLC: one run covers several mixes of requests.  *)
EXTENDS Access, TLC

Mix(kinds, changes, configured) ==
  [kinds |-> kinds, changes |-> changes, configured |-> configured]

\* The first parents at a new server; a family that changes its PIN; one that
\* changes its gateway; somebody who guesses.
AllMixes ==
  {Mix({"Setup", "NewPin", "Restart"}, 3, FALSE),
   Mix({"Login", "NewPin", "Restart"}, 2, TRUE),
   Mix({"NewGateway", "TrustCert", "NewPin", "Firmware"}, 3, TRUE),
   Mix({"Login", "Tick"}, 0, TRUE)}

Permuted == Permutations(Handlers) \union Permutations(Hosts)
              \union Permutations(Certs) \union Permutations(Pins)
=============================================================================
