----------------------------- MODULE MCRuleSync -----------------------------
(* Instances of RuleSync for TLC.                                          *)
EXTENDS RuleSync, TLC

\* Any family the validation accepts; families with one device in each group;
\* and those where the last group is still to be created.
AnyFamily ==
  {ps \in [ProfileIds -> Groups] :
     \A p, q \in ProfileIds :
       p # q /\ ps[p] # None /\ ps[q] # None => ps[p] \intersect ps[q] = {}}
OneEach == {ps \in AnyFamily : \A p \in ProfileIds : ps[p] # None /\ Cardinality(ps[p]) = 1}
Growing ==
  OneEach \union
  {ps \in AnyFamily : /\ Cardinality({p \in ProfileIds : ps[p] = None}) = 1
                      /\ \A p \in ProfileIds : ps[p] # None => Cardinality(ps[p]) = 1}

\* No edit or move of rules falls into a pass.  A bound: no pass begins after a
\* fault, and of the faults only a crash comes after a pass that missed a rule.
Passes ==
  /\ PassesApart
  /\ faults > 0 => janitor.pc = "rest" /\ suspects = NoSuspects

Permuted == Permutations(RuleIds) \union Permutations(GwIds)
              \union Permutations(Handlers) \union Permutations(Devices)
              \union Permutations(ProfileIds)
=============================================================================
