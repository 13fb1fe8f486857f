-------------------------- MODULE MCAgentPlanClaim --------------------------
\* AgentPlanClaim for TLC: requests of one kind are interchangeable.
EXTENDS AgentPlanClaim, TLC

Interchangeable ==
  Permutations(Creators) \cup Permutations(Finalizers) \cup Permutations(Submitters)
    \cup Permutations(Browsers) \cup Permutations(Jobs)
    \cup Permutations(Workers) \cup Permutations(Proposals)

=============================================================================
