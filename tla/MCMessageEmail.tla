--------------------------- MODULE MCMessageEmail ----------------------------
(* MessageEmail with a user who talks to two peers, for safety runs: the peers, *)
(* the workers and the operations are interchangeable.                        *)
EXTENDS MessageEmail, TLC

CONSTANTS Peers, Hub

ASSUME Conversations = {{Hub, p} : p \in Peers}

Interchangeable ==
    Permutations(Workers) \cup Permutations(Operations) \cup Permutations(Peers)
=============================================================================
