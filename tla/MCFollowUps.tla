----------------------------- MODULE MCFollowUps -----------------------------
EXTENDS FollowUps, TLC

\* Spoken follow-ups are told apart by nothing the model does.
SpokenAlike == Permutations(Spoken)
=============================================================================
