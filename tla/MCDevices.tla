----------------------------- MODULE MCDevices -----------------------------
(* Instances of Devices for TLC: one run covers several mixes.              *)
EXTENDS Devices, TLC

Mix(kinds, jobs, most) == [kinds |-> kinds, jobs |-> jobs, faults |-> most]

\* Two devices moved at once; a move beside an enrollment or an edit; names;
\* the list of clients while they come and go.
AllMixes ==
  {Mix({"Move"}, 2, 1),
   Mix({"Move", "LostAnswer"}, 1, 2),
   Mix({"Move", "Enroll"}, 2, 0),
   Mix({"Save", "Enroll", "Rename"}, 2, 0),
   Mix({"Save", "LostAnswer"}, 1, 1),
   Mix({"Open", "Enroll", "Churn"}, 1, 1)}
\* One move and one failure; every answer arrives.
JustMoves == {Mix({"Move"}, 1, 1)}

Permuted == Permutations(Devices) \union Permutations(Groups) \union Permutations(Callers)
=============================================================================
