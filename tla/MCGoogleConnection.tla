------------------------ MODULE MCGoogleConnection --------------------------
(* Instances of GoogleConnection for TLC. *)
EXTENDS GoogleConnection, TLC

\* Neither users nor tasks are told apart.
Symmetric == Permutations(Users) \cup Permutations(Tasks)

\* No exchange is under way for a consent that a disconnect has withdrawn: the run that asks what a
\* refresh does to a disconnect is kept to these states.
ExchangesNotOvertaken == \A u \in Users : Exchanges(Tasks, u) \subseteq standing[u]

=============================================================================
