--------------------------- MODULE MCMemoryEngine ---------------------------
(* Instances of MemoryEngine for TLC: model values and the symmetries that  *)
(* the module's definitions respect.                                        *)
EXTENDS MemoryRefinement, TLC

Symmetric ==
  UNION {Permutations(S) : S \in {Ids, Workers, Users, Values \ Secrets}}

\* No memory has an expiry, in the table or in a copy: the run that asks what an update does to a
\* forget is kept to these states, where nothing else writes a stale copy.
NothingLapses ==
  \A id \in Ids : \A r \in {records[id]} \cup {held[w][id] : w \in Workers} :
    r # None => r.expires = Never

=============================================================================
