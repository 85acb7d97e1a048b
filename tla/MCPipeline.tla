----------------------------- MODULE MCPipeline -----------------------------
(* Instances of Pipeline for TLC. *)
EXTENDS Pipeline

\* Blank, only marks, and both sides of each limit (3 for a title, 5 for a query, 7 for a text).
Texts ==
  {[length |-> 0, title |-> 0], [length |-> 2, title |-> 0], [length |-> 3, title |-> 3],
   [length |-> 4, title |-> 3], [length |-> 4, title |-> 4], [length |-> 5, title |-> 5],
   [length |-> 7, title |-> 3], [length |-> 8, title |-> 8]}

Ordinary == [length |-> 3, title |-> 3]

FactSets ==
  {{}, {[key |-> "k", value |-> 1]}, {[key |-> "k", value |-> 1], [key |-> "k", value |-> 2]},
   {[key |-> "k", value |-> 1], [key |-> "l", value |-> 1]}, {[key |-> "l", value |-> 2]}}

Kinds ==
  [id : {"s", "t", "u"}, matches : BOOLEAN, facts : FactSets, blank : {FALSE}]
  \cup [id : {"t"}, matches : BOOLEAN, facts : {{}}, blank : {TRUE}]

MCRequests ==
  {[text |-> t, sources |-> <<>>, model |-> m] : t \in Texts, m \in BOOLEAN}
  \cup {[text |-> Ordinary, sources |-> <<a, b, c>>, model |-> FALSE] :
          a \in Kinds, b \in Kinds, c \in {k \in Kinds : k.id = "u"}}
  \cup {[text |-> Ordinary, sources |-> <<a, b>>, model |-> TRUE] : a \in Kinds, b \in Kinds}

MCInterpretations ==
  [length : {3, 6}, title : {0, 3, 4}, blank : {FALSE}, crowded : {FALSE},
   planned : {"single", "template", "refused"}, when : {"none", "blank", "given"}]
  \cup [length : {1}, title : {0, 1}, blank : BOOLEAN, crowded : BOOLEAN, planned : {"single", "template"},
        when : {"none"}]
=============================================================================
