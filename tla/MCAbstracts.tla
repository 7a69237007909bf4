----------------------------- MODULE MCAbstracts -----------------------------
(* An instance of AbstractReview for TLC. *)
EXTENDS AbstractReview, TLC

Swaps == Permutations(Reviewers) \union Permutations(Abstracts) \union Permutations(Authors)
         \union Permutations(Themes) \union Permutations(Uploads)

(* A bound: one abstract is edited, reviewed and decided, or two abstracts *)
(* are numbered by two themes, or one abstract is decided twice while its  *)
(* files are uploaded. A reviewer sets preferences while nobody reviews,   *)
(* a theme is switched off while there is no committee, and an abstract is *)
(* edited under two committee accounts at most.                            *)
OneStory ==
  LET here == {a \in Abstracts : Exists(a)}
      reviewing == \E a \in Abstracts, r \in Reviewers : review[a][r] # None
      preferring == prefRows # {} \/ \E q \in inflight : q.op = "themes"
      committee == reviewing \/ preferring \/ \E r \in Reviewers : member[r]
      uploading == \E u \in Uploads : upload[u].pc # "idle"
      several == \/ Cardinality(here) > 1
                 \/ Cardinality({t \in Themes : theme[t] # None}) > 1
                 \/ \E t \in Themes : theme[t] # None /\ theme[t].sortOrder > 0
      edited == \/ \E a \in here : abs[a].version > 1
                \/ \E q \in inflight : q.op = "edit"
      Decided(n) == \A a \in here : decided[a] <= n
      committed == {r \in Reviewers : member[r] \/ \E a \in Abstracts : review[a][r] # None}
  IN  /\ edited => Cardinality(committed) <= 2
      /\ several => ~committee /\ ~uploading /\ ~edited /\ Decided(1)
      /\ uploading => ~committee /\ ~edited
      /\ committee => Decided(1) /\ \A q \in inflight :
           q.op # "theme" /\ (q.op = "edit" => q.author = abs[q.on].author)
      /\ committee => \A t \in Themes : theme[t] = None \/ theme[t].active
      /\ preferring => ~reviewing /\ Cardinality({r \in Reviewers : member[r]}) <= 1
=============================================================================
