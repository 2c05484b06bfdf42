-------------------------- MODULE MCContinuityGate --------------------------
(***************************************************************************)
(* Instances of ContinuityGate for TLC.  The universe has one subject, one *)
(* relation and five objects; o3's triple is in the seed, o4's is          *)
(* forbidden, and a candidate may invent a relation outside it.            *)
(***************************************************************************)
EXTENDS ContinuityGate

CONSTANTS s1, o1, o2, o3, o4, o5, requires, invents, first, twoNew, second, later,
          twice, forbidden, invented, junk

T(o) == <<s1, requires, o>>
MCSubjects == {s1}
MCObjects == {o1, o2, o3, o4, o5}
MCRelations == {requires}
MCCombinations == {T(o) : o \in MCObjects}
MCForbidden == {T(o4)}
MCSeed == {T(o3)}
MCTriples == MCCombinations \cup {<<s1, invents, o1>>}
MCContents ==
  [c \in {first, twoNew, second, later, twice, forbidden, invented, junk} |->
     CASE c = first     -> <<T(o1)>>
       [] c = twoNew    -> <<T(o2), T(o1)>>
       [] c = second    -> <<T(o2)>>
       [] c = later     -> <<T(o5)>>
       [] c = twice     -> <<T(o2), T(o2)>>
       [] c = forbidden -> <<T(o1), T(o4)>>
       [] c = invented  -> <<<<s1, invents, o1>>>>
       [] c = junk      -> <<>>]
MCAssertionsOf == [c \in Candidates |-> MCContents[c]]
MCIds == 1..MaxSubmissions

(* Bound of the race: the readers come when the last call is over.  (What  *)
(* a reader meets in the middle of a call is the other instance's.)        *)
ReadersComeAfter ==
  \/ \A r \in Readers : rpc[r] = "idle" /\ answer[r] = "none"
  \/ submissions = MaxSubmissions /\ \A w \in Workers : pc[w] = "idle"
=============================================================================
