------------------------------ MODULE FlowField ------------------------------
(***************************************************************************)
(* The living field of Flow mode: which elements travel with a line, and   *)
(* how the exchange shifts them.  Saliences and momenta are counted in     *)
(* ten-thousandths, the precision they are saved with; a text is its       *)
(* distinct words of four letters or more and its bytes.                   *)
(***************************************************************************)
EXTENDS Selections

CONSTANTS Texts,         \* name -> [words, head, bytes]: head is what 220 bytes keep of words
          Relevant,      \* line -> the canonical contributions relevant to its intents
          Canonical, Threads,   \* id -> [words, bytes], ids in order
          MaxElements, MaxLive, ByteBudget

ASSUME FlowBoundsAssumption ==
  /\ MaxElements \in Nat \ {0} /\ MaxLive \in Nat \ {0} /\ ByteBudget \in Nat
  /\ Len(Canonical) \in Nat /\ DOMAIN Canonical = 1..Len(Canonical)

One == 10000
NewSalience == 5000
ProvisionalSalience == 3500
ThreadSalience == 2200
MomentumStep == 1800
SalienceFloor == 500
TopicBytes == 220
RecentRepliesKept == 3
BlankText == "blank"      \* the empty reply, and what stands for an unobserved one

Scaled(x, percent) == (x * percent + 50) \div 100
Atmost(x) == IF x > One THEN One ELSE x

(* _jaccard(a, b) >= percent: no words on either side is no similarity.    *)
Alike(a, b, percent) ==
  a \cup b # {} /\ 100 * Cardinality(a \cap b) >= percent * Cardinality(a \cup b)
Continues(a, b) == Alike(a, b, 12)
SameTopic(a, b) == Alike(a, b, 55)
Verbatim(a, b) == Alike(a, b, 60)

FreshField == [elements |-> <<>>, recent |-> <<>>, turns |-> 0]

FlowElement(id, words, bytes, salience, seen) ==
  [id |-> id, words |-> words, bytes |-> bytes, salience |-> salience, momentum |-> 0,
   seen |-> seen, streak |-> 0]
Kind(e) == e.id[1]
Score(e) == e.salience + e.momentum
IdsOf(elements) == {e.id : e \in ToSet(elements)}

(* Element ids compare as strings, "canonical:" < "thread:" < "topic:human:"  *)
(* < "topic:model:"; the token that ends a topic's id is random, here the     *)
(* turn that made it.                                                         *)
IdRank(id) == (CASE id[1] = "canonical" -> 0 [] id[1] = "thread" -> 100
                 [] id[2] = "human" -> 200 [] OTHER -> 300) + id[3]

(* --- field before ------------------------------------------------------ *)

RelevantCanonical(m) == Filter([i \in DOMAIN Canonical |-> i], LAMBDA i : i \in Relevant[m])

AsElements(numbers, salience, seen) ==
  [i \in DOMAIN numbers |->
     LET c == numbers[i]
     IN  FlowElement(<<"canonical", "", c>>, Canonical[c].words, Canonical[c].bytes, salience, seen)]

Candidates(field, m) ==
  field.elements
  \o Filter(AsElements(RelevantCanonical(m), ProvisionalSalience, 0),
            LAMBDA e : e.id \notin IdsOf(field.elements))
  \o Filter([i \in DOMAIN Threads |->
               FlowElement(<<"thread", "", i>>, Threads[i].words, Threads[i].bytes, ThreadSalience, 0)],
            LAMBDA e : e.id \notin IdsOf(field.elements))

TravelsBefore(a, b) ==
  \/ Score(a) > Score(b)
  \/ Score(a) = Score(b) /\ a.seen > b.seen
  \/ Score(a) = Score(b) /\ a.seen = b.seen /\ IdRank(a.id) < IdRank(b.id)

(* What does not fit any more is passed over, not waited for.              *)
ComposeField(field, m) ==
  LET pool == SortedBy(Candidates(field, m), TravelsBefore)
      live[n \in 0..Len(pool)] ==
        IF n = 0 THEN <<>>
        ELSE LET chosen == live[n - 1]
                 used == FoldLeft(LAMBDA sum, e : sum + e.bytes, 0, chosen)
             IN  IF Len(chosen) < MaxLive /\ used + pool[n].bytes <= ByteBudget
                 THEN Append(chosen, pool[n]) ELSE chosen
  IN  live[Len(pool)]

(* --- integration ------------------------------------------------------- *)

(* The repetition check takes the maximum over the earlier replies that    *)
(* are not blank; when there are earlier replies and all are, it raises.   *)
ObservationsRaise(field, r) ==
  r # BlankText /\ field.recent # <<>> /\ \A i \in DOMAIN field.recent : field.recent[i] = BlankText

Strengthened(e) ==
  [e EXCEPT !.salience = Atmost(@ + MomentumStep), !.momentum = Atmost(@ + MomentumStep), !.seen = @ + 1]

(* A traveller that the exchange repeats, continues, or leaves alone.      *)
Travelled(e, m, r) ==
  LET said == Texts[r].words
      repeated == Verbatim(e.words, said)
      continued == r # BlankText /\ (repeated \/ Continues(e.words, said) \/ Continues(e.words, Texts[m].words))
  IN  IF repeated /\ e.streak >= 1
      THEN [e EXCEPT !.salience = IF Scaled(@, 40) < SalienceFloor THEN SalienceFloor ELSE Scaled(@, 40),
                     !.momentum = 0, !.streak = @ + 1]
      ELSE IF continued THEN [Strengthened(e) EXCEPT !.streak = IF repeated THEN @ + 1 ELSE 0]
      ELSE [e EXCEPT !.salience = Scaled(@, IF Kind(e) = "thread" THEN 99 ELSE 55),
                     !.momentum = Scaled(@, 50), !.streak = 0]

Dormant(e) == [e EXCEPT !.salience = Scaled(@, IF Kind(e) = "thread" THEN 99 ELSE 97)]

(* Canonical state that was relevant is tracked from now on, travelled or  *)
(* not; threads never are.                                                 *)
Materialized(elements, m) ==
  elements \o Filter(AsElements(RelevantCanonical(m), NewSalience, 1),
                     LAMBDA e : e.id \notin IdsOf(elements))

Topic(t, source, turn) ==
  FlowElement(<<"topic", source, turn>>, Texts[t].head,
              IF Texts[t].bytes > TopicBytes THEN TopicBytes ELSE Texts[t].bytes, NewSalience, 1)

(* Mutant: only the newest element is compared.                            *)
UpsertNewestTopic(elements, topic) ==
  IF elements # <<>> /\ SameTopic(Last(elements).words, topic.words)
  THEN [elements EXCEPT ![Len(elements)] = Strengthened(@)]
  ELSE Append(elements, topic)

UpsertTopic(elements, topic) ==
  LET same == {i \in DOMAIN elements : Kind(elements[i]) = "topic" /\ SameTopic(elements[i].words, topic.words)}
  IN  IF same = {} THEN Append(elements, topic)
      ELSE [elements EXCEPT ![CHOOSE i \in same : \A j \in same : i <= j] = Strengthened(@)]

Kept(elements) ==
  LET alive == Filter(elements, LAMBDA e : e.salience >= IF Kind(e) = "thread" THEN 200 ELSE SalienceFloor)
  IN  IF Len(alive) <= MaxElements THEN alive
      ELSE SubSeq(SortedBy(alive, LAMBDA a, b : Score(a) > Score(b)), 1, MaxElements)

IntegrateField(field, live, m, r, turn) ==
  LET stepped == [i \in DOMAIN field.elements |->
                    LET e == field.elements[i] IN IF e.id \in IdsOf(live) THEN Travelled(e, m, r) ELSE Dormant(e)]
      relevant == Materialized(field.elements, m)
      arrived == [i \in DOMAIN relevant |->
                    IF i \in DOMAIN stepped THEN stepped[i]
                    ELSE IF relevant[i].id \in IdsOf(live) THEN relevant[i] ELSE Dormant(relevant[i])]
      heard == UpsertTopic(arrived, Topic(m, "human", turn))
      spoken == IF r = BlankText \/ SameTopic(Texts[r].words, Texts[m].words) THEN heard
                ELSE UpsertTopic(heard, Topic(r, "model", turn))
      recent == Append(field.recent, r)
  IN  [elements |-> Kept(spoken),
       recent |-> IF Len(recent) > RecentRepliesKept THEN Tail(recent) ELSE recent,
       turns |-> field.turns + 1]

(* An element that was made up to the given turn.  Threads are not.        *)
IsMade(e, turn) ==
  /\ e = [id |-> e.id, words |-> e.words, bytes |-> e.bytes, salience |-> e.salience,
          momentum |-> e.momentum, seen |-> e.seen, streak |-> e.streak]
  /\ e.salience \in Int /\ e.momentum \in Int
  /\ Kind(e) \in {"canonical", "topic"}
  /\ Kind(e) = "topic" => e.id[3] \in Int /\ e.id[3] <= turn
AreMade(es, turn) ==
  /\ Len(es) \in Nat /\ es = [i \in 1..Len(es) |-> es[i]]
  /\ \A i \in DOMAIN es : IsMade(es[i], turn)

(* What integrate_field says of its result: bounded, no element twice and  *)
(* none below its floor, and never two topics on one subject.              *)
Lean(es) ==
  /\ Len(es) <= MaxElements
  /\ \A i \in DOMAIN es : es[i].salience >= SalienceFloor
  /\ \A i, j \in DOMAIN es : i # j =>
       /\ es[i].id # es[j].id
       /\ ~(Kind(es[i]) = "topic" /\ Kind(es[j]) = "topic" /\ SameTopic(es[i].words, es[j].words))
=============================================================================
