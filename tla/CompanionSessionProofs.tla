----------------------- MODULE CompanionSessionProofs -----------------------
(***************************************************************************)
(* Proofs about CompanionSession, ReturnPath and ContextField for any      *)
(* lines, answers, sizes and limits and any number of turns: what an       *)
(* accepted answer rests on, and that a state question gets one.           *)
(***************************************************************************)
EXTENDS CompanionSession, FiniteSetTheorems, WellFoundedInduction, TLAPS

-----------------------------------------------------------------------------
(* Sequences at some of their positions.                                   *)

LEMMA Smallest ==
  ASSUME NEW S \in SUBSET Nat, S # {}
  PROVE  Min(S) \in S /\ \A x \in S : Min(S) <= x
<1> DEFINE R == {ss \in Nat \X Nat : ss[1] < ss[2]}
<1>1. IsWellFoundedOn(R, Nat)
  BY NatLessThanWellFounded DEF OpToRel
<1>2. PICK n \in S : \A m \in S : ~(<<m, n>> \in R)
  <2> HIDE DEF R
  <2> QED BY <1>1, WFMin
<1>3. \A m \in S : n <= m
  <2> TAKE m \in S
  <2>1. n \in Nat /\ m \in Nat /\ ~(<<m, n>> \in R)
    BY <1>2
  <2> QED BY <2>1
<1> QED BY <1>3 DEF Min

LEMMA Largest ==
  ASSUME NEW k \in Nat, NEW S \in SUBSET (0..k), S # {}
  PROVE  Max(S) \in S /\ \A x \in S : x <= Max(S)
<1> DEFINE T == {k - x : x \in S}
<1>1. T \in SUBSET Nat /\ T # {}
  <2>1. \A x \in S : x \in Nat /\ x <= k
    OBVIOUS
  <2>2. PICK x : x \in S
    OBVIOUS
  <2>3. k - x \in T
    BY <2>2
  <2> QED BY <2>1, <2>3
<1>2. Min(T) \in T /\ \A y \in T : Min(T) <= y
  <2> HIDE DEF T
  <2> QED BY <1>1, Smallest
<1>3. PICK x \in S : Min(T) = k - x
  BY <1>2
<1>4. \A y \in S : x >= y
  <2> TAKE y \in S
  <2>1. k - y \in T
    OBVIOUS
  <2>2. k - x <= k - y
    BY <1>2, <1>3, <2>1
  <2> QED BY <2>2
<1> QED BY <1>4 DEF Max

Upto(I, place, i) == {j \in I : place[j] <= place[i]}
Places(I, place) ==
  (\A i \in I : place[i] \in Int) /\ (\A i, j \in I : place[i] = place[j] => i = j)

(* Every rank is somebody's, and everybody has one.                        *)
LEMMA Ranks ==
  ASSUME NEW I, IsFiniteSet(I), NEW place, Places(I, place)
  PROVE  /\ Cardinality(I) \in Nat
         /\ \A n \in 1..Cardinality(I) : \E i \in I : Cardinality(Upto(I, place, i)) = n
         /\ \A i \in I : Cardinality(Upto(I, place, i)) \in 1..Cardinality(I)
         /\ \A i, j \in I :
              Cardinality(Upto(I, place, i)) = Cardinality(Upto(I, place, j)) => i = j
<1> DEFINE size == Cardinality(I)
           rank == [i \in I |-> Cardinality(Upto(I, place, i))]
<1>1. size \in Nat
  BY FS_CardinalityType
<1>2. \A i \in I : IsFiniteSet(Upto(I, place, i)) /\ Cardinality(Upto(I, place, i)) \in 1..size
  <2> TAKE i \in I
  <2> DEFINE U == Upto(I, place, i)
  <2>1. U \in SUBSET I /\ i \in U
    BY DEF Upto, Places
  <2> HIDE DEF U
  <2>2. IsFiniteSet(U) /\ Cardinality(U) <= size
    BY <2>1, FS_Subset
  <2>3. Cardinality(U) \in Nat /\ Cardinality(U) # 0
    BY <2>1, <2>2, FS_CardinalityType, FS_EmptySet
  <2>4. IsFiniteSet(U) /\ Cardinality(U) \in 1..size
    BY <1>1, <2>2, <2>3
  <2> QED BY <2>4 DEF U
<1>3. ASSUME NEW i \in I, NEW j \in I, place[i] < place[j]
      PROVE  Cardinality(Upto(I, place, i)) # Cardinality(Upto(I, place, j))
  <2>1. Upto(I, place, i) \in SUBSET Upto(I, place, j)
    BY <1>3 DEF Upto, Places
  <2>2. j \in Upto(I, place, j) /\ j \notin Upto(I, place, i)
    BY <1>3 DEF Upto, Places
  <2> QED BY <1>2, <2>1, <2>2, FS_Subset
<1>4. ASSUME NEW i \in I, NEW j \in I,
             Cardinality(Upto(I, place, i)) = Cardinality(Upto(I, place, j))
      PROVE  i = j
  <2>1. ~(place[i] < place[j]) /\ ~(place[j] < place[i])
    BY <1>3, <1>4
  <2> QED BY <2>1 DEF Places
<1>5. rank \in [I -> 1..size] /\ \A i \in I : rank[i] = Cardinality(Upto(I, place, i))
  BY <1>2
<1>6. rank \in Injection(I, 1..size)
  <2>1. \A i, j \in I : rank[i] = rank[j] => i = j
    BY <1>4, <1>5
  <2> HIDE DEF rank
  <2> QED BY <1>5, <2>1 DEF Injection, IsInjective
<1>7. IsFiniteSet(1..size) /\ Cardinality(1..size) = size
  BY <1>1, FS_Interval
<1>8. rank \in Surjection(I, 1..size)
  <2> HIDE DEF rank
  <2> QED BY <1>6, <1>7, FS_Injection
<1>9. \A n \in 1..size : \E i \in I : Cardinality(Upto(I, place, i)) = n
  <2> HIDE DEF rank
  <2> QED BY <1>5, <1>8 DEF Surjection
<1> QED BY <1>1, <1>2, <1>4, <1>9

(* a holds the elements of sq at the positions I and no others.            *)
HoldsThose(a, sq, I) ==
  /\ \A n \in DOMAIN a : \E i \in I : a[n] = sq[i]
  /\ \A i \in I : \E n \in DOMAIN a : a[n] = sq[i]

LEMMA ArrangedFrom ==
  ASSUME NEW S, NEW sq \in Seq(S), NEW I \in SUBSET (DOMAIN sq), NEW place, Places(I, place)
  PROVE  Arranged(sq, I, place) \in Seq(S) /\ HoldsThose(Arranged(sq, I, place), sq, I)
<1> DEFINE Rank(i) == Cardinality(Upto(I, place, i))
           a == Arranged(sq, I, place)
<1>1. IsFiniteSet(I)
  <2>1. PICK m \in Nat : DOMAIN sq = 1..m
    OBVIOUS
  <2>2. IsFiniteSet(1..m)
    BY FS_Interval
  <2> QED BY <2>1, <2>2, FS_Subset
<1>2. /\ Cardinality(I) \in Nat
      /\ \A n \in 1..Cardinality(I) : \E i \in I : Rank(i) = n
      /\ \A i \in I : Rank(i) \in 1..Cardinality(I)
      /\ \A i, j \in I : Rank(i) = Rank(j) => i = j
  BY <1>1, Ranks
<1>3. PICK size \in Nat : size = Cardinality(I)
  BY <1>2
<1>4. a = [n \in 1..size |-> sq[CHOOSE i \in I : Rank(i) = n]]
  BY <1>3 DEF Arranged, Upto
<1> HIDE DEF Rank, a
<1>5. \A n \in 1..size : \E i \in I : a[n] = sq[i] /\ Rank(i) = n
  <2> TAKE n \in 1..size
  <2>1. (CHOOSE i \in I : Rank(i) = n) \in I /\ Rank(CHOOSE i \in I : Rank(i) = n) = n
    BY <1>2, <1>3
  <2> QED BY <1>4, <2>1
<1>6. DOMAIN a = 1..size
  BY <1>4
<1>7. a \in Seq(S)
  <2>1. \A n \in 1..size : a[n] \in S
    BY <1>5
  <2>2. a = [n \in 1..size |-> a[n]]
    BY <1>4
  <2> QED BY <2>1, <2>2
<1>8. ASSUME NEW i \in I PROVE \E n \in DOMAIN a : a[n] = sq[i]
  <2>1. Rank(i) \in 1..size
    BY <1>2, <1>3
  <2>2. PICK j \in I : a[Rank(i)] = sq[j] /\ Rank(j) = Rank(i)
    BY <1>5, <2>1
  <2> QED BY <1>2, <1>6, <2>1, <2>2
<1> QED BY <1>5, <1>6, <1>7, <1>8 DEF a, HoldsThose

LEMMA AtFrom ==
  ASSUME NEW S, NEW sq \in Seq(S), NEW I \in SUBSET (DOMAIN sq)
  PROVE  At(sq, I) \in Seq(S) /\ HoldsThose(At(sq, I), sq, I)
<1> DEFINE place == [i \in I |-> i]
<1>1. Places(I, place)
  BY DEF Places
<1>2. At(sq, I) = Arranged(sq, I, place)
  BY DEF At
<1> HIDE DEF place
<1> QED BY <1>1, <1>2, ArrangedFrom

LEMMA FirstIndex ==
  ASSUME NEW S, NEW sq \in Seq(S), NEW I \in SUBSET (1..Len(sq)),
         NEW k, k = IF I # {} THEN Min(I) ELSE 0
  PROVE  k = 0 \/ k \in I
<1>1. CASE I = {}
  BY <1>1
<1>2. CASE I # {}
  <2>1. I \in SUBSET Nat
    OBVIOUS
  <2> QED BY <1>2, <2>1, Smallest
<1> QED BY <1>1, <1>2

LEMMA LastIndex ==
  ASSUME NEW S, NEW sq \in Seq(S), NEW I \in SUBSET (1..Len(sq)),
         NEW k, k = IF I # {} THEN Max(I) ELSE 0
  PROVE  k = 0 \/ k \in I
<1>1. CASE I = {}
  BY <1>1
<1>2. CASE I # {}
  <2>1. I \in SUBSET (0..Len(sq)) /\ Len(sq) \in Nat
    OBVIOUS
  <2> QED BY <1>2, <2>1, Largest
<1> QED BY <1>1, <1>2

LEMMA First ==
  ASSUME NEW S, NEW sq \in Seq(S), NEW n \in Nat
  PROVE  AtMost(n, sq) \in Seq(S) /\ (sq # <<>> /\ n > 0 => /\ AtMost(n, sq) # <<>>
                                                            /\ AtMost(n, sq)[1] = sq[1])
<1> DEFINE k == IF Len(sq) < n THEN Len(sq) ELSE n
<1>1. k \in 0..Len(sq) /\ AtMost(n, sq) = SubSeq(sq, 1, k)
  BY DEF AtMost
<1> HIDE DEF k
<1>2. SubSeq(sq, 1, k) \in Seq(S) /\ Len(SubSeq(sq, 1, k)) = k
  BY <1>1
<1>3. ASSUME sq # <<>>, n > 0 PROVE k > 0 /\ SubSeq(sq, 1, k)[1] = sq[1]
  <2>1. k > 0
    BY <1>3 DEF k
  <2> QED BY <1>1, <2>1
<1> QED BY <1>1, <1>2, <1>3

-----------------------------------------------------------------------------
(* The texts and lines of a session, and the obligation a question puts.   *)

(* The strings written here are strings, which the provers do not know.    *)
Word ==
  STRING \cup
  {"user", "must", "thread", "identity", "cloud enabled", "local", "sensors", "tools", "model",
   "profile", "edge", "repair budget", "operator", "intent", "purpose", "fully local",
   "transducer", "active profile", "goal", "no goal", "no intent", "no operator",
   "cloud configured", "local only", "no threads", "goal empty", "intent empty",
   "operator empty", "cloud enabled short", "thread count", "recent", "no recent dialogue",
   "no dialogue", "no recent turns", "fallback", "assistant", "quote", "code", "recorded", "code told",
   "nothing", "design_intent", "edge_or_model", "cloud_policy", "open_threads", "none"}

Line == {l \in Seq(Word) : l # <<>>}

(* The texts of a session: the model's, and those of the substrate's own.  *)
Told == {"quote", "code", "recorded", "code told"}
OwnTexts ==
  {<<"fallback", w>> : w \in Word \ Told}
  \cup {<<"fallback", "quote", m>> : m \in DOMAIN Messages}
  \cup {<<"fallback", "code", m>> : m \in DOMAIN Messages}
  \cup {<<"fallback", "recorded", a>> : a \in DOMAIN Answers}
  \cup {<<"fallback", "code told", a>> : a \in DOMAIN Answers}
Text == {<<"model", a>> : a \in DOMAIN Answers} \cup OwnTexts
Exchange == [user : DOMAIN Messages, answer : Text]

(* Lines of the state and claims: never the human's, never marked.         *)
PlainLine == {l \in Line : l[1] \notin {"user", "must"}}

Given(sub) == sub.threads \in Seq(STRING)

LEMMA Tuples ==
  ASSUME NEW S
  PROVE  /\ \A x \in S : <<x>> \in Seq(S) /\ <<x>> # <<>>
         /\ \A x, y \in S : <<x, y>> \in Seq(S) /\ <<x, y>> # <<>>
         /\ \A x, y, z \in S : <<x, y, z>> \in Seq(S) /\ <<x, y, z>> # <<>>
OBVIOUS

LEMMA Lines ==
  ASSUME NEW w \in Word
  PROVE  /\ <<w>> \in Line
         /\ w \notin {"user", "must"} => <<w>> \in PlainLine
         /\ \A v \in Word : <<w, v>> \in Line
         /\ \A v \in Word : w \notin {"user", "must"} => <<w, v>> \in PlainLine
<1>1. <<w>> \in Seq(Word) /\ <<w>> # <<>> /\ <<w>>[1] = w
  BY Tuples
<1>2. \A v \in Word : <<w, v>> \in Seq(Word) /\ <<w, v>> # <<>> /\ <<w, v>>[1] = w
  BY Tuples
<1> QED BY <1>1, <1>2 DEF Line, PlainLine

LEMMA Plain ==
  ASSUME NEW l \in PlainLine
  PROVE  Core(l) = l /\ Core(Must(l)) = l /\ Must(l) \in Line
<1>1. l \in Seq(Word) /\ l # <<>> /\ l[1] # "must" /\ l[1] # "user"
  BY DEF PlainLine, Line
<1>2. Must(l) \in Seq(Word) /\ Must(l)[1] = "must" /\ Must(l) # <<>> /\ Tail(Must(l)) = l
  <2>1. <<"must">> \in Seq(Word)
    BY DEF Word
  <2> QED BY <1>1, <2>1 DEF Must
<1>3. Core(l) = l /\ Core(Must(l)) = l
  BY <1>1, <1>2 DEF Core
<1> QED BY <1>2, <1>3 DEF Line

LEMMA OwnPair ==
  ASSUME NEW w \in Word, w \notin Told
  PROVE  <<"fallback", w>> \in Text /\ <<"fallback", w>>[1] = "fallback"
BY DEF Text, OwnTexts

LEMMA OwnTriple ==
  ASSUME NEW x, NEW y, NEW z, x = <<"fallback", y, z>>
  PROVE  x[1] = "fallback"
OBVIOUS

LEMMA TextShape ==
  ASSUME NEW t \in Text
  PROVE  /\ t \in Seq(Word) /\ Len(t) >= 2 /\ t[1] \in {"model", "fallback"}
         /\ t[1] = "fallback" => t \in OwnTexts
         /\ t[1] = "model" => \E a \in DOMAIN Answers : t = <<"model", a>>
<1>1. {"model", "fallback"} \cup Told \subseteq Word
  BY DEF Word, Told
<1>2. DOMAIN Answers \subseteq Word /\ DOMAIN Messages \subseteq Word
  BY TextsAssumption DEF Word
<1>3. CASE \E a \in DOMAIN Answers : t = <<"model", a>>
  BY <1>1, <1>2, <1>3
<1>4. ASSUME NEW w \in Word, t = <<"fallback", w>>
      PROVE  t \in Seq(Word) /\ Len(t) >= 2 /\ t[1] = "fallback"
  BY <1>1, <1>4
<1>5. ASSUME NEW how \in Told, NEW x \in Word, t = <<"fallback", how, x>>
      PROVE  t \in Seq(Word) /\ Len(t) >= 2 /\ t[1] = "fallback"
  BY <1>1, <1>5
<1>6. CASE t \in OwnTexts
  <2>1. \/ \E w \in Word : t = <<"fallback", w>>
        \/ \E how \in Told, x \in Word : t = <<"fallback", how, x>>
    BY <1>2, <1>6 DEF OwnTexts, Told
  <2> QED BY <1>4, <1>5, <1>6, <2>1
<1> QED BY <1>3, <1>6 DEF Text

LEMMA QuotedWords ==
  ASSUME NEW t \in OwnTexts
  PROVE  Quoted(t).words \in Nat
<1>1. CASE \E w \in Word \ Told : t = <<"fallback", w>>
  <2>1. PICK w \in Word \ Told : t = <<"fallback", w>>
    BY <1>1
  <2>2. Quoted(t) = [words |-> 0, topics |-> {w}, link |-> FALSE, template |-> FALSE, asserts |-> {}]
    BY <2>1 DEF Quoted, Told
  <2> QED BY <2>2
<1>2. CASE \E m \in DOMAIN Messages : t = <<"fallback", "quote", m>>
  BY <1>2, TextsAssumption DEF Quoted
<1>3. CASE \E m \in DOMAIN Messages : t = <<"fallback", "code", m>>
  BY <1>3 DEF Quoted
<1>4. CASE \E a \in DOMAIN Answers : t = <<"fallback", "recorded", a>>
  BY <1>4, TextsAssumption DEF Quoted
<1>5. CASE \E a \in DOMAIN Answers : t = <<"fallback", "code told", a>>
  <2>1. PICK a \in DOMAIN Answers : t = <<"fallback", "code told", a>>
    BY <1>5
  <2>2. t[2] = "code told" /\ t[3] = a
    BY <2>1
  <2>3. Quoted(t) = [words |-> 0, topics |-> Answers[a].topics, link |-> FALSE, template |-> FALSE,
                     asserts |-> {}]
    BY <2>2 DEF Quoted
  <2> QED BY <2>3
<1> QED BY <1>1, <1>2, <1>3, <1>4, <1>5 DEF OwnTexts

LEMMA OwnText ==
  ASSUME NEW t \in Text
  PROVE  /\ t[1] = "fallback" => Said(t).words # 0 /\ Said(t).template = Quoted(t).template
         /\ Tail(<<"assistant">> \o t) = t /\ (<<"assistant">> \o t)[1] = "assistant"
         /\ (<<"assistant">> \o t)[2] = t[1] /\ (<<"assistant">> \o t)[3] = t[2]
         /\ t[2] \in Word
         /\ Tail(t) \in Seq(Word)
         /\ t \in Line /\ Core(t) = t /\ t # NoText
<1>1. t \in Seq(Word) /\ Len(t) >= 2 /\ t[1] \in {"model", "fallback"} /\ <<"assistant">> \in Seq(Word)
  <2>1. "assistant" \in Word
    BY DEF Word
  <2> QED BY <2>1, TextShape
<1>2. ASSUME t[1] = "fallback" PROVE Said(t).words # 0 /\ Said(t).template = Quoted(t).template
  <2>1. Said(t).words = 8 + Quoted(t).words /\ Said(t).template = Quoted(t).template
    BY <1>2 DEF Said
  <2>2. Quoted(t).words \in Nat
    BY <1>2, TextShape, QuotedWords
  <2> QED BY <2>1, <2>2
<1>3. t \in Line /\ Core(t) = t /\ t # NoText
  BY <1>1 DEF Line, Core, NoText
<1> QED BY <1>1, <1>2, <1>3

LEMMA Exchanges ==
  ASSUME NEW r \in Seq(Exchange), NEW i \in 1..Len(r)
  PROVE  /\ r[i] \in Exchange /\ r[i].user \in DOMAIN Messages /\ r[i].answer \in Text
         /\ r[i] = [user |-> r[i].user, answer |-> r[i].answer]
<1>1. r[i] \in Exchange
  OBVIOUS
<1> QED BY <1>1 DEF Exchange

Source ==
  {<<"user", u>> : u \in DOMAIN Messages} \cup {<<"assistant">> \o a : a \in Text} \cup {<<"nothing">>}

LEMMA SourceType ==
  ASSUME NEW r \in Seq(Exchange), NEW m
  PROVE  PickRememberSource(r, m) \in Source
<1> DEFINE Last1 == SelectLastInSeq(r, LAMBDA t : Messages[t.user].code)
           Last2 == SelectLastInSeq(r, LAMBDA t : /\ Messages[t.user].chars >= 20
                                                  /\ "asking" \notin Messages[t.user].cues
                                                  /\ Messages[t.user].values # {})
           Last3 == SelectLastInSeq(r, LAMBDA t : Said(t.answer).recalls)
           Last4 == SelectLastInSeq(r, LAMBDA t : /\ "introduces" \in Messages[t.user].cues
                                                  /\ Messages[t.user].values # {})
<1>1. Last1 = 0 \/ Last1 \in 1..Len(r)
  <2> DEFINE I == {i \in 1..Len(r) : Messages[r[i].user].code}
  <2>1. Last1 = IF I # {} THEN Max(I) ELSE 0
    BY DEF SelectLastInSeq
  <2> HIDE DEF Last1
  <2> QED BY <2>1, LastIndex
<1>2. Last2 = 0 \/ Last2 \in 1..Len(r)
  <2> DEFINE I == {i \in 1..Len(r) : /\ Messages[r[i].user].chars >= 20
                                     /\ "asking" \notin Messages[r[i].user].cues
                                     /\ Messages[r[i].user].values # {}}
  <2>1. Last2 = IF I # {} THEN Max(I) ELSE 0
    BY DEF SelectLastInSeq
  <2> HIDE DEF Last2
  <2> QED BY <2>1, LastIndex
<1>3. Last3 = 0 \/ Last3 \in 1..Len(r)
  <2> DEFINE I == {i \in 1..Len(r) : Said(r[i].answer).recalls}
  <2>1. Last3 = IF I # {} THEN Max(I) ELSE 0
    BY DEF SelectLastInSeq
  <2> HIDE DEF Last3
  <2> QED BY <2>1, LastIndex
<1>4. Last4 = 0 \/ Last4 \in 1..Len(r)
  <2> DEFINE I == {i \in 1..Len(r) : /\ "introduces" \in Messages[r[i].user].cues
                                     /\ Messages[r[i].user].values # {}}
  <2>1. Last4 = IF I # {} THEN Max(I) ELSE 0
    BY DEF SelectLastInSeq
  <2> HIDE DEF Last4
  <2> QED BY <2>1, LastIndex
<1>5. PickRememberSource(r, m) =
        IF "token" \in Messages[m].cues /\ Last1 # 0 THEN <<"user", r[Last1].user>>
        ELSE IF ("self" \in Messages[m].cues \/ "token" \notin Messages[m].cues) /\ Last2 # 0
             THEN <<"user", r[Last2].user>>
        ELSE IF Last3 # 0 THEN <<"assistant">> \o r[Last3].answer
        ELSE IF Last4 # 0 THEN <<"user", r[Last4].user>>
        ELSE IF Last1 # 0 THEN <<"user", r[Last1].user>>
        ELSE <<"nothing">>
  BY DEF PickRememberSource
<1>6. \A i \in 1..Len(r) : r[i].user \in DOMAIN Messages /\ r[i].answer \in Text
  BY Exchanges
<1> HIDE DEF Last1, Last2, Last3, Last4
<1> QED BY <1>1, <1>2, <1>3, <1>4, <1>5, <1>6 DEF Source

LEMMA RecallTextType ==
  ASSUME NEW source \in Source
  PROVE  RecallText(source) \in Text /\ RecallText(source)[1] = "fallback"
<1>1. CASE \E u \in DOMAIN Messages : source = <<"user", u>>
  <2>1. PICK u \in DOMAIN Messages : source = <<"user", u>>
    BY <1>1
  <2>2. RecallText(source) = <<"fallback", IF Messages[u].code THEN "code" ELSE "quote", u>>
    BY <2>1 DEF RecallText
  <2> QED BY <2>2 DEF Text, OwnTexts
<1>2. CASE \E t \in Text : source = <<"assistant">> \o t
  <2>1. PICK t \in Text : source = <<"assistant">> \o t
    BY <1>2
  <2>2. /\ Tail(source) = t /\ source[1] = "assistant" /\ source[2] = t[1] /\ source[3] = t[2]
        /\ t[1] \in {"model", "fallback"}
    BY <2>1, OwnText, TextShape
  <2>3. CASE t[1] = "fallback"
    BY <2>2, <2>3 DEF RecallText
  <2>4. CASE t[1] = "model"
    <3>1. PICK a \in DOMAIN Answers : t = <<"model", a>>
      BY <2>4, TextShape
    <3>2. source[1] = "assistant" /\ source[2] = "model" /\ source[3] = a
      BY <2>2, <3>1
    <3>3. \/ RecallText(source) = <<"fallback", "code told", a>>
          \/ RecallText(source) = <<"fallback", "recorded", a>>
      BY <3>2 DEF RecallText
    <3>4. <<"fallback", "code told", a>> \in Text
      BY DEF Text, OwnTexts
    <3>5. <<"fallback", "recorded", a>> \in Text
      BY DEF Text, OwnTexts
    <3>6. RecallText(source) \in Text
      BY <3>3, <3>4, <3>5
    <3>7. RecallText(source)[1] = "fallback"
      BY <3>3, OwnTriple
    <3> QED BY <3>6, <3>7
  <2> QED BY <2>2, <2>3, <2>4
<1>3. CASE source = <<"nothing">>
  <2>1. RecallText(source) = <<"fallback", "nothing">>
    BY <1>3 DEF RecallText
  <2>2. "nothing" \in Word /\ "nothing" \notin Told
    BY DEF Word, Told
  <2> QED BY <2>1, <2>2, OwnPair
<1> QED BY <1>1, <1>2, <1>3 DEF Source

QuestionKinds ==
  {"none", "cloud_policy", "operator", "goal", "design_intent", "edge_or_model", "open_threads",
   "recent_recall"}

LEMMA QuestionKind ==
  ASSUME NEW m
  PROVE  ClassifyStateQuestion(m) \in QuestionKinds
<1> DEFINE I == {i \in 1..Len(QuestionOrder) : QuestionOrder[i] \in Messages[m].asks}
           k == IF I # {} THEN Min(I) ELSE 0
<1>1. /\ Len(QuestionOrder) = 9
      /\ QuestionOrder[1] = "cloud_policy" /\ QuestionOrder[2] = "operator" /\ QuestionOrder[3] = "prove"
      /\ QuestionOrder[4] = "design_intent" /\ QuestionOrder[5] = "goal"
      /\ QuestionOrder[6] = "edge_or_model" /\ QuestionOrder[7] = "open_threads"
      /\ QuestionOrder[8] = "store" /\ QuestionOrder[9] = "recent_recall"
  BY DEF QuestionOrder
<1>2. k \in 0..9
  <2>1. CASE I = {}
    BY <2>1
  <2>2. CASE I # {}
    <3>1. I \in SUBSET Nat /\ I \subseteq 1..9
      BY <1>1
    <3> HIDE DEF I
    <3>2. Min(I) \in I
      BY <2>2, <3>1, Smallest
    <3>3. Min(I) \in 1..9
      BY <3>1, <3>2
    <3>4. k = Min(I)
      BY <2>2
    <3> HIDE DEF k
    <3> QED BY <3>3, <3>4
  <2> QED BY <2>1, <2>2
<1>3. ClassifyStateQuestion(m) =
        IF k = 0 THEN "none"
        ELSE CASE QuestionOrder[k] = "prove" -> "goal"
               [] QuestionOrder[k] = "store" -> "none"
               [] OTHER -> QuestionOrder[k]
  BY DEF ClassifyStateQuestion, SelectInSeq
<1> HIDE DEF k
<1>4. k = 0 \/ k = 1 \/ k = 2 \/ k = 3 \/ k = 4 \/ k = 5 \/ k = 6 \/ k = 7 \/ k = 8 \/ k = 9
  BY <1>2
<1> QED BY <1>1, <1>3, <1>4 DEF QuestionKinds

(* What can be told of a question: claims to keep, evidence to show, and   *)
(* an answer of the substrate's own.                                       *)
Owed(ob) ==
  /\ ob.claims \in Seq(PlainLine) /\ ob.claims # <<>>
  /\ ob.text \in Text /\ ob.text[1] = "fallback"
  /\ ob.evidence \in Seq(Line)

LEMMA ClaimsType ==
  ASSUME NEW sub, Given(sub), NEW kind \in QuestionKinds \ {"none", "recent_recall"}
  PROVE  Claims(sub, kind) \in Seq(PlainLine) /\ Claims(sub, kind) # <<>>
<1> DEFINE told == {"goal", "no goal", "intent", "no intent", "operator", "no operator", "edge",
                    "model", "active profile", "cloud configured", "local", "local only",
                    "no threads"}
<1>1. told \subseteq Word /\ \A w \in told : w \notin {"user", "must"}
  BY DEF Word
<1>2. /\ <<"goal">> \in PlainLine /\ <<"no goal">> \in PlainLine /\ <<"intent">> \in PlainLine
      /\ <<"no intent">> \in PlainLine /\ <<"operator">> \in PlainLine
      /\ <<"no operator">> \in PlainLine /\ <<"edge">> \in PlainLine /\ <<"model">> \in PlainLine
      /\ <<"active profile">> \in PlainLine /\ <<"cloud configured">> \in PlainLine
      /\ <<"local">> \in PlainLine /\ <<"local only">> \in PlainLine
      /\ <<"no threads">> \in PlainLine
  <2>1. \A w \in told : <<w>> \in PlainLine
    <3> HIDE DEF told
    <3> QED BY <1>1, Lines
  <2> QED BY <2>1
<1>3. CASE kind = "goal"
  <2>1. Claims(sub, kind) = <<IF sub.goal THEN <<"goal">> ELSE <<"no goal">>>>
    BY <1>3 DEF Claims
  <2> QED BY <1>2, <2>1, Tuples
<1>4. CASE kind = "design_intent"
  <2>1. Claims(sub, kind) = <<IF sub.design_intent THEN <<"intent">> ELSE <<"no intent">>>>
    BY <1>4 DEF Claims
  <2> QED BY <1>2, <2>1, Tuples
<1>5. CASE kind = "operator"
  <2>1. Claims(sub, kind) = <<IF sub.person THEN <<"operator">> ELSE <<"no operator">>>>
    BY <1>5 DEF Claims
  <2> QED BY <1>2, <2>1, Tuples
<1>6. CASE kind = "edge_or_model"
  <2>1. Claims(sub, kind) = <<<<"edge">>, <<"model">>, <<"active profile">>>>
    BY <1>6 DEF Claims
  <2> QED BY <1>2, <2>1, Tuples
<1>7. CASE kind = "cloud_policy"
  <2>1. Claims(sub, kind) = IF sub.cloud THEN <<<<"cloud configured">>>>
                            ELSE <<<<"local">>, <<"local only">>>>
    BY <1>7 DEF Claims
  <2> QED BY <1>2, <2>1, Tuples
<1>8. CASE kind = "open_threads"
  <2>1. Claims(sub, kind) = IF sub.threads = <<>> THEN <<<<"no threads">>>>
                            ELSE [i \in DOMAIN sub.threads |-> <<"thread", sub.threads[i]>>]
    BY <1>8 DEF Claims
  <2>2. CASE sub.threads = <<>>
    BY <1>2, <2>1, <2>2, Tuples
  <2>3. CASE sub.threads # <<>>
    <3> DEFINE lines == [i \in DOMAIN sub.threads |-> <<"thread", sub.threads[i]>>]
    <3>1. PICK n \in Nat : DOMAIN sub.threads = 1..n /\ n # 0
      BY <2>3 DEF Given
    <3>2. \A i \in 1..n : <<"thread", sub.threads[i]>> \in PlainLine
      <4> TAKE i \in 1..n
      <4>1. sub.threads[i] \in STRING
        BY <3>1 DEF Given
      <4>2. sub.threads[i] \in Word /\ "thread" \in Word
        BY <4>1 DEF Word
      <4> QED BY <4>2, Lines
    <3>3. lines \in Seq(PlainLine) /\ lines # <<>>
      BY <3>1, <3>2
    <3> QED BY <2>1, <2>3, <3>3
  <2> QED BY <2>2, <2>3
<1> QED BY <1>3, <1>4, <1>5, <1>6, <1>7, <1>8 DEF QuestionKinds

LEMMA ClaimEvidenceType ==
  ASSUME NEW sub, Given(sub), NEW kind \in QuestionKinds \ {"none", "recent_recall"}
  PROVE  ClaimEvidence(sub, kind) \in Seq(Line)
<1>1. Claims(sub, kind) \in Seq(Line)
  <2>1. PlainLine \subseteq Line
    BY DEF PlainLine
  <2> QED BY <2>1, ClaimsType
<1>2. AtMost(4, Claims(sub, kind)) \in Seq(Line)
  BY <1>1, First
<1>3. /\ <<"goal empty">> \in Line /\ <<"intent empty">> \in Line /\ <<"operator empty">> \in Line
      /\ <<"edge">> \in Line /\ <<"active profile">> \in Line /\ <<"cloud enabled short">> \in Line
      /\ <<"local">> \in Line /\ <<"thread count">> \in Line
  <2>1. {"goal empty", "intent empty", "operator empty", "edge", "active profile",
         "cloud enabled short", "local", "thread count"} \subseteq Word
    BY DEF Word
  <2> QED BY <2>1, Lines
<1> DEFINE told == {<<<<"goal empty">>>>, <<<<"intent empty">>>>, <<<<"operator empty">>>>,
                    <<<<"edge">>, <<"active profile">>>>, <<<<"cloud enabled short">>>>,
                    <<<<"local">>>>, <<<<"thread count">>>>}
<1>4. told \subseteq Seq(Line)
  <2>1. /\ <<<<"goal empty">>>> \in Seq(Line) /\ <<<<"intent empty">>>> \in Seq(Line)
        /\ <<<<"operator empty">>>> \in Seq(Line) /\ <<<<"edge">>, <<"active profile">>>> \in Seq(Line)
        /\ <<<<"cloud enabled short">>>> \in Seq(Line) /\ <<<<"local">>>> \in Seq(Line)
        /\ <<<<"thread count">>>> \in Seq(Line)
    <3> HIDE DEF told
    <3> QED BY <1>3, Tuples
  <2> QED BY <2>1
<1>5. \/ ClaimEvidence(sub, kind) \in told
      \/ ClaimEvidence(sub, kind) = Claims(sub, kind)
      \/ ClaimEvidence(sub, kind) = AtMost(4, Claims(sub, kind))
  BY DEF ClaimEvidence
<1> HIDE DEF told
<1> QED BY <1>1, <1>2, <1>4, <1>5

LEMMA OwedRecord ==
  ASSUME NEW kind, kind # "none", NEW claims \in Seq(PlainLine), claims # <<>>,
         NEW required, NEW text \in Text, text[1] = "fallback", NEW shown \in Seq(Line),
         NEW ob, ob = [kind |-> kind, claims |-> claims, required |-> required,
                       text |-> text, evidence |-> shown]
  PROVE  ob.kind # "none" /\ Owed(ob)
<1>1. /\ ob.kind = kind /\ ob.claims = claims /\ ob.text = text /\ ob.evidence = shown
  OBVIOUS
<1> QED BY <1>1 DEF Owed

LEMMA ObligationType ==
  ASSUME NEW sub, Given(sub), NEW r \in Seq(Exchange), NEW m,
         NEW ob, ob = ResolveObligation(sub, r, m)
  PROVE  ob = NoObligation \/ (ob.kind # "none" /\ Owed(ob))
<1> DEFINE kind == ClassifyStateQuestion(m)
<1>1. kind \in QuestionKinds
  BY QuestionKind
<1>2. CASE kind = "none"
  BY <1>2 DEF ResolveObligation
<1>3. CASE kind = "recent_recall"
  <2>1. ob = RecallObligation(r, m)
    BY <1>3 DEF ResolveObligation
  <2>2. CASE r = <<>>
    <3> DEFINE claims == <<<<"no recent dialogue">>>>
               text == <<"fallback", "no dialogue">>
               shown == <<<<"no recent turns">>>>
    <3>1. ob = [kind |-> "recent_recall", claims |-> claims, required |-> {"no dialogue"},
                text |-> text, evidence |-> shown]
      BY <2>1, <2>2 DEF RecallObligation
    <3>2. "no recent dialogue" \in Word /\ "no recent turns" \in Word /\ "no dialogue" \in Word
      BY DEF Word
    <3>3. <<"no recent dialogue">> \in PlainLine /\ <<"no recent turns">> \in Line
      BY <3>2, Lines
    <3>4. claims \in Seq(PlainLine) /\ claims # <<>> /\ shown \in Seq(Line)
      BY <3>3, Tuples
    <3>5. text \in Text /\ text[1] = "fallback"
      BY <3>2, OwnPair DEF Told
    <3> HIDE DEF claims, text, shown
    <3> QED BY <3>1, <3>4, <3>5, OwedRecord
  <2>3. CASE r # <<>>
    <3> DEFINE text == RecallText(PickRememberSource(r, m))
               recent == SubSeq(r, IF Len(r) > 3 THEN Len(r) - 2 ELSE 1, Len(r))
               shown == [i \in DOMAIN recent |-> <<"user", recent[i].user>>]
    <3>1. text \in Text /\ text[1] = "fallback"
      BY SourceType, RecallTextType
    <3>2. /\ ob.kind = "recent_recall" /\ ob.claims = <<<<"recent">> \o Tail(text)>>
          /\ ob.text = text /\ ob.evidence = shown
      BY <2>1, <2>3 DEF RecallObligation
    <3>3. <<"recent">> \o Tail(text) \in PlainLine
      <4>1. Tail(text) \in Seq(Word)
        BY <3>1, OwnText
      <4>2. <<"recent">> \in Seq(Word)
        BY Tuples DEF Word
      <4>3. \A tail \in Seq(Word) : <<"recent">> \o tail \in PlainLine
        <5> TAKE tail \in Seq(Word)
        <5> DEFINE l == <<"recent">> \o tail
        <5>1. l \in Seq(Word) /\ l # <<>> /\ l[1] = "recent"
          BY <4>2
        <5> HIDE DEF l
        <5>2. l \in PlainLine
          BY <5>1 DEF PlainLine, Line
        <5> QED BY <5>2 DEF l
      <4> HIDE DEF text
      <4> QED BY <4>1, <4>3
    <3>4. shown \in Seq(Line)
      <4>1. recent \in Seq(Exchange)
        BY <2>3
      <4>2. PICK n \in Nat : DOMAIN recent = 1..n /\ n = Len(recent)
        <5> HIDE DEF recent
        <5> QED BY <4>1
      <4>3. \A i \in 1..n : <<"user", recent[i].user>> \in Line
        <5> TAKE i \in 1..n
        <5>1. recent[i].user \in DOMAIN Messages
          <6> HIDE DEF recent
          <6> QED BY <4>1, <4>2, Exchanges
        <5>2. recent[i].user \in Word /\ "user" \in Word
          <6> HIDE DEF recent
          <6> QED BY <5>1, TextsAssumption DEF Word
        <5> HIDE DEF recent
        <5> QED BY <5>2, Lines
      <4> HIDE DEF recent
      <4> QED BY <4>2, <4>3
    <3> HIDE DEF text, shown
    <3> QED BY <3>1, <3>2, <3>3, <3>4, Tuples DEF Owed
  <2> QED BY <2>2, <2>3
<1>4. CASE kind \notin {"none", "recent_recall"}
  <2>1. ob = [kind |-> kind, claims |-> Claims(sub, kind), required |-> {kind},
              text |-> <<"fallback", kind>>, evidence |-> ClaimEvidence(sub, kind)]
    BY <1>4 DEF ResolveObligation
  <2>2. kind \in QuestionKinds \ {"none", "recent_recall"}
    BY <1>1, <1>4
  <2> HIDE DEF kind
  <2>3. /\ Claims(sub, kind) \in Seq(PlainLine) /\ Claims(sub, kind) # <<>>
        /\ ClaimEvidence(sub, kind) \in Seq(Line)
    BY <2>2, ClaimsType, ClaimEvidenceType
  <2>4. <<"fallback", kind>> \in Text
    <3>1. kind \in Word /\ kind \notin Told
      BY <2>2 DEF QuestionKinds, Word, Told
    <3> QED BY <3>1, OwnPair
  <2> QED BY <2>1, <2>2, <2>3, <2>4 DEF Owed
<1> QED BY <1>2, <1>3, <1>4

-----------------------------------------------------------------------------
(* What is collected for a line, and what is chosen of it.                 *)

LEMMA OwnSet ==
  ASSUME NEW S, NEW sq \in Seq(S)
  PROVE  sq \in Seq(ToSet(sq)) /\ ToSet(sq) \subseteq S
<1>1. PICK n \in Nat : DOMAIN sq = 1..n /\ sq = [i \in 1..n |-> sq[i]]
  OBVIOUS
<1>2. \A i \in 1..n : sq[i] \in ToSet(sq)
  BY <1>1 DEF ToSet
<1>3. ToSet(sq) \subseteq S
  BY DEF ToSet
<1>4. [i \in 1..n |-> sq[i]] \in Seq(ToSet(sq))
  BY <1>2
<1> QED BY <1>1, <1>3, <1>4

LEMMA Eight ==
  ASSUME NEW S, NEW a \in S, NEW b \in S, NEW c \in S, NEW d \in S,
         NEW e \in S, NEW f \in S, NEW g \in S, NEW h \in S
  PROVE  <<a, b, c, d, e, f, g, h>> \in Seq(S)
OBVIOUS

IsStateItem(c) == c.kind # "recent_dialogue" /\ c.priority \in Nat /\ c.line \in PlainLine
IsDialogueItem(c, r) ==
  /\ c.kind = "recent_dialogue" /\ c.priority \in Nat
  /\ \E i \in 1..Len(r) : c.line = <<"user", r[i].user>> /\ c.answer = r[i].answer

LEMMA Contributes ==
  ASSUME NEW kind, kind # "recent_dialogue", NEW tags, NEW priority \in Nat,
         NEW w \in Word, w \notin {"user", "must"}
  PROVE  /\ IsStateItem(Contribution(kind, tags, priority, <<w>>))
         /\ \A v \in Word : IsStateItem(Contribution(kind, tags, priority, <<w, v>>))
<1>1. <<w>> \in PlainLine /\ \A v \in Word : <<w, v>> \in PlainLine
  BY Lines
<1> QED BY <1>1 DEF IsStateItem, Contribution

LEMMA StateItems ==
  ASSUME NEW sub, Given(sub)
  PROVE  /\ StateContributions(sub) \in Seq(ToSet(StateContributions(sub)))
         /\ \A c \in ToSet(StateContributions(sub)) : IsStateItem(c)
<1> DEFINE p1 == Contribution("person", {"person", "operator", "identity"}, 12, <<"operator">>)
           p2 == Contribution("design_intent", {"purpose", "intent", "design", "project"}, 15, <<"intent">>)
           p3 == Contribution("goal", {"purpose", "goal", "project"}, 20, <<"purpose">>)
           a1 == Contribution("durable_fact", {"purpose", "identity", "project"}, 25, <<"identity">>)
           a2 == Contribution("constraint", {"policy", "cloud", "local"}, 30,
                              IF sub.cloud THEN <<"cloud enabled">> ELSE <<"local">>)
           a3 == Contribution("constraint", {"policy", "sensors"}, 40, <<"sensors">>)
           a4 == Contribution("constraint", {"policy", "tools"}, 45, <<"tools">>)
           a5 == Contribution("runtime", {"runtime", "model"}, 15, <<"model">>)
           a6 == Contribution("runtime", {"runtime", "profile"}, 18, <<"profile">>)
           a7 == Contribution("runtime", {"edge", "hardware", "jetson", "orin"}, 22, <<"edge">>)
           a8 == Contribution("constraint", {"repair", "runtime", "experiment"}, 50, <<"repair budget">>)
           told == [i \in DOMAIN sub.threads |->
                      Contribution("thread", {"threads", "experiment"}, 55, <<"thread", sub.threads[i]>>)]
           given == <<p1, p2, p3>>
           always == <<a1, a2, a3, a4, a5, a6, a7, a8>>
           S == {p1, p2, p3, a1, a2, a3, a4, a5, a6, a7, a8} \cup {told[i] : i \in DOMAIN sub.threads}
           I == {i \in DOMAIN given : sub[given[i].kind]}
<1>1. IsStateItem(p1) /\ IsStateItem(p2) /\ IsStateItem(p3)
  <2>1. {"operator", "intent", "purpose"} \subseteq Word
    BY DEF Word
  <2> QED BY <2>1, Contributes
<1>2. IsStateItem(a1) /\ IsStateItem(a3) /\ IsStateItem(a4)
  <2>1. {"identity", "sensors", "tools"} \subseteq Word
    BY DEF Word
  <2> QED BY <2>1, Contributes
<1>3. IsStateItem(a2)
  <2>1. {"cloud enabled", "local"} \subseteq Word
    BY DEF Word
  <2>2. CASE sub.cloud
    BY <2>1, <2>2, Contributes
  <2>3. CASE ~sub.cloud
    BY <2>1, <2>3, Contributes
  <2> QED BY <2>2, <2>3
<1>4. IsStateItem(a5) /\ IsStateItem(a6) /\ IsStateItem(a7) /\ IsStateItem(a8)
  <2>1. {"model", "profile", "edge", "repair budget"} \subseteq Word
    BY DEF Word
  <2> QED BY <2>1, Contributes
<1>5. \A i \in DOMAIN sub.threads : IsStateItem(told[i])
  <2> TAKE i \in DOMAIN sub.threads
  <2>1. sub.threads[i] \in STRING
    BY DEF Given
  <2>2. sub.threads[i] \in Word /\ "thread" \in Word
    BY <2>1 DEF Word
  <2>3. IsStateItem(Contribution("thread", {"threads", "experiment"}, 55, <<"thread", sub.threads[i]>>))
    BY <2>2, Contributes
  <2> QED BY <2>3
<1>6. StateContributions(sub) = At(given, I) \o always \o told
  BY DEF StateContributions, Filter
<1>7. told \in Seq(S)
  <2>1. PICK n \in Nat : DOMAIN sub.threads = 1..n
    BY DEF Given
  <2>2. \A i \in 1..n : told[i] \in S
    BY <2>1
  <2>3. told = [i \in 1..n |-> told[i]]
    BY <2>1
  <2> HIDE DEF told, S
  <2> QED BY <2>2, <2>3
<1>8. \A c \in S : IsStateItem(c)
  <2> HIDE DEF p1, p2, p3, a1, a2, a3, a4, a5, a6, a7, a8, told
  <2> QED BY <1>1, <1>2, <1>3, <1>4, <1>5
<1>9. given \in Seq(S) /\ always \in Seq(S)
  <2>1. /\ p1 \in S /\ p2 \in S /\ p3 \in S /\ a1 \in S /\ a2 \in S /\ a3 \in S /\ a4 \in S
        /\ a5 \in S /\ a6 \in S /\ a7 \in S /\ a8 \in S
    <3> HIDE DEF p1, p2, p3, a1, a2, a3, a4, a5, a6, a7, a8, told
    <3> QED OBVIOUS
  <2> HIDE DEF p1, p2, p3, a1, a2, a3, a4, a5, a6, a7, a8, told, S
  <2> QED BY <2>1, Tuples, Eight
<1>10. At(given, I) \in Seq(S)
  <2>1. I \in SUBSET DOMAIN given
    OBVIOUS
  <2> HIDE DEF given, I, S
  <2> QED BY <1>9, <2>1, AtFrom
<1>11. StateContributions(sub) \in Seq(S)
  <2> HIDE DEF given, always, told, I, S
  <2> QED BY <1>6, <1>7, <1>9, <1>10
<1> HIDE DEF S
<1> QED BY <1>8, <1>11, OwnSet

LEMMA DialogueItems ==
  ASSUME NEW r \in Seq(Exchange)
  PROVE  /\ DialogueContributions(r) \in Seq(ToSet(DialogueContributions(r)))
         /\ \A c \in ToSet(DialogueContributions(r)) : IsDialogueItem(c, r)
<1> DEFINE d == DialogueContributions(r)
<1>1. PICK n \in Nat : DOMAIN r = 1..n /\ n = Len(r)
  OBVIOUS
<1>2. d = [i \in 1..n |->
             [Contribution("recent_dialogue", {"dialogue"}, DialoguePriority(r, i), <<"user", r[i].user>>)
                EXCEPT !.answer = r[i].answer]]
  BY <1>1 DEF DialogueContributions
<1>3. \A i \in 1..n : IsDialogueItem(d[i], r)
  <2> TAKE i \in 1..n
  <2>1. d[i] = [kind |-> "recent_dialogue", tags |-> {"dialogue"}, priority |-> DialoguePriority(r, i),
                line |-> <<"user", r[i].user>>, answer |-> r[i].answer]
    BY <1>2 DEF Contribution
  <2>2. DialoguePriority(r, i) \in Nat
    BY <1>1 DEF DialoguePriority
  <2> HIDE DEF d
  <2> QED BY <1>1, <2>1, <2>2 DEF IsDialogueItem
<1>4. DOMAIN d = 1..n
  BY <1>2
<1>5. d \in Seq({d[i] : i \in 1..n})
  <2>1. d = [i \in 1..n |-> d[i]]
    BY <1>2
  <2> HIDE DEF d
  <2> QED BY <2>1
<1>6. \A c \in ToSet(d) : IsDialogueItem(c, r)
  <2> HIDE DEF d
  <2> QED BY <1>3, <1>4 DEF ToSet
<1>7. d \in Seq(ToSet(d))
  <2> HIDE DEF d
  <2> QED BY <1>5, OwnSet
<1> QED BY <1>6, <1>7

Items(sub, r) == ToSet(StateContributions(sub)) \cup ToSet(DialogueContributions(r))

LEMMA Collected ==
  ASSUME NEW sub, Given(sub), NEW r \in Seq(Exchange)
  PROVE  /\ CollectContributions(sub, r) \in Seq(Items(sub, r))
         /\ \A c \in Items(sub, r) : c.priority \in Nat
<1>1. /\ StateContributions(sub) \in Seq(Items(sub, r))
      /\ DialogueContributions(r) \in Seq(Items(sub, r))
  BY StateItems, DialogueItems DEF Items
<1>2. \A c \in Items(sub, r) : c.priority \in Nat
  BY StateItems, DialogueItems DEF Items, IsStateItem, IsDialogueItem
<1> QED BY <1>1, <1>2 DEF CollectContributions

LEMMA Chosen ==
  ASSUME NEW S, NEW available \in Seq(S), NEW intents, NEW m
  PROVE  Choose(available, intents, m) \in Seq(S)
<1>1. \E I \in SUBSET DOMAIN available : Choose(available, intents, m) = At(available, I)
  BY DEF Choose
<1> QED BY <1>1, AtFrom

(* Two of the same priority and group are told apart by their position.    *)
LEMMA Apart ==
  ASSUME NEW n \in Nat, NEW a \in Nat, NEW b \in Nat, NEW i \in 1..n, NEW j \in 1..n,
         a * (n + 1) + i = b * (n + 1) + j
  PROVE  i = j
<1>1. ASSUME NEW x \in Nat, NEW y \in Nat, NEW k \in 1..n, NEW l \in 1..n,
             x * (n + 1) + k = y * (n + 1) + l, x < y
      PROVE  FALSE
  <2>1. PICK d \in Nat : y = x + 1 + d
    <3>1. y - x - 1 \in Nat /\ y = x + 1 + (y - x - 1)
      BY <1>1
    <3> QED BY <3>1
  <2>2. y * (n + 1) = x * (n + 1) + (n + 1) + d * (n + 1)
    BY <2>1
  <2>3. d * (n + 1) >= 0
    OBVIOUS
  <2>4. /\ x * (n + 1) \in Nat /\ y * (n + 1) \in Nat /\ d * (n + 1) \in Nat
    OBVIOUS
  <2>5. y * (n + 1) >= x * (n + 1) + (n + 1)
    BY <2>2, <2>3, <2>4
  <2> DEFINE xx == x * (n + 1)
             yy == y * (n + 1)
  <2>6. xx \in Nat /\ yy \in Nat /\ yy >= xx + (n + 1) /\ xx + k = yy + l
    BY <1>1, <2>4, <2>5
  <2> HIDE DEF xx, yy
  <2> QED BY <2>6
<1>2. a = b
  <2>1. ~(a < b) /\ ~(b < a)
    BY <1>1
  <2> QED BY <2>1
<1>3. a * (n + 1) \in Nat
  OBVIOUS
<1> DEFINE aa == a * (n + 1)
<1>4. aa \in Nat /\ aa + i = aa + j
  BY <1>2, <1>3
<1> HIDE DEF aa
<1> QED BY <1>4

LEMMA IdRanks ==
  ASSUME NEW c
  PROVE  IdRank(c) \in Nat
<1> DEFINE I == {i \in 1..Len(IdOrder) : IdOrder[i] = c.line[2]}
           k == IF I # {} THEN Min(I) ELSE 0
<1>1. IdRank(c) = IF c.kind = "thread" THEN k ELSE 0
  BY DEF IdRank, SelectInSeq
<1>2. k = 0 \/ k \in I
  <2> HIDE DEF I
  <2>1. I \in SUBSET (1..Len(IdOrder))
    BY DEF I
  <2> QED BY <2>1, FirstIndex, TextsAssumption
<1>3. \A i \in I : i \in Nat
  BY TextsAssumption
<1> HIDE DEF k, I
<1> QED BY <1>1, <1>2, <1>3

LEMMA InOrder ==
  ASSUME NEW S, NEW chosen \in Seq(S), \A c \in S : c.priority \in Nat
  PROVE  Ordered(chosen) \in Seq(S)
<1> DEFINE n == Len(chosen)
           Group(c) == IF c.kind = "recent_dialogue" THEN 0 ELSE 1
           rank == [i \in 1..n |-> (2 * chosen[i].priority + Group(chosen[i])) * (Len(IdOrder) + 1)
                                   + IdRank(chosen[i])]
           place == [i \in 1..n |-> rank[i] * (n + 1) + i]
<1>1. n \in Nat /\ DOMAIN chosen = 1..n
  OBVIOUS
<1>2. \A i \in 1..n : rank[i] \in Nat
  <2> TAKE i \in 1..n
  <2> DEFINE k == 2 * chosen[i].priority + Group(chosen[i])
  <2>1. k \in Nat
    <3>1. chosen[i].priority \in Nat
      OBVIOUS
    <3> QED BY <3>1
  <2>2. IdRank(chosen[i]) \in Nat /\ Len(IdOrder) \in Nat
    BY IdRanks, TextsAssumption
  <2>3. rank[i] = k * (Len(IdOrder) + 1) + IdRank(chosen[i])
    OBVIOUS
  <2> HIDE DEF k, rank
  <2>4. k * (Len(IdOrder) + 1) \in Nat
    BY <2>1, <2>2
  <2> QED BY <2>2, <2>3, <2>4
<1>3. Ordered(chosen) = Arranged(chosen, 1..n, place)
  BY <1>1 DEF Ordered
<1>4. Places(1..n, place)
  <2> HIDE DEF n, rank
  <2>1. \A i \in 1..n : rank[i] * (n + 1) \in Nat
    BY <1>1, <1>2
  <2>2. \A i \in 1..n : place[i] = rank[i] * (n + 1) + i
    OBVIOUS
  <2>3. \A i \in 1..n : place[i] \in Int
    BY <1>1, <2>1, <2>2
  <2>4. ASSUME NEW i \in 1..n, NEW j \in 1..n, place[i] = place[j] PROVE i = j
    <3>1. rank[i] \in Nat /\ rank[j] \in Nat /\ rank[i] * (n + 1) + i = rank[j] * (n + 1) + j
      BY <1>2, <2>2, <2>4
    <3> QED BY <1>1, <3>1, Apart
  <2> HIDE DEF place
  <2> QED BY <2>3, <2>4 DEF Places
<1> HIDE DEF place, n
<1> QED BY <1>1, <1>3, <1>4, ArrangedFrom

LEMMA Selected ==
  ASSUME NEW sub, Given(sub), NEW r \in Seq(Exchange), NEW m
  PROVE  SelectContributions(sub, r, m) \in Seq(Items(sub, r))
<1>1. Choose(CollectContributions(sub, r), DetectIntents(m), m) \in Seq(Items(sub, r))
  BY Collected, Chosen
<1> QED BY <1>1, Collected, InOrder DEF SelectContributions

(* The parts of a context, of items chosen of those that were collected.   *)
StateLines(sub) == {c.line : c \in ToSet(StateContributions(sub))}
UserLines(r) == {<<"user", r[i].user>> : i \in DOMAIN r}
AnswerLines(r) == {r[i].answer : i \in DOMAIN r}

LEMMA MapType ==
  ASSUME NEW S, NEW sq \in Seq(S), NEW T, NEW f, DOMAIN f = DOMAIN sq,
         \A i \in DOMAIN sq : f[i] \in T, f = [i \in DOMAIN sq |-> f[i]]
  PROVE  f \in Seq(T)
<1>1. PICK n \in Nat : DOMAIN sq = 1..n
  OBVIOUS
<1>2. f = [i \in 1..n |-> f[i]] /\ \A i \in 1..n : f[i] \in T
  BY <1>1
<1> QED BY <1>2

LEMMA FactsType ==
  ASSUME NEW sub, Given(sub), NEW r \in Seq(Exchange), NEW chosen \in Seq(Items(sub, r))
  PROVE  SelectedFacts(chosen) \in Seq(StateLines(sub))
<1> DEFINE I == {i \in DOMAIN chosen : chosen[i].kind # "recent_dialogue"}
           told == At(chosen, I)
<1>1. SelectedFacts(chosen) = [i \in DOMAIN told |-> told[i].line]
  BY DEF SelectedFacts, Filter
<1>2. told \in Seq(Items(sub, r)) /\ HoldsThose(told, chosen, I)
  <2> DEFINE J == I
  <2>1. J \in SUBSET DOMAIN chosen
    OBVIOUS
  <2> HIDE DEF J
  <2>2. At(chosen, J) \in Seq(Items(sub, r)) /\ HoldsThose(At(chosen, J), chosen, J)
    BY <2>1, AtFrom
  <2> QED BY <2>2 DEF J
<1>3. \A i \in DOMAIN told : told[i] \in Items(sub, r) /\ told[i].kind # "recent_dialogue"
  <2> TAKE i \in DOMAIN told
  <2>1. PICK j \in I : told[i] = chosen[j]
    BY <1>2 DEF HoldsThose
  <2>2. j \in DOMAIN chosen /\ chosen[j].kind # "recent_dialogue"
    OBVIOUS
  <2>3. chosen[j] \in Items(sub, r)
    BY <2>2
  <2> HIDE DEF told
  <2> QED BY <2>1, <2>2, <2>3
<1>4. \A i \in DOMAIN told : told[i].line \in StateLines(sub)
  <2> HIDE DEF told
  <2>1. \A c \in Items(sub, r) : c.kind # "recent_dialogue" => c \in ToSet(StateContributions(sub))
    BY DialogueItems DEF Items, IsDialogueItem
  <2> QED BY <1>3, <2>1 DEF StateLines
<1> DEFINE f == [i \in DOMAIN told |-> told[i].line]
<1>5. DOMAIN f = DOMAIN told /\ f = [i \in DOMAIN told |-> f[i]] /\ \A i \in DOMAIN told : f[i] \in StateLines(sub)
  <2> HIDE DEF told
  <2> QED BY <1>4
<1>6. f \in Seq(StateLines(sub))
  <2> HIDE DEF told, f
  <2> QED BY <1>2, <1>5, MapType
<1> QED BY <1>1, <1>6

LEMMA TurnsType ==
  ASSUME NEW sub, Given(sub), NEW r \in Seq(Exchange), NEW chosen \in Seq(Items(sub, r))
  PROVE  SelectedRecentTurns(chosen) \in Seq(ToSet(r))
<1> DEFINE I == {i \in DOMAIN chosen : chosen[i].kind = "recent_dialogue"}
           told == At(chosen, I)
           f == [i \in DOMAIN told |-> [user |-> told[i].line[2], answer |-> told[i].answer]]
<1>1. SelectedRecentTurns(chosen) = f
  BY DEF SelectedRecentTurns, Filter
<1>2. told \in Seq(Items(sub, r)) /\ HoldsThose(told, chosen, I)
  <2> DEFINE J == I
  <2>1. J \in SUBSET DOMAIN chosen
    OBVIOUS
  <2> HIDE DEF J
  <2>2. At(chosen, J) \in Seq(Items(sub, r)) /\ HoldsThose(At(chosen, J), chosen, J)
    BY <2>1, AtFrom
  <2> QED BY <2>2 DEF J
<1>3. \A i \in DOMAIN told : told[i] \in Items(sub, r) /\ told[i].kind = "recent_dialogue"
  <2> TAKE i \in DOMAIN told
  <2>1. PICK j \in I : told[i] = chosen[j]
    BY <1>2 DEF HoldsThose
  <2>2. j \in DOMAIN chosen /\ chosen[j].kind = "recent_dialogue"
    OBVIOUS
  <2>3. chosen[j] \in Items(sub, r)
    BY <2>2
  <2> HIDE DEF told
  <2> QED BY <2>1, <2>2, <2>3
<1>4. \A c \in Items(sub, r) : c.kind = "recent_dialogue" => IsDialogueItem(c, r)
  BY StateItems, DialogueItems DEF Items, IsStateItem
<1>5. \A i \in DOMAIN told : f[i] \in ToSet(r)
  <2> TAKE i \in DOMAIN told
  <2>1. f[i] = [user |-> told[i].line[2], answer |-> told[i].answer]
    OBVIOUS
  <2> HIDE DEF told, f
  <2>2. PICK k \in 1..Len(r) : told[i].line = <<"user", r[k].user>> /\ told[i].answer = r[k].answer
    BY <1>3, <1>4 DEF IsDialogueItem
  <2>3. told[i].line[2] = r[k].user
    BY <2>2
  <2>4. f[i] = r[k]
    BY <2>1, <2>2, <2>3, Exchanges
  <2>5. k \in DOMAIN r
    OBVIOUS
  <2> QED BY <2>4, <2>5 DEF ToSet
<1>6. DOMAIN f = DOMAIN told /\ f = [i \in DOMAIN told |-> f[i]]
  <2> HIDE DEF told
  <2> QED OBVIOUS
<1>7. f \in Seq(ToSet(r))
  <2> HIDE DEF told, f
  <2> QED BY <1>2, <1>5, <1>6, MapType
<1> QED BY <1>1, <1>7

LEMMA ThreadsType ==
  ASSUME NEW S, NEW chosen \in Seq(S)
  PROVE  \E T : SelectedOpenThreads(chosen) \in Seq(T)
<1> DEFINE I == {i \in DOMAIN chosen : chosen[i].kind = "thread"}
           told == At(chosen, I)
           f == [i \in DOMAIN told |-> told[i].line[2]]
           T == {told[i].line[2] : i \in DOMAIN told}
<1>1. SelectedOpenThreads(chosen) = f
  BY DEF SelectedOpenThreads, Filter
<1>2. told \in Seq(S)
  <2> DEFINE J == I
  <2>1. J \in SUBSET DOMAIN chosen
    OBVIOUS
  <2> HIDE DEF J
  <2>2. At(chosen, J) \in Seq(S)
    BY <2>1, AtFrom
  <2> QED BY <2>2 DEF J
<1>3. DOMAIN f = DOMAIN told /\ f = [i \in DOMAIN told |-> f[i]] /\ \A i \in DOMAIN told : f[i] \in T
  <2> HIDE DEF told
  <2> QED OBVIOUS
<1>4. f \in Seq(T)
  <2> HIDE DEF told, f, T
  <2> QED BY <1>2, <1>3, MapType
<1> HIDE DEF f, T
<1> QED BY <1>1, <1>4

PoolLines(sub, r) == StateLines(sub) \cup UserLines(r) \cup AnswerLines(r)

LEMMA PoolType ==
  ASSUME NEW sub, Given(sub), NEW r \in Seq(Exchange), NEW chosen \in Seq(Items(sub, r))
  PROVE  EvidencePoolFromSelected(chosen) \in Seq(PoolLines(sub, r))
<1> DEFINE n == Len(chosen)
           both == [k \in 1..(2 * n) |->
                      LET c == chosen[(k + 1) \div 2] IN IF k % 2 = 1 THEN c.line ELSE c.answer]
           I == {k \in 1..(2 * n) : k % 2 = 1 \/ chosen[(k + 1) \div 2].kind = "recent_dialogue"}
           S == {both[k] : k \in 1..(2 * n)}
           a == At(both, I)
<1>1. EvidencePoolFromSelected(chosen) = a
  BY DEF EvidencePoolFromSelected
<1>2. n \in Nat /\ 2 * n \in Nat /\ DOMAIN both = 1..(2 * n)
  OBVIOUS
<1>3. both \in Seq(S)
  <2>1. both = [k \in 1..(2 * n) |-> both[k]]
    OBVIOUS
  <2> HIDE DEF both, n
  <2> QED BY <1>2, <2>1
<1>4. a \in Seq(S) /\ HoldsThose(a, both, I)
  <2>1. I \in SUBSET DOMAIN both
    OBVIOUS
  <2> HIDE DEF both, I, S
  <2> QED BY <1>3, <2>1, AtFrom
<1>5. \A k \in I : both[k] \in PoolLines(sub, r)
  <2> TAKE k \in I
  <2> DEFINE c == chosen[(k + 1) \div 2]
  <2>1. (k + 1) \div 2 \in 1..n
    <3>1. k \in 1..(2 * n)
      OBVIOUS
    <3> HIDE DEF n, I
    <3> QED BY <1>2, <3>1
  <2>2. c \in Items(sub, r)
    BY <2>1
  <2>3. /\ k % 2 = 1 => both[k] = c.line
        /\ k % 2 # 1 => both[k] = c.answer /\ c.kind = "recent_dialogue"
    OBVIOUS
  <2>4. c.line \in PoolLines(sub, r) /\ (c.kind = "recent_dialogue" => c.answer \in PoolLines(sub, r))
    <3> HIDE DEF c
    <3>1. CASE c \in ToSet(StateContributions(sub))
      BY <3>1, StateItems DEF PoolLines, StateLines, IsStateItem
    <3>2. CASE c \in ToSet(DialogueContributions(r))
      <4>1. PICK i \in 1..Len(r) : c.line = <<"user", r[i].user>> /\ c.answer = r[i].answer
        BY <3>2, DialogueItems DEF IsDialogueItem
      <4>2. i \in DOMAIN r
        OBVIOUS
      <4> QED BY <4>1, <4>2 DEF PoolLines, UserLines, AnswerLines
    <3> QED BY <2>2, <3>1, <3>2 DEF Items
  <2> HIDE DEF both, c
  <2> QED BY <2>3, <2>4
<1>6. \A i \in DOMAIN a : a[i] \in PoolLines(sub, r)
  <2> HIDE DEF a, both, I
  <2> QED BY <1>4, <1>5 DEF HoldsThose
<1>7. a \in Seq(PoolLines(sub, r))
  <2> HIDE DEF a, S
  <2>1. a \in Seq(ToSet(a)) /\ ToSet(a) \subseteq PoolLines(sub, r)
    BY <1>4, <1>6, OwnSet DEF ToSet
  <2> QED BY <2>1
<1> QED BY <1>1, <1>7

-----------------------------------------------------------------------------
(* The packet: trims take lines away and touch nothing else.               *)

IsPacket(p, F, T, U) ==
  /\ DOMAIN p = {"mode", "user", "claims", "prior", "repair", "facts", "threads", "turns", "pool"}
  /\ p.facts \in Seq(F) /\ p.threads \in Seq(T) /\ p.turns \in Seq(U)
SameTold(p, q) ==
  q.mode = p.mode /\ q.user = p.user /\ q.claims = p.claims /\ q.prior = p.prior /\ q.pool = p.pool

LEMMA Fewest ==
  ASSUME NEW n \in Nat, NEW enough \in SUBSET (0..n)
  PROVE  (IF enough = {} THEN n ELSE Min(enough)) \in 0..n
<1>1. enough # {} => Min(enough) \in enough
  <2>1. enough \in SUBSET Nat
    OBVIOUS
  <2> QED BY <2>1, Smallest
<1>2. CASE enough = {}
  BY <1>2
<1>3. CASE enough # {}
  <2>1. Min(enough) \in 0..n
    BY <1>1, <1>3
  <2> QED BY <1>3, <2>1
<1> QED BY <1>2, <1>3

LEMMA Part ==
  ASSUME NEW S, NEW sq \in Seq(S), NEW k \in Nat
  PROVE  /\ SubSeq(sq, k + 1, Len(sq)) \in Seq(S)
         /\ SubSeq(sq, 1, Len(sq) - k) \in Seq(S)
OBVIOUS

LEMMA DropTurnsType ==
  ASSUME NEW p, NEW F, NEW T, NEW U, IsPacket(p, F, T, U)
  PROVE  IsPacket(DropTurns(p), F, T, U) /\ SameTold(p, DropTurns(p))
<1> DEFINE n == Len(p.turns)
           enough == {k \in 0..n : Fits([p EXCEPT !.turns = SubSeq(@, k + 1, Len(@))])}
           k == IF enough = {} THEN n ELSE Min(enough)
           q == [p EXCEPT !.turns = SubSeq(@, k + 1, Len(@))]
<1>1. DropTurns(p) = q
  BY DEF DropTurns, Drops
<1>2. n \in Nat
  BY DEF IsPacket
<1>3. k \in Nat
  <2>1. enough \in SUBSET (0..n)
    OBVIOUS
  <2> HIDE DEF enough, n
  <2>2. k \in 0..n
    BY <1>2, <2>1, Fewest
  <2> QED BY <1>2, <2>2
<1> HIDE DEF k
<1>4. SubSeq(p.turns, k + 1, Len(p.turns)) \in Seq(U)
  BY <1>3, Part DEF IsPacket
<1>5. IsPacket(q, F, T, U) /\ SameTold(p, q)
  BY <1>4 DEF IsPacket, SameTold
<1> QED BY <1>1, <1>5

LEMMA DropFactsType ==
  ASSUME NEW p, NEW F, NEW T, NEW U, IsPacket(p, F, T, U)
  PROVE  IsPacket(DropFacts(p), F, T, U) /\ SameTold(p, DropFacts(p))
<1> DEFINE n == Least(Len(p.facts) - 2)
           enough == {k \in 0..n : Fits([p EXCEPT !.facts = SubSeq(@, 1, Len(@) - k)])}
           k == IF enough = {} THEN n ELSE Min(enough)
           q == [p EXCEPT !.facts = SubSeq(@, 1, Len(@) - k)]
<1>1. DropFacts(p) = q
  BY DEF DropFacts, Drops
<1>2. n \in Nat
  BY DEF IsPacket, Least
<1>3. k \in Nat
  <2>1. enough \in SUBSET (0..n)
    OBVIOUS
  <2> HIDE DEF enough, n
  <2>2. k \in 0..n
    BY <1>2, <2>1, Fewest
  <2> QED BY <1>2, <2>2
<1> HIDE DEF k
<1>4. SubSeq(p.facts, 1, Len(p.facts) - k) \in Seq(F)
  BY <1>3, Part DEF IsPacket
<1>5. IsPacket(q, F, T, U) /\ SameTold(p, q)
  BY <1>4 DEF IsPacket, SameTold
<1> QED BY <1>1, <1>5

LEMMA DropThreadsType ==
  ASSUME NEW p, NEW F, NEW T, NEW U, IsPacket(p, F, T, U)
  PROVE  IsPacket(DropThreads(p), F, T, U) /\ SameTold(p, DropThreads(p))
<1> DEFINE n == Least(Len(p.threads) - 1)
           enough == {k \in 0..n : Fits([p EXCEPT !.threads = SubSeq(@, 1, Len(@) - k)])}
           k == IF enough = {} THEN n ELSE Min(enough)
           q == [p EXCEPT !.threads = SubSeq(@, 1, Len(@) - k)]
<1>1. DropThreads(p) = q
  BY DEF DropThreads, Drops
<1>2. n \in Nat
  BY DEF IsPacket, Least
<1>3. k \in Nat
  <2>1. enough \in SUBSET (0..n)
    OBVIOUS
  <2> HIDE DEF enough, n
  <2>2. k \in 0..n
    BY <1>2, <2>1, Fewest
  <2> QED BY <1>2, <2>2
<1> HIDE DEF k
<1>4. SubSeq(p.threads, 1, Len(p.threads) - k) \in Seq(T)
  BY <1>3, Part DEF IsPacket
<1>5. IsPacket(q, F, T, U) /\ SameTold(p, q)
  BY <1>4 DEF IsPacket, SameTold
<1> QED BY <1>1, <1>5

LEMMA Trimmed ==
  ASSUME NEW p, NEW F, NEW T, NEW U, IsPacket(p, F, T, U)
  PROVE  IsPacket(EnforcePacketBudget(p), F, T, U) /\ SameTold(p, EnforcePacketBudget(p))
<1> DEFINE q == [p EXCEPT !.facts = AtMost(Profile.facts, @), !.threads = AtMost(Profile.threads, @)]
<1>1. AtMost(Profile.facts, p.facts) \in Seq(F) /\ AtMost(Profile.threads, p.threads) \in Seq(T)
  BY TextsAssumption, First DEF IsPacket
<1>2. IsPacket(q, F, T, U) /\ SameTold(p, q)
  BY <1>1 DEF IsPacket, SameTold
<1> HIDE DEF q
<1>3. PICK p1 : p1 = DropTurns(q)
  OBVIOUS
<1>4. PICK p2 : p2 = DropFacts(p1)
  OBVIOUS
<1>5. EnforcePacketBudget(p) = DropThreads(p2)
  BY <1>3, <1>4 DEF EnforcePacketBudget, q
<1>6. IsPacket(p1, F, T, U) /\ SameTold(q, p1)
  BY <1>2, <1>3, DropTurnsType
<1>7. IsPacket(p2, F, T, U) /\ SameTold(p1, p2)
  BY <1>4, <1>6, DropFactsType
<1>8. IsPacket(DropThreads(p2), F, T, U) /\ SameTold(p2, DropThreads(p2))
  BY <1>7, DropThreadsType
<1>9. SameTold(p, DropThreads(p2))
  BY <1>2, <1>6, <1>7, <1>8 DEF SameTold
<1> QED BY <1>5, <1>8, <1>9

LEMMA Joined ==
  ASSUME NEW S, NEW a \in Seq(S), NEW b \in Seq(S)
  PROVE  /\ a \o b \in Seq(S) /\ Len(a \o b) = Len(a) + Len(b) /\ ToSet(a) \cup ToSet(b) \subseteq ToSet(a \o b)
         /\ \A i \in 1..Len(a) : (a \o b)[i] = a[i]
         /\ \A i \in 1..Len(b) : (a \o b)[Len(a) + i] = b[i]
<1>1. a \o b \in Seq(S) /\ Len(a \o b) = Len(a) + Len(b)
  OBVIOUS
<1>2. \A i \in 1..Len(a) : i \in 1..Len(a \o b) /\ (a \o b)[i] = a[i]
  OBVIOUS
<1>3. \A i \in 1..Len(b) : Len(a) + i \in 1..Len(a \o b) /\ (a \o b)[Len(a) + i] = b[i]
  OBVIOUS
<1>4. ToSet(a) \cup ToSet(b) \subseteq ToSet(a \o b)
  <2>1. DOMAIN a = 1..Len(a) /\ DOMAIN b = 1..Len(b) /\ DOMAIN (a \o b) = 1..Len(a \o b)
    BY <1>1
  <2> QED BY <1>2, <1>3, <2>1 DEF ToSet
<1> QED BY <1>1, <1>2, <1>3, <1>4

LEMMA Kept ==
  ASSUME NEW S, NEW pool \in Seq(S), NEW R, NEW kept \in Seq(R), kept # <<>>,
         NEW I, I = {i \in DOMAIN kept : kept[i] \notin ToSet(pool)},
         NEW all, all = pool \o At(kept, I)
  PROVE  all \in Seq(S \cup R) /\ all # <<>> /\ kept[1] \in ToSet(all)
<1>1. PICK more : more = At(kept, I)
  OBVIOUS
<1>2. more \in Seq(R) /\ HoldsThose(more, kept, I)
  BY <1>1, AtFrom
<1>3. all \in Seq(S \cup R) /\ ToSet(pool) \cup ToSet(more) \subseteq ToSet(all)
  <2>1. pool \in Seq(S \cup R) /\ more \in Seq(S \cup R)
    BY <1>2
  <2> QED BY <1>1, <2>1, Joined
<1>4. kept[1] \in ToSet(all)
  <2>1. CASE kept[1] \in ToSet(pool)
    BY <1>3, <2>1
  <2>2. CASE kept[1] \notin ToSet(pool)
    <3>1. 1 \in I
      BY <2>2
    <3>2. \E n \in DOMAIN more : more[n] = kept[1]
      BY <1>2, <3>1 DEF HoldsThose
    <3> QED BY <1>3, <3>2 DEF ToSet
  <2> QED BY <2>1, <2>2
<1>5. all # <<>>
  BY <1>4 DEF ToSet
<1> QED BY <1>3, <1>4, <1>5

MustLines(claims) == {Must(l) : l \in ToSet(claims)}

(* What is shown in companion mode, as the properties tell it apart.       *)
CompanionShown(p, sub, r, claims) ==
  /\ p.facts \in Seq(StateLines(sub) \cup MustLines(claims))
  /\ p.turns \in Seq(ToSet(r))
  /\ p.pool \in Seq(PoolLines(sub, r) \cup ToSet(claims))
  /\ claims # <<>> => p.pool # <<>> /\ claims[1] \in ToSet(p.pool)

LEMMA CompanionBlockType ==
  ASSUME NEW sub, Given(sub), NEW r \in Seq(Exchange), NEW chosen \in Seq(Items(sub, r)),
         NEW claims \in Seq(PlainLine), NEW b, b = CompanionBlock(chosen, claims)
  PROVE  CompanionShown(b, sub, r, claims) /\ \E T : b.threads \in Seq(T)
<1> DEFINE pool == EvidencePoolFromSelected(chosen)
           kept == AtMost(4, claims)
           marked == [i \in DOMAIN kept |-> Must(kept[i])]
           I == {i \in DOMAIN kept : kept[i] \notin ToSet(pool)}
           more == At(kept, I)
<1>1. /\ b.facts = SelectedFacts(chosen) \o marked /\ b.threads = SelectedOpenThreads(chosen)
      /\ b.turns = SelectedRecentTurns(chosen) /\ b.pool = pool \o more
  BY DEF CompanionBlock, CompanionContext, Filter
<1>2. kept \in Seq(ToSet(claims)) /\ (claims # <<>> => kept # <<>> /\ kept[1] = claims[1])
  <2>1. claims \in Seq(ToSet(claims))
    BY OwnSet
  <2>2. 4 \in Nat /\ 4 > 0
    OBVIOUS
  <2> QED BY <2>1, <2>2, First
<1>3. marked \in Seq(MustLines(claims))
  <2>1. PICK n \in Nat : DOMAIN kept = 1..n /\ \A i \in 1..n : kept[i] \in ToSet(claims)
    <3> HIDE DEF kept
    <3> QED BY <1>2
  <2>2. \A i \in 1..n : Must(kept[i]) \in MustLines(claims)
    BY <2>1 DEF MustLines
  <2> HIDE DEF kept
  <2> QED BY <2>1, <2>2
<1>4. pool \in Seq(PoolLines(sub, r))
  BY PoolType
<1>5. pool \o more \in Seq(PoolLines(sub, r) \cup ToSet(claims))
  <2>1. CASE kept = <<>>
    <3>1. more \in Seq(ToSet(claims))
      <4>1. I \in SUBSET DOMAIN kept
        OBVIOUS
      <4> HIDE DEF kept, I
      <4> QED BY <1>2, <4>1, AtFrom
    <3> HIDE DEF more, pool
    <3> QED BY <1>4, <3>1
  <2>2. CASE kept # <<>>
    <3> HIDE DEF kept, pool
    <3> QED BY <1>2, <1>4, <2>2, Kept
  <2> QED BY <2>1, <2>2
<1>6. claims # <<>> => pool \o more # <<>> /\ claims[1] \in ToSet(pool \o more)
  <2> SUFFICES ASSUME claims # <<>> PROVE pool \o more # <<>> /\ claims[1] \in ToSet(pool \o more)
    OBVIOUS
  <2>1. kept # <<>> /\ kept[1] = claims[1]
    BY <1>2
  <2> HIDE DEF kept, pool
  <2>2. kept[1] \in ToSet(pool \o more) /\ pool \o more # <<>>
    BY <1>2, <1>4, <2>1, Kept
  <2> HIDE DEF more
  <2> QED BY <2>1, <2>2
<1>7. SelectedFacts(chosen) \o marked \in Seq(StateLines(sub) \cup MustLines(claims))
  <2> HIDE DEF marked
  <2> QED BY <1>3, FactsType
<1> HIDE DEF pool, more, marked
<1> QED BY <1>1, <1>5, <1>6, <1>7, TurnsType, ThreadsType DEF CompanionShown

LEMMA CompanionPacketType ==
  ASSUME NEW sub, Given(sub), NEW r \in Seq(Exchange), NEW m, NEW claims \in Seq(PlainLine), NEW repair,
         NEW p, p = EnforcePacketBudget(BuildArrivalPacket(sub, r, m, "companion", claims, repair))
  PROVE  /\ p.mode = "companion" /\ p.user = m /\ p.claims = claims /\ p.prior = PriorAnswer(r)
         /\ CompanionShown(p, sub, r, claims)
<1>1. PICK b : b = CompanionBlock(SelectContributions(sub, r, m), claims)
  OBVIOUS
<1>2. CompanionShown(b, sub, r, claims) /\ \E T : b.threads \in Seq(T)
  BY <1>1, Selected, CompanionBlockType
<1>3. PICK p0 : p0 = BuildArrivalPacket(sub, r, m, "companion", claims, repair)
  OBVIOUS
<1>4. p0 = [mode |-> "companion", user |-> m, claims |-> claims, prior |-> PriorAnswer(r),
            repair |-> repair, facts |-> b.facts, threads |-> b.threads, turns |-> b.turns,
            pool |-> b.pool]
  BY <1>1, <1>3 DEF BuildArrivalPacket
<1>5. PICK T : b.threads \in Seq(T)
  BY <1>2
<1> DEFINE F == StateLines(sub) \cup MustLines(claims)
           U == ToSet(r)
<1>6. IsPacket(p0, F, T, U) /\ p0.pool = b.pool /\ p0.mode = "companion" /\ p0.user = m
      /\ p0.claims = claims /\ p0.prior = PriorAnswer(r)
  BY <1>2, <1>4, <1>5 DEF IsPacket, CompanionShown
<1>7. IsPacket(p, F, T, U) /\ SameTold(p0, p)
  <2> HIDE DEF F, U
  <2> QED BY <1>3, <1>6, Trimmed
<1> QED BY <1>2, <1>6, <1>7 DEF IsPacket, SameTold, CompanionShown

(* Measurement mode shows the whole state and the whole ring.              *)
MeasurementShown(p, sub, r) ==
  /\ p.facts \in Seq(ToSet(FactList(sub))) /\ p.threads \in Seq(ToSet(sub.threads))
  /\ p.turns \in Seq(ToSet(r))

LEMMA FactListType ==
  ASSUME NEW sub
  PROVE  /\ FactList(sub) \in Seq(ToSet(FactList(sub))) /\ <<"goal">> \in ToSet(FactList(sub))
         /\ sub.design_intent => <<"intent">> \in ToSet(FactList(sub))
<1> DEFINE base == <<<<"fully local">>, <<"sensors">>, <<"transducer">>, <<"edge">>,
                     <<"repair budget">>, <<"active profile">>, <<"goal">>>>
           intent == IF sub.design_intent THEN <<<<"intent">>>> ELSE <<>>
           person == IF sub.person THEN <<<<"operator">>>> ELSE <<>>
           S == {<<"fully local">>, <<"sensors">>, <<"transducer">>, <<"edge">>,
                 <<"repair budget">>, <<"active profile">>, <<"goal">>, <<"intent">>, <<"operator">>}
           all == FactList(sub)
<1>1. all = base \o intent \o person
  BY DEF FactList
<1>2. base \in Seq(S) /\ Len(base) = 7 /\ base[7] = <<"goal">>
  <2>1. ASSUME NEW V, NEW a \in V, NEW b \in V, NEW c \in V, NEW d \in V, NEW e \in V, NEW f \in V,
               NEW g \in V
        PROVE  /\ <<a, b, c, d, e, f, g>> \in Seq(V) /\ Len(<<a, b, c, d, e, f, g>>) = 7
               /\ <<a, b, c, d, e, f, g>>[7] = g
    OBVIOUS
  <2>2. /\ <<"fully local">> \in S /\ <<"sensors">> \in S /\ <<"transducer">> \in S /\ <<"edge">> \in S
        /\ <<"repair budget">> \in S /\ <<"active profile">> \in S /\ <<"goal">> \in S
    OBVIOUS
  <2> HIDE DEF S
  <2> QED BY <2>1, <2>2
<1>3. intent \in Seq(S) /\ (sub.design_intent => Len(intent) = 1 /\ intent[1] = <<"intent">>)
  <2>1. <<"intent">> \in S
    OBVIOUS
  <2> HIDE DEF S
  <2>2. <<<<"intent">>>> \in Seq(S) /\ Len(<<<<"intent">>>>) = 1 /\ <<<<"intent">>>>[1] = <<"intent">>
    BY <2>1, Tuples
  <2>3. CASE sub.design_intent
    BY <2>2, <2>3
  <2>4. CASE ~sub.design_intent
    BY <2>4
  <2> QED BY <2>3, <2>4
<1>4. person \in Seq(S)
  <2>1. <<"operator">> \in S
    OBVIOUS
  <2> HIDE DEF S
  <2>2. <<<<"operator">>>> \in Seq(S)
    BY <2>1, Tuples
  <2> QED BY <2>2
<1> HIDE DEF base, intent, person, S, all
<1> DEFINE first == base \o intent
<1>8. /\ first \in Seq(S) /\ 7 \in 1..Len(first) /\ first[7] = <<"goal">>
      /\ sub.design_intent => 8 \in 1..Len(first) /\ first[8] = <<"intent">>
  <2>1. /\ first \in Seq(S) /\ Len(first) = 7 + Len(intent)
        /\ \A i \in 1..7 : first[i] = base[i]
        /\ \A i \in 1..Len(intent) : first[7 + i] = intent[i]
    <3>1. /\ base \o intent \in Seq(S) /\ Len(base \o intent) = Len(base) + Len(intent)
          /\ \A i \in 1..Len(base) : (base \o intent)[i] = base[i]
          /\ \A i \in 1..Len(intent) : (base \o intent)[Len(base) + i] = intent[i]
      <4>1. base \in Seq(S) /\ intent \in Seq(S)
        BY <1>2, <1>3
      <4>2. base \o intent \in Seq(S) /\ Len(base \o intent) = Len(base) + Len(intent)
        BY <4>1
      <4>3. \A i \in 1..Len(base) : (base \o intent)[i] = base[i]
        BY <4>1
      <4>4. \A i \in 1..Len(intent) : (base \o intent)[Len(base) + i] = intent[i]
        BY <4>1
      <4> QED BY <4>2, <4>3, <4>4
    <3> QED BY <1>2, <3>1
  <2>2. Len(intent) \in Nat
    BY <1>3
  <2> HIDE DEF first
  <2>3. sub.design_intent => first[7 + 1] = intent[1]
    <3> SUFFICES ASSUME sub.design_intent PROVE first[7 + 1] = intent[1]
      OBVIOUS
    <3>1. 1 \in 1..Len(intent)
      BY <1>3
    <3> QED BY <2>1, <3>1
  <2> QED BY <1>2, <1>3, <2>1, <2>2, <2>3
<1>9. all = first \o person
  BY <1>1
<1> HIDE DEF first
<1>5. all \in Seq(S) /\ 7 \in DOMAIN all /\ all[7] = <<"goal">>
  BY <1>4, <1>8, <1>9
<1>6. sub.design_intent => 8 \in DOMAIN all /\ all[8] = <<"intent">>
  BY <1>4, <1>8, <1>9
<1>7. all \in Seq(ToSet(all))
  BY <1>5, OwnSet
<1> QED BY <1>5, <1>6, <1>7 DEF all, ToSet

LEMMA MeasurementPacketType ==
  ASSUME NEW sub, Given(sub), NEW r \in Seq(Exchange), NEW m, NEW mode, mode # "companion",
         NEW claims, NEW repair,
         NEW p, p = EnforcePacketBudget(BuildArrivalPacket(sub, r, m, mode, claims, repair))
  PROVE  p.mode = mode /\ MeasurementShown(p, sub, r)
<1>1. PICK p0 : p0 = BuildArrivalPacket(sub, r, m, mode, claims, repair)
  OBVIOUS
<1>2. p0 = [mode |-> mode, user |-> m, claims |-> claims, prior |-> PriorAnswer(r),
            repair |-> repair, facts |-> FactList(sub), threads |-> sub.threads, turns |-> r,
            pool |-> FactList(sub)]
  BY <1>1 DEF BuildArrivalPacket, MeasurementBlock
<1> DEFINE F == ToSet(FactList(sub))
           T == ToSet(sub.threads)
           U == ToSet(r)
<1>3. FactList(sub) \in Seq(F) /\ sub.threads \in Seq(T) /\ r \in Seq(U)
  BY FactListType, OwnSet DEF Given
<1> HIDE DEF F, T, U
<1>4. IsPacket(p0, F, T, U) /\ p0.mode = mode
  BY <1>2, <1>3 DEF IsPacket
<1>5. IsPacket(p, F, T, U) /\ SameTold(p0, p)
  BY <1>1, <1>4, Trimmed
<1> QED BY <1>4, <1>5 DEF IsPacket, SameTold, MeasurementShown, F, T, U

-----------------------------------------------------------------------------
(* The evidence pool of a packet holds nothing but lines of the substrate. *)

LEMMA HeldLines ==
  ASSUME NEW sub, Given(sub), NEW r \in Seq(Exchange), NEW claims \in Seq(PlainLine),
         NEW l \in PoolLines(sub, r) \cup ToSet(claims)
  PROVE  Core(l) = l
<1>1. CASE l \in ToSet(claims)
  <2>1. l \in PlainLine
    BY <1>1, OwnSet
  <2> QED BY <2>1, Plain
<1>2. CASE l \in StateLines(sub)
  <2>1. l \in PlainLine
    BY <1>2, StateItems DEF StateLines, IsStateItem
  <2> QED BY <2>1, Plain
<1>3. CASE l \in UserLines(r)
  BY <1>3 DEF UserLines, Core
<1>4. CASE l \in AnswerLines(r)
  <2>1. PICK i \in DOMAIN r : l = r[i].answer
    BY <1>4 DEF AnswerLines
  <2>2. i \in 1..Len(r)
    OBVIOUS
  <2> QED BY <2>1, <2>2, Exchanges, OwnText
<1> QED BY <1>1, <1>2, <1>3, <1>4 DEF PoolLines

LEMMA CompanionPool ==
  ASSUME NEW sub, Given(sub), NEW r \in Seq(Exchange), NEW claims \in Seq(PlainLine), NEW p,
         p.mode = "companion", p.claims = claims, CompanionShown(p, sub, r, claims)
  PROVE  /\ PacketEvidencePool(p, sub) =
              {Core(l) : l \in ToSet(p.pool) \cup ToSet(p.claims) \cup ToSet(p.facts)}
         /\ PacketEvidencePool(p, sub) \subseteq PoolLines(sub, r) \cup ToSet(claims)
<1>1. PacketEvidencePool(p, sub) =
        {Core(l) : l \in ToSet(p.pool) \cup ToSet(p.claims) \cup ToSet(p.facts)}
  BY DEF PacketEvidencePool
<1>2. \A l \in ToSet(claims) : Core(Must(l)) = l
  <2>1. \A l \in ToSet(claims) : l \in PlainLine
    BY OwnSet
  <2> QED BY <2>1, Plain
<1>3. \A l \in PoolLines(sub, r) \cup ToSet(claims) : Core(l) = l
  BY HeldLines
<1>4. /\ \A l \in ToSet(p.pool) : l \in PoolLines(sub, r) \cup ToSet(claims)
      /\ \A l \in ToSet(p.facts) : l \in StateLines(sub) \cup MustLines(claims)
  BY DEF CompanionShown, ToSet
<1>5. \A l \in ToSet(p.pool) : Core(l) \in PoolLines(sub, r) \cup ToSet(claims)
  BY <1>3, <1>4
<1>6. \A l \in ToSet(p.facts) : Core(l) \in PoolLines(sub, r) \cup ToSet(claims)
  BY <1>2, <1>3, <1>4 DEF PoolLines, MustLines
<1>7. \A l \in ToSet(p.claims) : Core(l) \in PoolLines(sub, r) \cup ToSet(claims)
  BY <1>3
<1> QED BY <1>1, <1>5, <1>6, <1>7

LEMMA MeasurementPool ==
  ASSUME NEW sub, Given(sub), NEW r \in Seq(Exchange), NEW p,
         p.mode # "companion", MeasurementShown(p, sub, r)
  PROVE  PacketEvidencePool(p, sub) \subseteq
           ToSet(FactList(sub)) \cup {<<"thread", sub.threads[i]>> : i \in DOMAIN sub.threads}
           \cup UserLines(r) \cup AnswerLines(r)
<1>1. PacketEvidencePool(p, sub) =
        ToSet(p.facts) \cup {<<"thread", p.threads[i]>> : i \in DOMAIN p.threads}
        \cup {<<"user", p.turns[i].user>> : i \in DOMAIN p.turns}
        \cup {p.turns[i].answer : i \in DOMAIN p.turns}
        \cup {l \in {<<"goal">>} : sub.goal} \cup {l \in {<<"intent">>} : sub.design_intent}
  BY DEF PacketEvidencePool
<1>2. \A l \in ToSet(p.facts) : l \in ToSet(FactList(sub))
  BY DEF MeasurementShown, ToSet
<1>3. \A i \in DOMAIN p.threads : \E j \in DOMAIN sub.threads : p.threads[i] = sub.threads[j]
  <2> TAKE i \in DOMAIN p.threads
  <2>1. p.threads[i] \in ToSet(sub.threads)
    BY DEF MeasurementShown
  <2> QED BY <2>1 DEF ToSet
<1>4. \A i \in DOMAIN p.turns : \E j \in DOMAIN r : p.turns[i] = r[j]
  <2> TAKE i \in DOMAIN p.turns
  <2>1. p.turns[i] \in ToSet(r)
    BY DEF MeasurementShown
  <2> QED BY <2>1 DEF ToSet
<1>5. {<<"thread", p.threads[i]>> : i \in DOMAIN p.threads} \subseteq
        {<<"thread", sub.threads[i]>> : i \in DOMAIN sub.threads}
  BY <1>3
<1>6. /\ {<<"user", p.turns[i].user>> : i \in DOMAIN p.turns} \subseteq UserLines(r)
      /\ {p.turns[i].answer : i \in DOMAIN p.turns} \subseteq AnswerLines(r)
  BY <1>4 DEF UserLines, AnswerLines
<1> QED BY <1>1, <1>2, <1>5, <1>6, FactListType

-----------------------------------------------------------------------------
(* The candidate: the substrate's own answer where the model's fails, and  *)
(* evidence that can be shown.                                             *)

IsCandidate(c) ==
  /\ DOMAIN c = {"ok", "text", "fallback", "source", "evidence", "touches"}
  /\ \E S : c.evidence \in Seq(S)
Quotes(c) == c.fallback /\ Quoted(c.text).template
Satisfies(c, ob) ==
  ob.kind # "none" => c.ok /\ Said(c.text).words # 0 /\ (Said(c.text).template => Quotes(c))

LEMMA Enforced ==
  ASSUME NEW reply, NEW a \in DOMAIN Answers, reply.text = <<"model", a>>,
         NEW S, reply.evidence \in Seq(S), NEW m, NEW ob,
         ob = NoObligation \/ (ob.kind # "none" /\ Owed(ob)),
         NEW c, c = EnforceAuthoritativeCandidate(ParseCandidate(reply), ob, m)
  PROVE  /\ IsCandidate(c) /\ c.text \in Text /\ Satisfies(c, ob)
         /\ ~c.fallback => c.text = reply.text
<1> DEFINE c0 == ParseCandidate(reply)
<1>1. reply.text \in Text /\ Said(reply.text).words \in Nat
  <2>1. Said(<<"model", a>>) = Answers[a]
    BY DEF Said
  <2>2. <<"model", a>> \in Text
    BY DEF Text
  <2> QED BY <2>1, <2>2, TextsAssumption
<1>2. /\ DOMAIN c0 = {"ok", "text", "fallback", "source", "evidence", "touches"}
      /\ c0.text = reply.text /\ c0.fallback = FALSE
      /\ c0.evidence \in Seq(S)
  <2>1. c0.evidence = reply.evidence \/ c0.evidence = <<>>
    BY DEF ParseCandidate
  <2>2. c0.evidence \in Seq(S)
    <3>1. <<>> \in Seq(S)
      OBVIOUS
    <3> HIDE DEF c0
    <3>2. CASE c0.evidence = reply.evidence
      BY <3>2
    <3>3. CASE c0.evidence = <<>>
      BY <3>1, <3>3
    <3> QED BY <2>1, <3>2, <3>3
  <2> QED BY <2>2 DEF ParseCandidate
<1>3. ob.kind = "none" => ob = NoObligation
  OBVIOUS
<1>4. NoObligation.kind = "none"
  BY DEF NoObligation
<1> HIDE DEF c0
<1>5. CASE ob.kind = "none"
  <2>1. c = c0
    BY <1>5 DEF EnforceAuthoritativeCandidate, c0
  <2> QED BY <1>1, <1>2, <1>5, <2>1 DEF IsCandidate, Satisfies
<1>6. CASE ob.kind # "none" /\ ~(c0.ok /\ Preserves(c0.text, ob, m))
  <2>1. c = RenderFallbackCandidate(ob)
    BY <1>6 DEF EnforceAuthoritativeCandidate, c0
  <2>2. c = [ok |-> TRUE, text |-> ob.text, fallback |-> TRUE, source |-> "substrate",
             evidence |-> ob.evidence, touches |-> {}]
    BY <2>1 DEF RenderFallbackCandidate
  <2>3. Owed(ob)
    BY <1>4, <1>6
  <2>4. /\ DOMAIN c = {"ok", "text", "fallback", "source", "evidence", "touches"}
        /\ c.ok = TRUE /\ c.text = ob.text /\ c.fallback = TRUE /\ c.evidence = ob.evidence
    BY <2>2
  <2>5. /\ ob.text \in Text /\ ob.evidence \in Seq(Line)
        /\ Said(ob.text).words # 0 /\ Said(ob.text).template = Quoted(ob.text).template
    BY <2>3, OwnText DEF Owed
  <2> QED BY <2>4, <2>5 DEF IsCandidate, Satisfies, Quotes
<1>7. CASE ob.kind # "none" /\ c0.ok /\ Preserves(c0.text, ob, m)
  <2>1. c = IF c0.evidence = <<>>
            THEN [c0 EXCEPT !.evidence = ob.evidence, !.source = "substrate"]
            ELSE c0
    BY <1>7 DEF EnforceAuthoritativeCandidate, c0
  <2>2. ob.evidence \in Seq(Line)
    BY <1>4, <1>7 DEF Owed
  <2>3. /\ DOMAIN c = {"ok", "text", "fallback", "source", "evidence", "touches"}
        /\ c.text = c0.text /\ c.ok = c0.ok /\ c.fallback = c0.fallback
        /\ c.evidence = c0.evidence \/ c.evidence = ob.evidence
    BY <1>2, <2>1
  <2>4. Said(c0.text).words > 0 /\ ~Said(c0.text).template
    BY <1>7 DEF Preserves
  <2>5. Said(c0.text).words # 0
    BY <1>1, <1>2, <2>4
  <2> QED BY <1>1, <1>2, <1>7, <2>2, <2>3, <2>4, <2>5 DEF IsCandidate, Satisfies
<1> QED BY <1>5, <1>6, <1>7

LEMMA Filtered ==
  ASSUME NEW S, NEW sq \in Seq(S), NEW I \in SUBSET DOMAIN sq
  PROVE  At(sq, I) \in Seq(S) /\ \A l \in ToSet(At(sq, I)) : \E i \in I : l = sq[i]
<1>1. PICK a : a = At(sq, I)
  OBVIOUS
<1>2. a \in Seq(S) /\ HoldsThose(a, sq, I)
  BY <1>1, AtFrom
<1>3. \A l \in ToSet(a) : \E i \in I : l = sq[i]
  BY <1>2 DEF HoldsThose, ToSet
<1> QED BY <1>1, <1>2, <1>3

LEMMA Supplied ==
  ASSUME NEW sub, NEW r, NEW claims, NEW p, CompanionShown(p, sub, r, claims), NEW text
  PROVE  \E S : SubstrateSupplyEvidence(p, sub, text) \in Seq(S)
<1> DEFINE goal == <<<<"goal">>>>
           own == <<<<"fully local">>>>
           facts == IF p.facts = <<>> /\ sub.goal THEN goal ELSE p.facts
           I == {i \in DOMAIN facts : Core(facts[i])[1] \in Said(text).states \cup Said(text).topics}
           shared == At(facts, I)
           e == SubstrateSupplyEvidence(p, sub, text)
           S == StateLines(sub) \cup MustLines(claims) \cup {<<"goal">>, <<"fully local">>}
<1>1. e = IF facts = <<>> THEN own ELSE IF shared = <<>> THEN <<facts[1]>> ELSE AtMost(2, shared)
  BY DEF SubstrateSupplyEvidence, Filter
<1>2. goal \in Seq(S) /\ own \in Seq(S)
  <2>1. <<"goal">> \in S /\ <<"fully local">> \in S
    OBVIOUS
  <2> HIDE DEF S
  <2> QED BY <2>1, Tuples
<1>3. facts \in Seq(S)
  <2>1. PICK T : p.facts \in Seq(T) /\ T \subseteq S
    <3>1. /\ p.facts \in Seq(StateLines(sub) \cup MustLines(claims))
          /\ StateLines(sub) \cup MustLines(claims) \subseteq S
      BY DEF CompanionShown
    <3> HIDE DEF S
    <3> QED BY <3>1
  <2> HIDE DEF goal, S
  <2>2. p.facts \in Seq(S)
    BY <2>1
  <2> QED BY <1>2, <2>2
<1>4. I \in SUBSET DOMAIN facts
  OBVIOUS
<1> HIDE DEF facts, I, S, own
<1>5. shared \in Seq(S)
  BY <1>3, <1>4, Filtered
<1> HIDE DEF shared
<1>6. e \in Seq(S)
  <2>1. CASE facts = <<>>
    BY <1>1, <1>2, <2>1
  <2>2. CASE facts # <<>> /\ shared = <<>>
    <3>1. facts[1] \in S
      BY <1>3, <2>2
    <3> QED BY <1>1, <2>2, <3>1, Tuples
  <2>3. CASE facts # <<>> /\ shared # <<>>
    <3>1. AtMost(2, shared) \in Seq(S)
      BY <1>5, First
    <3> QED BY <1>1, <2>3, <3>1
  <2> QED BY <2>1, <2>2, <2>3
<1> QED BY <1>6

LEMMA Grounded ==
  ASSUME NEW sub, NEW r, NEW claims, NEW p, CompanionShown(p, sub, r, claims),
         NEW c, IsCandidate(c), NEW g, g = CompanionGrounding(c, p, sub)
  PROVE  /\ DOMAIN g = DOMAIN c /\ g.ok = c.ok /\ g.text = c.text /\ g.fallback = c.fallback
         /\ \E S : g.evidence \in Seq(S)
<1> DEFINE I == {i \in DOMAIN c.evidence : Usable(c.evidence[i])}
           usable == At(c.evidence, I)
           supply == SubstrateSupplyEvidence(p, sub, c.text)
<1>1. g = IF usable # <<>> THEN [c EXCEPT !.evidence = usable]
          ELSE [c EXCEPT !.evidence = supply, !.source = "substrate supplied"]
  BY DEF CompanionGrounding, Filter
<1>2. PICK S : c.evidence \in Seq(S)
  BY DEF IsCandidate
<1>3. usable \in Seq(S)
  <2>1. I \in SUBSET DOMAIN c.evidence
    OBVIOUS
  <2> HIDE DEF I
  <2> QED BY <1>2, <2>1, Filtered
<1>4. \E T : supply \in Seq(T)
  BY Supplied
<1> HIDE DEF usable, supply
<1>5. /\ DOMAIN g = DOMAIN c /\ g.ok = c.ok /\ g.text = c.text /\ g.fallback = c.fallback
      /\ g.evidence = usable \/ g.evidence = supply
  BY <1>1 DEF IsCandidate
<1> QED BY <1>3, <1>4, <1>5

LEMMA SameAnswer ==
  ASSUME NEW sub, NEW r, NEW claims, NEW p, CompanionShown(p, sub, r, claims),
         NEW c, IsCandidate(c), NEW g, g = AlignCitations(CompanionGrounding(c, p, sub), p)
  PROVE  g.ok = c.ok /\ g.text = c.text /\ g.fallback = c.fallback
<1>1. PICK c1 : c1 = CompanionGrounding(c, p, sub)
  OBVIOUS
<1>2. DOMAIN c1 = DOMAIN c /\ c1.ok = c.ok /\ c1.text = c.text /\ c1.fallback = c.fallback
  BY <1>1, Grounded
<1>3. \E e, source : g = [c1 EXCEPT !.evidence = e] \/ g = [c1 EXCEPT !.evidence = e, !.source = source]
  BY <1>1 DEF AlignCitations
<1> QED BY <1>2, <1>3 DEF IsCandidate

(* What refuses the evidence of a state question: a line held, too short   *)
(* to be cited, in a citation; or nothing is cited because of it.          *)
TooShort(e, lines) ==
  \E t \in lines : ~Usable(t) /\ (e = <<>> \/ \E l \in ToSet(e) : Occurs(t, l))

(* A citation that the alignment kept occurs in a line of the pool, or has *)
(* one in it; one of 12 characters is enough for the check.  When it kept  *)
(* none, the first claim is in the pool and can be cited unless too short. *)
LEMMA Aligned ==
  ASSUME NEW sub, Given(sub), NEW r \in Seq(Exchange), NEW claims \in Seq(PlainLine), NEW p,
         p.mode = "companion", p.claims = claims, CompanionShown(p, sub, r, claims),
         NEW c, IsCandidate(c), NEW g, g = AlignCitations(CompanionGrounding(c, p, sub), p)
  PROVE  claims # <<>> => \/ EvidenceOk(g.evidence, PacketEvidencePool(p, sub))
                          \/ TooShort(g.evidence, PoolLines(sub, r) \cup ToSet(claims))
<1>1. PICK c1 : c1 = CompanionGrounding(c, p, sub)
  OBVIOUS
<1>2. /\ DOMAIN c1 = DOMAIN c /\ c1.ok = c.ok /\ c1.text = c.text /\ c1.fallback = c.fallback
      /\ \E S : c1.evidence \in Seq(S)
  BY <1>1, Grounded
<1> DEFINE items == IF p.pool # <<>> THEN p.pool ELSE p.facts
           Matched(l) == \E i \in ToSet(items) : Occurs(l, i) \/ Occurs(i, l)
           I == {i \in DOMAIN c1.evidence : Usable(c1.evidence[i]) /\ Matched(c1.evidence[i])}
           cited == At(c1.evidence, I)
           J == {i \in 1..Len(items) : Usable(items[i])}
           supply == IF J # {} THEN Min(J) ELSE 0
           pool == PacketEvidencePool(p, sub)
           lines == PoolLines(sub, r) \cup ToSet(claims)
<1>3. g = CASE cited # <<>> -> [c1 EXCEPT !.evidence = cited]
            [] cited = <<>> /\ supply # 0 -> [c1 EXCEPT !.evidence = <<items[supply]>>,
                                                       !.source = "substrate supplied"]
            [] OTHER -> [c1 EXCEPT !.evidence = <<>>]
  BY <1>1 DEF AlignCitations, Filter, SelectInSeq
<1>4. /\ cited # <<>> => g.evidence = cited
      /\ cited = <<>> /\ supply # 0 => g.evidence = <<items[supply]>>
      /\ cited = <<>> /\ supply = 0 => g.evidence = <<>>
  <2> DEFINE ev2 == <<items[supply]>>
  <2> HIDE DEF cited, supply
  <2> QED BY <1>2, <1>3 DEF IsCandidate
<1> SUFFICES ASSUME claims # <<>> PROVE EvidenceOk(g.evidence, pool) \/ TooShort(g.evidence, lines)
  OBVIOUS
<1>5. items = p.pool /\ claims[1] \in ToSet(p.pool) /\ p.pool \in Seq(lines)
  BY DEF CompanionShown
<1>6. \A l \in ToSet(items) : l \in lines /\ Core(l) \in pool
  <2>1. \A l \in ToSet(p.pool) : Core(l) \in pool
    BY CompanionPool
  <2>2. ToSet(p.pool) \subseteq lines
    BY <1>5, OwnSet
  <2> HIDE DEF items, pool, lines
  <2> QED BY <1>5, <2>1, <2>2
<1>7. \A l \in ToSet(items) : Core(Core(l)) = Core(l)
  <2>1. \A l \in ToSet(items) : Core(l) = l
    <3> HIDE DEF items
    <3> QED BY <1>6, HeldLines
  <2> HIDE DEF items
  <2> QED BY <2>1
<1> HIDE DEF items, pool, lines
<1>8. CASE cited # <<>>
  <2>1. PICK S : c1.evidence \in Seq(S)
    BY <1>2
  <2>2. I \in SUBSET DOMAIN c1.evidence /\ \A i \in I : Usable(c1.evidence[i]) /\ Matched(c1.evidence[i])
    OBVIOUS
  <2> HIDE DEF I
  <2>3. \A l \in ToSet(cited) : \E i \in I : l = c1.evidence[i]
    BY <2>1, <2>2, Filtered
  <2>4. g.evidence # <<>> /\ \A l \in ToSet(g.evidence) : Usable(l) /\ Matched(l)
    <3> HIDE DEF cited, Matched
    <3> QED BY <1>4, <1>8, <2>2, <2>3
  <2>5. SUFFICES ASSUME ~TooShort(g.evidence, lines), NEW l \in ToSet(g.evidence)
                 PROVE  \E k \in pool : Occurs(l, k) \/ (Usable(k) /\ Occurs(k, l))
    BY <2>4 DEF EvidenceOk
  <2>6. PICK i \in ToSet(items) : Occurs(l, i) \/ Occurs(i, l)
    BY <2>4
  <2>7. Core(i) \in pool /\ i \in lines /\ Core(Core(i)) = Core(i)
    BY <1>6, <1>7
  <2>8. CASE Occurs(l, i)
    <3>1. Occurs(l, Core(i))
      BY <2>7, <2>8 DEF Occurs
    <3> QED BY <2>7, <3>1
  <2>9. CASE Occurs(i, l)
    <3>1. Usable(i)
      BY <2>5, <2>7, <2>9 DEF TooShort
    <3>2. Usable(Core(i)) /\ Occurs(Core(i), l)
      BY <2>7, <2>9, <3>1 DEF Usable, Occurs
    <3> QED BY <2>7, <3>2
  <2> QED BY <2>6, <2>8, <2>9
<1>9. CASE cited = <<>> /\ supply # 0
  <2>1. J # {} /\ supply = Min(J)
    BY <1>9
  <2>2. J \in SUBSET Nat
    OBVIOUS
  <2>3. Min(J) \in J
    <3> HIDE DEF J
    <3> QED BY <2>1, <2>2, Smallest
  <2>4. supply \in 1..Len(items) /\ Usable(items[supply])
    <3> HIDE DEF supply
    <3> QED BY <2>1, <2>3
  <2> HIDE DEF cited, supply
  <2>5. items[supply] \in ToSet(items)
    BY <1>5, <2>4 DEF ToSet
  <2>6. PICK l : l = items[supply] /\ Usable(l) /\ Core(l) \in pool /\ Occurs(l, Core(l))
    BY <1>6, <1>7, <2>4, <2>5 DEF Occurs
  <2>7. g.evidence = <<l>>
    BY <1>4, <1>9, <2>6
  <2>8. <<l>> # <<>> /\ \A k \in ToSet(<<l>>) : k = l
    <3>1. <<l>> \in Seq({l})
      OBVIOUS
    <3>2. ToSet(<<l>>) \subseteq {l}
      BY <3>1, OwnSet
    <3> QED BY <3>2
  <2> QED BY <2>6, <2>7, <2>8 DEF EvidenceOk
<1>10. CASE cited = <<>> /\ supply = 0
  <2>1. PICK i \in DOMAIN items : items[i] = claims[1]
    BY <1>5 DEF ToSet
  <2>2. i \in 1..Len(items) /\ claims[1] \in lines
    <3>1. claims[1] \in ToSet(claims)
      BY DEF ToSet
    <3> QED BY <1>5, <2>1, <3>1 DEF lines
  <2>3. J = {}
    <3>1. J # {} => Min(J) \in J
      <4>1. J \in SUBSET Nat
        OBVIOUS
      <4> HIDE DEF J
      <4> QED BY <4>1, Smallest
    <3>2. J # {} => Min(J) # 0
      BY <3>1
    <3> HIDE DEF J
    <3> QED BY <1>10, <3>2
  <2>4. ~Usable(claims[1])
    BY <2>1, <2>2, <2>3
  <2> HIDE DEF cited, supply
  <2> QED BY <1>4, <1>10, <2>2, <2>4 DEF TooShort
<1> QED BY <1>8, <1>9, <1>10

LEMMA WhatViolates ==
  ASSUME NEW c, NEW p, NEW sub, NEW V, V = Violations(c, p, sub)
  PROVE  /\ "parse_failed" \in V => ~c.ok
         /\ "missing_answer" \in V <=> Said(c.text).words = 0
         /\ "template_echo" \in V => Said(c.text).template
         /\ "evidence" \in V <=>
              /\ ~(p.mode = "companion" /\ PacketEvidencePool(p, sub) = {} /\ c.evidence = <<>>)
              /\ ~EvidenceOk(c.evidence, PacketEvidencePool(p, sub))
         /\ /\ p.mode = "companion" /\ ~c.fallback /\ Said(c.text).words > 0 /\ p.prior # NoText
            /\ UserPromptChanged(p) /\ IsSubstantialRepeat(c.text, p.prior)
            => "stale_response_repeat" \in V
<1>1. "parse_failed" \in V => ~c.ok
  BY DEF Violations
<1>2. "missing_answer" \in V <=> Said(c.text).words = 0
  BY DEF Violations
<1>3. "template_echo" \in V => Said(c.text).template
  BY DEF Violations
<1>4. "evidence" \in V <=>
        /\ ~(p.mode = "companion" /\ PacketEvidencePool(p, sub) = {} /\ c.evidence = <<>>)
        /\ ~EvidenceOk(c.evidence, PacketEvidencePool(p, sub))
  BY DEF Violations
<1>5. /\ p.mode = "companion" /\ ~c.fallback /\ Said(c.text).words > 0 /\ p.prior # NoText
      /\ UserPromptChanged(p) /\ IsSubstantialRepeat(c.text, p.prior)
      => "stale_response_repeat" \in V
  BY DEF Violations
<1> QED BY <1>1, <1>2, <1>3, <1>4, <1>5

HeldBy(sub, m, mode, r) ==
  UserLines(r) \cup AnswerLines(r) \cup StateLines(sub) \cup ToSet(FactList(sub))
  \cup {<<"thread", sub.threads[i]>> : i \in DOMAIN sub.threads}
  \cup (IF mode = "companion" THEN ToSet(ResolveObligation(sub, r, m).claims) ELSE {})

AllHeld(e, lines) ==
  \A l \in ToSet(e) : \E h \in lines : Occurs(l, h) \/ (Usable(h) /\ Occurs(h, l))

(* What the three properties say of a turn, of its receipt alone.          *)
WellJudged(v, ob, sub, m, mode, r) ==
  /\ v.candidate.text \in Text
  /\ ob.kind # "none" =>
       /\ v.violations \cap {"parse_failed", "missing_answer"} = {}
       /\ "template_echo" \in v.violations => Quotes(v.candidate)
       /\ "evidence" \in v.violations => TooShort(v.candidate.evidence, HeldBy(sub, m, mode, r))
  /\ v.violations = {} => AllHeld(v.candidate.evidence, HeldBy(sub, m, mode, r))
  /\ /\ v.violations = {} /\ mode = "companion" /\ ~v.candidate.fallback
     /\ r # <<>> /\ v.candidate.text = Last(r).answer
     => \E i \in DOMAIN r : r[i].user = m

LEMMA CompanionJudged ==
  ASSUME NEW sub, Given(sub), NEW r \in Seq(Exchange), NEW m \in DOMAIN Messages,
         NEW ob, ob = ResolveObligation(sub, r, m), NEW repair,
         NEW p, p = EnforcePacketBudget(BuildArrivalPacket(sub, r, m, "companion", ob.claims, repair)),
         NEW reply, NEW a \in DOMAIN Answers, reply.text = <<"model", a>>,
         NEW S, reply.evidence \in Seq(S),
         NEW c, c = EnforceAuthoritativeCandidate(ParseCandidate(reply), ob, m),
         NEW v, v = ValidateCandidate(c, p, sub)
  PROVE  WellJudged(v, ob, sub, m, "companion", r)
<1>1. ob = NoObligation \/ (ob.kind # "none" /\ Owed(ob))
  BY ObligationType
<1>2. ob.claims \in Seq(PlainLine) /\ (ob.kind # "none" => ob.claims # <<>>)
  <2>1. CASE ob = NoObligation
    <3>1. ob.claims = <<>> /\ ob.kind = "none"
      BY <2>1 DEF NoObligation
    <3> QED BY <3>1
  <2>2. CASE Owed(ob)
    BY <2>2 DEF Owed
  <2> QED BY <1>1, <2>1, <2>2
<1>3. PICK claims \in Seq(PlainLine) : claims = ob.claims
  BY <1>2
<1>4. /\ p.mode = "companion" /\ p.user = m /\ p.claims = claims /\ p.prior = PriorAnswer(r)
      /\ CompanionShown(p, sub, r, claims)
  BY <1>2, <1>3, CompanionPacketType
<1>5. /\ IsCandidate(c) /\ c.text \in Text /\ Satisfies(c, ob)
      /\ ~c.fallback => c.text = reply.text
  BY <1>1, Enforced
<1>6. PICK g : g = AlignCitations(CompanionGrounding(c, p, sub), p)
  OBVIOUS
<1>7. /\ g.ok = c.ok /\ g.text = c.text /\ g.fallback = c.fallback
      /\ claims # <<>> => \/ EvidenceOk(g.evidence, PacketEvidencePool(p, sub))
                          \/ TooShort(g.evidence, PoolLines(sub, r) \cup ToSet(claims))
  <2>1. p.mode = "companion" /\ p.claims = claims /\ CompanionShown(p, sub, r, claims)
    BY <1>4
  <2>2. IsCandidate(c)
    BY <1>5
  <2>3. g.ok = c.ok /\ g.text = c.text /\ g.fallback = c.fallback
    BY <1>6, <2>1, <2>2, SameAnswer
  <2>4. claims # <<>> => \/ EvidenceOk(g.evidence, PacketEvidencePool(p, sub))
                        \/ TooShort(g.evidence, PoolLines(sub, r) \cup ToSet(claims))
    BY <1>6, <2>1, <2>2, Aligned
  <2> QED BY <2>3, <2>4
<1>8. v.candidate = g /\ v.violations = Violations(g, p, sub)
  BY <1>4, <1>6 DEF ValidateCandidate
<1>9. PICK V : V = v.violations
  OBVIOUS
<1>10. /\ "parse_failed" \in V => ~g.ok
       /\ "missing_answer" \in V <=> Said(g.text).words = 0
       /\ "template_echo" \in V => Said(g.text).template
       /\ "evidence" \in V <=>
            /\ ~(p.mode = "companion" /\ PacketEvidencePool(p, sub) = {} /\ g.evidence = <<>>)
            /\ ~EvidenceOk(g.evidence, PacketEvidencePool(p, sub))
       /\ /\ p.mode = "companion" /\ ~g.fallback /\ Said(g.text).words > 0 /\ p.prior # NoText
          /\ UserPromptChanged(p) /\ IsSubstantialRepeat(g.text, p.prior)
          => "stale_response_repeat" \in V
  BY <1>8, <1>9, WhatViolates
<1>11. PoolLines(sub, r) \cup ToSet(claims) \subseteq HeldBy(sub, m, "companion", r)
  BY <1>3 DEF HeldBy, PoolLines
<1>12. ASSUME ob.kind # "none"
       PROVE  /\ V \cap {"parse_failed", "missing_answer"} = {}
              /\ "template_echo" \in V => Quotes(g)
              /\ "evidence" \in V => TooShort(g.evidence, HeldBy(sub, m, "companion", r))
  <2>1. c.ok /\ Said(c.text).words # 0 /\ (Said(c.text).template => Quotes(c))
    BY <1>5, <1>12 DEF Satisfies
  <2>2. Said(g.text).template => Quotes(g)
    BY <1>7, <2>1 DEF Quotes
  <2>3. "evidence" \in V => TooShort(g.evidence, PoolLines(sub, r) \cup ToSet(claims))
    BY <1>2, <1>3, <1>7, <1>10, <1>12
  <2> QED BY <1>7, <1>10, <1>11, <2>1, <2>2, <2>3 DEF TooShort
<1>14. ASSUME V = {} PROVE AllHeld(g.evidence, HeldBy(sub, m, "companion", r))
  <2>1. PacketEvidencePool(p, sub) \subseteq HeldBy(sub, m, "companion", r)
    BY <1>2, <1>3, <1>4, <1>11, CompanionPool
  <2>2. CASE g.evidence = <<>>
    <3>1. ToSet(g.evidence) = {}
      BY <2>2 DEF ToSet
    <3> QED BY <3>1 DEF AllHeld
  <2>3. CASE EvidenceOk(g.evidence, PacketEvidencePool(p, sub))
    BY <2>1, <2>3 DEF EvidenceOk, AllHeld
  <2> QED BY <1>10, <1>14, <2>2, <2>3
<1>13. ASSUME V = {}, ~g.fallback, r # <<>>, g.text = Last(r).answer
       PROVE  \E i \in DOMAIN r : r[i].user = m
  <2>1. g.text = <<"model", a>> /\ Said(g.text).words \in Nat
    <3>1. g.text = <<"model", a>>
      BY <1>5, <1>7, <1>13
    <3>2. Said(<<"model", a>>) = Answers[a]
      BY DEF Said
    <3> QED BY <3>1, <3>2, TextsAssumption
  <2>2. Said(g.text).words > 0
    BY <1>10, <1>13, <2>1
  <2>3. p.prior = g.text /\ p.prior # NoText
    BY <1>4, <1>5, <1>7, <1>13, OwnText DEF PriorAnswer
  <2>4. IsSubstantialRepeat(g.text, p.prior)
    BY <2>3 DEF IsSubstantialRepeat
  <2>5. p.turns # <<>> /\ Last(p.turns).user = m
    BY <1>4, <1>10, <1>13, <2>2, <2>3, <2>4 DEF UserPromptChanged
  <2>6. Last(p.turns) \in ToSet(r)
    BY <1>4, <2>5 DEF CompanionShown, Last
  <2> QED BY <2>5, <2>6 DEF ToSet
<1> QED BY <1>5, <1>7, <1>8, <1>9, <1>12, <1>13, <1>14 DEF WellJudged

LEMMA MeasurementJudged ==
  ASSUME NEW sub, Given(sub), NEW r \in Seq(Exchange), NEW m \in DOMAIN Messages,
         NEW mode, mode # "companion", NEW ob, ob = NoObligation, NEW repair,
         NEW p, p = EnforcePacketBudget(BuildArrivalPacket(sub, r, m, mode, ob.claims, repair)),
         NEW reply, NEW a \in DOMAIN Answers, reply.text = <<"model", a>>,
         NEW S, reply.evidence \in Seq(S),
         NEW c, c = EnforceAuthoritativeCandidate(ParseCandidate(reply), ob, m),
         NEW v, v = ValidateCandidate(c, p, sub)
  PROVE  WellJudged(v, ob, sub, m, mode, r)
<1>1. p.mode = mode /\ MeasurementShown(p, sub, r)
  BY MeasurementPacketType
<1>2. c.text \in Text
  BY Enforced
<1>3. v.candidate = c /\ v.violations = Violations(c, p, sub)
  BY <1>1 DEF ValidateCandidate
<1>4. ob.kind = "none"
  BY DEF NoObligation
<1>5. ASSUME v.violations = {}
      PROVE  AllHeld(c.evidence, HeldBy(sub, m, mode, r))
  <2>1. EvidenceOk(c.evidence, PacketEvidencePool(p, sub))
    <3>1. PICK V : V = Violations(c, p, sub)
      OBVIOUS
    <3>2. "evidence" \notin V /\ p.mode # "companion"
      BY <1>1, <1>3, <1>5, <3>1
    <3>3. "evidence" \in V <=>
            /\ ~(p.mode = "companion" /\ PacketEvidencePool(p, sub) = {} /\ c.evidence = <<>>)
            /\ ~EvidenceOk(c.evidence, PacketEvidencePool(p, sub))
      BY <3>1, WhatViolates
    <3> QED BY <3>2, <3>3
  <2>2. PacketEvidencePool(p, sub) \subseteq HeldBy(sub, m, mode, r)
    <3>1. PacketEvidencePool(p, sub) \subseteq
            ToSet(FactList(sub)) \cup {<<"thread", sub.threads[i]>> : i \in DOMAIN sub.threads}
            \cup UserLines(r) \cup AnswerLines(r)
      BY <1>1, MeasurementPool
    <3> QED BY <3>1 DEF HeldBy
  <2> QED BY <2>1, <2>2 DEF EvidenceOk, AllHeld
<1> QED BY <1>2, <1>3, <1>4, <1>5 DEF WellJudged

-----------------------------------------------------------------------------
(* The session: while a reply is awaited the ring is the one the packet    *)
(* was made of, and the obligation the one its claims come from.           *)

RingInv == ring \in Seq(Exchange)
TurnInv ==
  \/ turn.pc = "idle"
  \/ /\ turn.pc \in {"compile", "infer"}
     /\ DOMAIN turn = {"pc", "m", "mode", "pass", "plan", "packet", "ob"}
     /\ turn.m \in DOMAIN Messages /\ turn.mode \in {"companion", "measurement"}
     /\ turn.ob = IF turn.mode = "companion" THEN ResolveObligation(s, ring, turn.m) ELSE NoObligation
     /\ turn.pc = "infer" =>
          turn.packet = EnforcePacketBudget(
            BuildArrivalPacket(s, ring, turn.m, turn.mode, turn.ob.claims, turn.pass > 0))
SessionInv ==
  /\ setup \in Setups /\ RingInv /\ TurnInv
  /\ StateIsAnswered /\ EvidenceIsHeld /\ RepeatIsAskedAgain

LEMMA HeldMeans ==
  ASSUME NEW m, NEW mode, NEW r \in Seq(Exchange)
  PROVE  Held(m, mode, r) = HeldBy(s, m, mode, r)
BY DEF Held, HeldBy, UserLines, AnswerLines, StateLines

(* A turn that ended without a judgement says nothing of the three.        *)
LEMMA NoJudgement ==
  ASSUME last'.decision \notin {"accept", "reject"}
  PROVE  StateIsAnswered' /\ EvidenceIsHeld' /\ RepeatIsAskedAgain'
BY DEF StateIsAnswered, EvidenceIsHeld, RepeatIsAskedAgain

LEMMA SameJudgement ==
  ASSUME StateIsAnswered, EvidenceIsHeld, RepeatIsAskedAgain, UNCHANGED <<last, setup>>
  PROVE  StateIsAnswered' /\ EvidenceIsHeld' /\ RepeatIsAskedAgain'
<1>1. last' = last /\ s' = s
  BY DEF s
<1>2. Held(last.m, last.mode, last.before)' = Held(last.m, last.mode, last.before)
  BY <1>1 DEF Held
<1> QED BY <1>1, <1>2 DEF StateIsAnswered, EvidenceIsHeld, RepeatIsAskedAgain

LEMMA RingKept ==
  ASSUME RingInv, turn.m \in DOMAIN Messages, NEW text \in Text
  PROVE  AppendRecentTurn(text) \in Seq(Exchange)
<1> DEFINE e == [user |-> turn.m, answer |-> text]
           turns == Append(ring, e)
           k == IF Len(turns) > RingTurns THEN Len(turns) - RingTurns + 1 ELSE 1
<1>1. e \in Exchange
  BY DEF Exchange
<1> HIDE DEF e
<1>2. turns \in Seq(Exchange)
  BY <1>1 DEF RingInv
<1>3. AppendRecentTurn(text) = ring \/ AppendRecentTurn(text) = SubSeq(turns, k, Len(turns))
  BY DEF AppendRecentTurn, e
<1> HIDE DEF turns
<1>4. k \in 1..(Len(turns) + 1)
  BY <1>2, TextsAssumption
<1> HIDE DEF k
<1>5. SubSeq(turns, k, Len(turns)) \in Seq(Exchange)
  BY <1>2, <1>4
<1> QED BY <1>3, <1>5 DEF RingInv

LEMMA ReplyJudged ==
  ASSUME SessionInv, turn.pc = "infer", NEW reply, NEW a \in DOMAIN Answers,
         reply.text = <<"model", a>>, NEW S, reply.evidence \in Seq(S),
         NEW v, v = ValidateCandidate(EnforceAuthoritativeCandidate(ParseCandidate(reply), turn.ob, turn.m),
                                      turn.packet, s)
  PROVE  WellJudged(v, turn.ob, s, turn.m, turn.mode, ring)
<1>1. Given(s) /\ ring \in Seq(Exchange)
  BY SetupsAssumption DEF SessionInv, Given, s, RingInv
<1>2. /\ turn.m \in DOMAIN Messages /\ turn.mode \in {"companion", "measurement"}
      /\ turn.ob = IF turn.mode = "companion" THEN ResolveObligation(s, ring, turn.m) ELSE NoObligation
      /\ turn.packet = EnforcePacketBudget(
           BuildArrivalPacket(s, ring, turn.m, turn.mode, turn.ob.claims, turn.pass > 0))
  BY DEF SessionInv, TurnInv
<1>3. PICK sub, r, m, mode, ob, repair, p :
        /\ sub = s /\ r = ring /\ m = turn.m /\ mode = turn.mode /\ ob = turn.ob
        /\ repair = (turn.pass > 0) /\ p = turn.packet
  OBVIOUS
<1>4. PICK c : c = EnforceAuthoritativeCandidate(ParseCandidate(reply), ob, m)
  OBVIOUS
<1>5. v = ValidateCandidate(c, p, sub)
  BY <1>3, <1>4
<1>6. CASE mode = "companion"
  <2>1. /\ ob = ResolveObligation(sub, r, m)
        /\ p = EnforcePacketBudget(BuildArrivalPacket(sub, r, m, "companion", ob.claims, repair))
    BY <1>2, <1>3, <1>6
  <2>2. Given(sub) /\ r \in Seq(Exchange) /\ m \in DOMAIN Messages
    BY <1>1, <1>2, <1>3
  <2>3. WellJudged(v, ob, sub, m, "companion", r)
    BY <1>4, <1>5, <2>1, <2>2, CompanionJudged
  <2> QED BY <1>3, <1>6, <2>3
<1>7. CASE mode # "companion"
  <2>1. /\ ob = NoObligation
        /\ p = EnforcePacketBudget(BuildArrivalPacket(sub, r, m, mode, ob.claims, repair))
    BY <1>2, <1>3, <1>7
  <2>2. Given(sub) /\ r \in Seq(Exchange) /\ m \in DOMAIN Messages
    BY <1>1, <1>2, <1>3
  <2>3. WellJudged(v, ob, sub, m, mode, r)
    BY <1>4, <1>5, <1>7, <2>1, <2>2, MeasurementJudged
  <2> QED BY <1>3, <2>3
<1> QED BY <1>6, <1>7

LEMMA LastJudged ==
  ASSUME SessionInv, NEW v, WellJudged(v, turn.ob, s, turn.m, turn.mode, ring), UNCHANGED setup,
         NEW decision, decision \in {"accept", "reject"},
         decision = "accept" => v.violations = {},
         last' = [m |-> turn.m, mode |-> turn.mode, decision |-> decision, kind |-> turn.ob.kind,
                  text |-> v.candidate.text, fallback |-> v.candidate.fallback,
                  evidence |-> v.candidate.evidence, violations |-> v.violations, before |-> ring]
  PROVE  StateIsAnswered' /\ EvidenceIsHeld' /\ RepeatIsAskedAgain'
<1>1. s' = s
  BY DEF s
<1>2. /\ last'.m = turn.m /\ last'.mode = turn.mode /\ last'.decision = decision
      /\ last'.kind = turn.ob.kind /\ last'.text = v.candidate.text
      /\ last'.fallback = v.candidate.fallback /\ last'.evidence = v.candidate.evidence
      /\ last'.violations = v.violations /\ last'.before = ring
  OBVIOUS
<1>3. Held(last.m, last.mode, last.before)' = HeldBy(s, turn.m, turn.mode, ring)
  <2>1. Held(last.m, last.mode, last.before)' = Held(turn.m, turn.mode, ring)
    BY <1>1, <1>2 DEF Held
  <2> QED BY <2>1, HeldMeans DEF SessionInv, RingInv
<1>4. StateIsAnswered'
  BY <1>2, <1>3 DEF StateIsAnswered, WellJudged, TooShort, Quotes
<1>6. EvidenceIsHeld'
  BY <1>2, <1>3 DEF EvidenceIsHeld, WellJudged, AllHeld
<1>5. RepeatIsAskedAgain'
  BY <1>2 DEF RepeatIsAskedAgain, WellJudged
<1> QED BY <1>4, <1>5, <1>6

LEMMA SessionInit == Init => SessionInv
<1> SUFFICES ASSUME Init PROVE SessionInv
  OBVIOUS
<1>1. setup \in Setups /\ RingInv
  BY DEF Init, RingInv
<1>2. TurnInv
  BY DEF Init, NoTurn, TurnInv
<1>3. last.decision = "none"
  BY DEF Init, NoResult
<1>4. StateIsAnswered /\ EvidenceIsHeld /\ RepeatIsAskedAgain
  BY <1>3 DEF StateIsAnswered, EvidenceIsHeld, RepeatIsAskedAgain
<1> QED BY <1>1, <1>2, <1>4 DEF SessionInv

LEMMA SessionStep == SessionInv /\ [Next]_vars => SessionInv'
<1> SUFFICES ASSUME SessionInv, [Next]_vars PROVE SessionInv'
  OBVIOUS
<1>1. setup \in Setups /\ ring \in Seq(Exchange) /\ TurnInv
  BY DEF SessionInv, RingInv
<1>2. StateIsAnswered /\ EvidenceIsHeld /\ RepeatIsAskedAgain
  BY DEF SessionInv
<1>3. ASSUME NEW m \in setup.messages, NEW mode \in setup.modes, Ask(m, mode)
      PROVE  SessionInv'
  <2>1. m \in DOMAIN Messages /\ mode \in {"companion", "measurement"}
    BY <1>1, SetupsAssumption
  <2>2. UNCHANGED <<ring, setup>> /\ s' = s
    BY <1>3 DEF Ask, s
  <2>3. PICK ob : ob = IF mode = "companion" THEN ResolveObligation(s, ring, m) ELSE NoObligation
    OBVIOUS
  <2>4. turn' = [pc |-> "compile", m |-> m, mode |-> mode, pass |-> 0, plan |-> NoPlan,
                 packet |-> NoPacket, ob |-> ob]
    BY <1>3, <2>3 DEF Ask
  <2>5. TurnInv'
    <3>1. /\ turn'.pc = "compile" /\ turn'.m = m /\ turn'.mode = mode /\ turn'.ob = ob
          /\ DOMAIN turn' = {"pc", "m", "mode", "pass", "plan", "packet", "ob"}
      BY <2>4
    <3>2. ResolveObligation(s, ring, m)' = ResolveObligation(s, ring, m)
      BY <2>2
    <3> QED BY <2>1, <2>2, <2>3, <3>1, <3>2 DEF TurnInv
  <2>6. last'.decision = "none"
    BY <1>3 DEF Ask, NoResult
  <2>7. StateIsAnswered' /\ EvidenceIsHeld' /\ RepeatIsAskedAgain'
    BY <2>6, NoJudgement
  <2> QED BY <1>1, <2>2, <2>5, <2>7 DEF SessionInv, RingInv
<1>4. ASSUME CompileTurn PROVE SessionInv'
  <2>1. PICK packet : packet = EnforcePacketBudget(BuildArrivalPacket(s, ring, turn.m, turn.mode,
                                                     turn.ob.claims, turn.pass > 0))
    OBVIOUS
  <2>2. turn.pc = "compile" /\ Send(packet)
    BY <1>4, <2>1 DEF CompileTurn
  <2>3. UNCHANGED <<ring, setup>> /\ s' = s
    BY <2>2 DEF Send, s
  <2>4. CASE Fits(packet)
    <3>1. turn' = [turn EXCEPT !.pc = "infer", !.packet = packet] /\ UNCHANGED last
      BY <2>2, <2>4 DEF Send
    <3>2. /\ DOMAIN turn = {"pc", "m", "mode", "pass", "plan", "packet", "ob"}
          /\ turn.m \in DOMAIN Messages /\ turn.mode \in {"companion", "measurement"}
          /\ turn.ob = IF turn.mode = "companion" THEN ResolveObligation(s, ring, turn.m)
                       ELSE NoObligation
      BY <1>1, <2>2 DEF TurnInv
    <3>3. /\ DOMAIN turn' = {"pc", "m", "mode", "pass", "plan", "packet", "ob"}
          /\ turn'.pc = "infer" /\ turn'.packet = packet /\ turn'.m = turn.m
          /\ turn'.mode = turn.mode /\ turn'.ob = turn.ob /\ turn'.pass = turn.pass
      BY <3>1, <3>2
    <3>4. TurnInv'
      BY <2>1, <2>3, <3>2, <3>3 DEF TurnInv
    <3> QED BY <1>1, <1>2, <2>3, <3>1, <3>4, SameJudgement DEF SessionInv, RingInv
  <2>5. CASE ~Fits(packet)
    <3>1. turn' = NoTurn /\ last' = Ended("error")
      BY <2>2, <2>5 DEF Send
    <3>2. TurnInv' /\ last'.decision = "error"
      BY <3>1 DEF NoTurn, Ended, TurnInv
    <3> QED BY <1>1, <2>3, <3>2, NoJudgement DEF SessionInv, RingInv
  <2> QED BY <2>4, <2>5
<1>5. ASSUME Reply PROVE SessionInv'
  <2>1. PICK shape \in setup.shapes, a \in setup.answers, evidence \in Cited, touches \in Touched :
          Answer([shape |-> shape, text |-> <<"model", a>>, evidence |-> evidence, touches |-> touches])
    BY <1>5 DEF Reply
  <2>2. PICK reply : reply = [shape |-> shape, text |-> <<"model", a>>, evidence |-> evidence,
                              touches |-> touches]
    OBVIOUS
  <2>3. reply.text = <<"model", a>> /\ \E S : reply.evidence \in Seq(S)
    <3>1. evidence = <<>> \/ (\E l : evidence = <<l>>) \/ \E k, l : evidence = <<k, l>>
      BY DEF Cited
    <3>2. \E S : evidence \in Seq(S)
      <4>1. <<>> \in Seq({})
        OBVIOUS
      <4>2. \A l : <<l>> \in Seq({l})
        BY Tuples
      <4>3. \A k, l : <<k, l>> \in Seq({k, l})
        BY Tuples
      <4>4. CASE evidence = <<>>
        BY <4>1, <4>4
      <4>5. CASE \E l : evidence = <<l>>
        <5>1. PICK l : evidence = <<l>>
          BY <4>5
        <5>2. evidence \in Seq({l})
          BY <4>2, <5>1
        <5> QED BY <5>2
      <4>6. CASE \E k, l : evidence = <<k, l>>
        <5>1. PICK k, l : evidence = <<k, l>>
          BY <4>6
        <5>2. evidence \in Seq({k, l})
          BY <4>3, <5>1
        <5> QED BY <5>2
      <4> QED BY <3>1, <4>4, <4>5, <4>6
    <3> QED BY <2>2, <3>2
  <2>4. a \in DOMAIN Answers
    BY <1>1, SetupsAssumption
  <2>5. turn.pc = "infer"
    BY <1>5 DEF Reply
  <2>6. PICK v : v = ValidateCandidate(
                       EnforceAuthoritativeCandidate(ParseCandidate(reply), turn.ob, turn.m),
                       turn.packet, s)
    OBVIOUS
  <2>7. WellJudged(v, turn.ob, s, turn.m, turn.mode, ring)
    BY <2>3, <2>4, <2>5, <2>6, ReplyJudged
  <2>8. PICK decision : decision = Assess(v.violations, turn.pass)
    OBVIOUS
  <2>9. Decide(v.candidate, v.violations, decision)
    BY <2>1, <2>2, <2>6, <2>8 DEF Answer, Judge
  <2>10. decision \in {"accept", "repair", "reject"} /\ (decision = "accept" => v.violations = {})
    BY <2>8 DEF Assess
  <2>11. setup' = setup /\ s' = s
    BY <2>9 DEF Decide, s
  <2>12. /\ turn.m \in DOMAIN Messages /\ turn.mode \in {"companion", "measurement"}
         /\ turn.ob = IF turn.mode = "companion" THEN ResolveObligation(s, ring, turn.m)
                      ELSE NoObligation
    BY <1>1, <2>5 DEF TurnInv
  <2>13. CASE decision = "repair"
    <3>1. /\ turn' = [pc |-> "compile", m |-> turn.m, mode |-> turn.mode, pass |-> turn.pass + 1,
                      plan |-> RepairPlan(turn.packet, v.violations), packet |-> NoPacket,
                      ob |-> turn.ob]
          /\ UNCHANGED <<ring, last>>
      BY <2>9, <2>13 DEF Decide
    <3>2. /\ DOMAIN turn' = {"pc", "m", "mode", "pass", "plan", "packet", "ob"}
          /\ turn'.pc = "compile" /\ turn'.m = turn.m /\ turn'.mode = turn.mode /\ turn'.ob = turn.ob
      BY <3>1
    <3>3. TurnInv'
      BY <2>11, <2>12, <3>1, <3>2 DEF TurnInv
    <3> QED BY <1>1, <1>2, <2>11, <3>1, <3>3, SameJudgement DEF SessionInv, RingInv
  <2>14. CASE decision # "repair"
    <3>1. /\ turn' = NoTurn
          /\ last' = [Ended(decision) EXCEPT
                        !.text = v.candidate.text, !.fallback = v.candidate.fallback,
                        !.evidence = v.candidate.evidence, !.violations = v.violations]
          /\ ring' = IF decision = "accept" THEN AppendRecentTurn(v.candidate.text) ELSE ring
      BY <2>9, <2>14 DEF Decide
    <3>2. last' = [m |-> turn.m, mode |-> turn.mode, decision |-> decision, kind |-> turn.ob.kind,
                   text |-> v.candidate.text, fallback |-> v.candidate.fallback,
                   evidence |-> v.candidate.evidence, violations |-> v.violations, before |-> ring]
      BY <3>1 DEF Ended
    <3>3. StateIsAnswered' /\ EvidenceIsHeld' /\ RepeatIsAskedAgain'
      BY <2>7, <2>10, <2>11, <2>14, <3>2, LastJudged
    <3>4. RingInv'
      <4>1. v.candidate.text \in Text
        BY <2>7 DEF WellJudged
      <4>2. AppendRecentTurn(v.candidate.text) \in Seq(Exchange)
        BY <1>1, <2>12, <4>1, RingKept DEF RingInv
      <4> QED BY <1>1, <3>1, <4>2 DEF RingInv
    <3>5. TurnInv'
      BY <3>1 DEF NoTurn, TurnInv
    <3> QED BY <1>1, <2>11, <3>3, <3>4, <3>5 DEF SessionInv
  <2> QED BY <2>13, <2>14
<1>6. ASSUME InferenceFails PROVE SessionInv'
  <2>1. turn' = NoTurn /\ last' = Ended("error") /\ UNCHANGED <<ring, setup>>
    BY <1>6 DEF InferenceFails
  <2>2. TurnInv' /\ last'.decision = "error"
    BY <2>1 DEF NoTurn, Ended, TurnInv
  <2> QED BY <1>1, <2>1, <2>2, NoJudgement DEF SessionInv, RingInv
<1>7. ASSUME NewSession PROVE SessionInv'
  <2>1. turn.pc = "idle" /\ ring' = <<>> /\ last' = NoResult /\ UNCHANGED <<turn, setup>>
    BY <1>7 DEF NewSession
  <2>2. TurnInv' /\ RingInv' /\ last'.decision = "none"
    BY <2>1 DEF NoResult, TurnInv, RingInv
  <2> QED BY <1>1, <2>1, <2>2, NoJudgement DEF SessionInv
<1>8. ASSUME UNCHANGED vars PROVE SessionInv'
  <2>1. UNCHANGED <<ring, turn, last, setup>> /\ s' = s
    BY <1>8 DEF vars, s
  <2>2. TurnInv'
    BY <1>1, <2>1 DEF TurnInv
  <2> QED BY <1>1, <1>2, <2>1, <2>2, SameJudgement DEF SessionInv, RingInv
<1> QED BY <1>3, <1>4, <1>5, <1>6, <1>7, <1>8 DEF Next

LEMMA SessionHolds == Spec => []SessionInv
<1>1. Init => SessionInv
  BY SessionInit
<1>2. SessionInv /\ [Next]_vars => SessionInv'
  BY SessionStep
<1> QED BY <1>1, <1>2, PTL DEF Spec

(* However the packet is trimmed, a state question is rejected neither for *)
(* the form of the reply nor for instruction text of the model's; and for  *)
(* its evidence only on account of a line held that is too short to be     *)
(* cited: an answer of the model's passes only if it tells what is asked,  *)
(* and else the substrate's own is taken; what the alignment keeps occurs  *)
(* in the pool or has a line of it inside; and the first claim is never    *)
(* trimmed from the pool, so something can be cited when it kept nothing.  *)
THEOREM StateGetsAnswered == Spec => []StateIsAnswered
<1>1. SessionInv => StateIsAnswered
  BY DEF SessionInv
<1> QED BY <1>1, SessionHolds, PTL

(* An accepted answer cites only pieces of what the substrate held when    *)
(* the question was asked, or something around a line of it of at least 12 *)
(* characters: lines of its state, of the dialogue of this session, and    *)
(* the claims of the question; nothing of a session that was cleared.      *)
THEOREM EvidenceWasHeld == Spec => []EvidenceIsHeld
<1>1. SessionInv => EvidenceIsHeld
  BY DEF SessionInv
<1> QED BY <1>1, SessionHolds, PTL

(* The words of the last answer are accepted again from the model only if  *)
(* the human has said the same line before in the ring as it is kept: the  *)
(* line is compared with the last turn of the packet, which was chosen     *)
(* from the ring, and its answer with the last one of the ring.            *)
THEOREM RepeatsWereAsked == Spec => []RepeatIsAskedAgain
<1>1. SessionInv => RepeatIsAskedAgain
  BY DEF SessionInv
<1> QED BY <1>1, SessionHolds, PTL
=============================================================================
