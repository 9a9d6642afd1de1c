---------------------------- MODULE StackLemmas -----------------------------
(***************************************************************************)
(* A sequence as a stack whose last element is on top, as the stacks of    *)
(* the models are: what pushing, popping and replacing the top do.         *)
(***************************************************************************)
EXTENDS Integers, SequencesExt, SequenceTheorems, TLAPS

\* Push and pop on a typed stack.
LEMMA PushPop ==
  ASSUME NEW S, NEW s \in Seq(S), NEW e \in S
  PROVE  /\ Append(s, e) \in Seq(S) /\ Append(s, e) # <<>>
         /\ Len(Append(s, e)) = Len(s) + 1 /\ DOMAIN Append(s, e) = 1 .. Len(s) + 1
         /\ \A i \in 1 .. Len(s) : Append(s, e)[i] = s[i]
         /\ Append(s, e)[Len(s) + 1] = e
  BY AppendProperties, LenProperties

\* The last element and the rest of a typed stack that is not empty.
LEMMA Popped ==
  ASSUME NEW S, NEW s \in Seq(S), s # <<>>
  PROVE  /\ Len(s) \in Nat \ {0} /\ DOMAIN s = 1 .. Len(s)
         /\ Last(s) = s[Len(s)] /\ Last(s) \in S
         /\ Front(s) \in Seq(S) /\ Len(Front(s)) = Len(s) - 1
         /\ DOMAIN Front(s) = 1 .. Len(s) - 1
         /\ \A i \in 1 .. Len(s) - 1 : Front(s)[i] = s[i]
  <1>1. Len(s) \in Nat \ {0} /\ DOMAIN s = 1 .. Len(s)
    BY EmptySeq, LenProperties
  <1>2. \A i \in 1 .. Len(s) : s[i] \in S
    BY ElementOfSeq
  <1>3. /\ SubSeq(s, 1, Len(s) - 1) \in Seq(S)
        /\ Len(SubSeq(s, 1, Len(s) - 1)) = Len(s) - 1
        /\ \A i \in 1 .. Len(s) - 1 : SubSeq(s, 1, Len(s) - 1)[i] = s[i]
    BY <1>1, <1>2, SubSeqProperties
  <1>4. DOMAIN Front(s) = 1 .. Len(s) - 1
    BY <1>3, LenProperties DEF Front
  <1> QED
    BY <1>1, <1>2, <1>3, <1>4 DEF Front, Last

\* A new top on a typed stack that is not empty.
LEMMA TopReplaced ==
  ASSUME NEW S, NEW s \in Seq(S), s # <<>>, NEW e \in S
  PROVE  /\ Append(Front(s), e) \in Seq(S) /\ Append(Front(s), e) # <<>>
         /\ Len(Append(Front(s), e)) = Len(s) /\ DOMAIN Append(Front(s), e) = 1 .. Len(s)
         /\ \A i \in 1 .. Len(s) - 1 : Append(Front(s), e)[i] = s[i]
         /\ Append(Front(s), e)[Len(s)] = e
  <1>1. /\ Len(s) \in Nat \ {0} /\ Front(s) \in Seq(S) /\ Len(Front(s)) = Len(s) - 1
        /\ \A i \in 1 .. Len(s) - 1 : Front(s)[i] = s[i]
    BY Popped
  <1> QED
    BY <1>1, PushPop

\* Flattening a stack of one or two sequences.
LEMMA Flattened ==
  ASSUME NEW S, NEW s \in Seq(Seq(S)), Len(s) \in {1, 2}
  PROVE  FlattenSeq(s) = IF Len(s) = 1 THEN s[1] ELSE s[1] \o s[2]
  <1> DEFINE n == Len(s)
             Step(f) == [i \in 1 .. n |-> IF i = 1 THEN s[i] ELSE f[i - 1] \o s[i]]
             flatten == CHOOSE f : f = Step(f)
             both == [i \in 1 .. n |-> IF i = 1 THEN s[i] ELSE s[1] \o s[i]]
  <1>0. n = 1 \/ n = 2
    OBVIOUS
  <1>1. both = Step(both)
    <2>1. ASSUME NEW i \in 1 .. n, i # 1  PROVE both[i - 1] = s[1]
      <3>1. i - 1 = 1 /\ 1 \in 1 .. n
        <4> HIDE DEF n
        <4> QED
          BY <1>0, <2>1
      <3> QED
        BY <3>1
    <2> QED
      BY <2>1, Zenon
  <1>2. flatten = Step(flatten)
    <2> HIDE DEF both, Step
    <2> QED BY <1>1
  <1>3. FlattenSeq(s) = flatten[Len(s)]
    BY DEF FlattenSeq
  <1> HIDE DEF flatten
  <1>4. flatten[1] = s[1]
    <2>1. 1 \in 1 .. n
      OBVIOUS
    <2> QED
      BY <1>2, <2>1, Zenon
  <1>5. CASE n = 1
    BY <1>3, <1>4, <1>5
  <1>6. CASE n = 2
    <2>1. 2 \in 1 .. n /\ 2 # 1 /\ 2 - 1 = 1
      BY <1>6
    <2>2. flatten[2] = flatten[2 - 1] \o s[2]
      BY <1>2, <2>1, Zenon
    <2> QED
      BY <1>3, <1>4, <1>6, <2>1, <2>2, Zenon
  <1> QED
    BY <1>5, <1>6

\* The end of a concatenation grows with its second part, and its beginning
\* goes with the first.
LEMMA ConcatEnds ==
  ASSUME NEW S, NEW s \in Seq(S), NEW t \in Seq(S)
  PROVE  /\ \A e \in S : s \o Append(t, e) = Append(s \o t, e)
         /\ s # <<>> => s \o t # <<>> /\ Head(s \o t) = Head(s) /\ Tail(s \o t) = Tail(s) \o t
  <1>1. ASSUME NEW e \in S PROVE s \o Append(t, e) = Append(s \o t, e)
    OBVIOUS
  <1>2. ASSUME s # <<>> PROVE s \o t # <<>> /\ Head(s \o t) = Head(s) /\ Tail(s \o t) = Tail(s) \o t
    BY <1>2
  <1> QED
    BY <1>1, <1>2
=============================================================================
