------------------------ MODULE TFGraphQueriesProofs ------------------------
(***************************************************************************)
(* Proofs about TFGraphQueries, for any set of frame ids: the two searches *)
(* end and find what there is to find.                                     *)
(***************************************************************************)
EXTENDS TFGraphCallers, TFGraphProofs, FiniteSetTheorems, WellFoundedInduction

-----------------------------------------------------------------------------
\* What is reachable from the frames of C without passing through V.

Expanded(S, C, V) ==
    /\ C \ V \subseteq S
    /\ \A p \in S, c \in Frames : HasChild(p, c) /\ c \notin V => c \in S

Beyond(C, V) == {f \in Frames : \A S \in SUBSET Frames : Expanded(S, C, V) => f \in S}

\* It is the least set that holds these frames and their children.
LEMMA BeyondExpanded ==
    ASSUME NEW C \in SUBSET Frames, NEW V \in SUBSET Frames
    PROVE  /\ Beyond(C, V) \in SUBSET Frames
           /\ Expanded(Beyond(C, V), C, V)
           /\ Beyond(C, V) \cap V = {}
           /\ \A S \in SUBSET Frames : Expanded(S, C, V) => Beyond(C, V) \subseteq S
<1>1. Expanded(Frames \ V, C, V)
  BY DEF Expanded
<1> QED
  BY <1>1 DEF Beyond, Expanded

LEMMA BeyondNothing ==
    ASSUME NEW V \in SUBSET Frames
    PROVE  Beyond({}, V) = {}
<1>1. Expanded({}, {}, V)
  BY DEF Expanded
<1> QED
  BY <1>1 DEF Beyond

\* A frame that has been visited adds nothing.
LEMMA BeyondVisited ==
    ASSUME NEW C \in SUBSET Frames, NEW V \in SUBSET Frames, NEW c \in V
    PROVE  Beyond(C, V) = Beyond(C \ {c}, V)
<1>1. C \ V = (C \ {c}) \ V
  OBVIOUS
<1> QED
  BY <1>1 DEF Beyond, Expanded

\* A frame that has not is searched first, and the others with what it leaves.
LEMMA BeyondChild ==
    ASSUME NEW C \in SUBSET Frames, NEW V \in SUBSET Frames, NEW c \in C, c \notin V
    PROVE  LET below == Beyond(Children(c), V \cup {c})
           IN  Beyond(C, V) = {c} \cup below \cup Beyond(C \ {c}, V \cup {c} \cup below)
<1> DEFINE W == V \cup {c}
           A == Beyond(Children(c), W)
           B == Beyond(C \ {c}, W \cup A)
<1>1. Children(c) \in SUBSET Frames /\ W \in SUBSET Frames /\ C \ {c} \in SUBSET Frames
  BY DEF Children
<1> HIDE DEF W
<1>2. /\ A \in SUBSET Frames /\ Expanded(A, Children(c), W)
      /\ \A S \in SUBSET Frames : Expanded(S, Children(c), W) => A \subseteq S
  BY <1>1, BeyondExpanded, Zenon
<1>3. /\ B \in SUBSET Frames /\ Expanded(B, C \ {c}, W \cup A)
      /\ \A S \in SUBSET Frames : Expanded(S, C \ {c}, W \cup A) => B \subseteq S
  <2> DEFINE D == C \ {c}
             X == W \cup A
  <2>1. D \in SUBSET Frames /\ X \in SUBSET Frames
    BY <1>1, <1>2
  <2>2. B = Beyond(D, X)
    OBVIOUS
  <2> HIDE DEF D, X, B
  <2>3. /\ B \in SUBSET Frames /\ Expanded(B, D, X)
        /\ \A S \in SUBSET Frames : Expanded(S, D, X) => B \subseteq S
    BY <2>1, <2>2, BeyondExpanded
  <2> QED
    BY <2>3 DEF D, X
<1> USE DEF W
<1> DEFINE R == Beyond(C, V)
<1>4. /\ R \in SUBSET Frames /\ Expanded(R, C, V)
      /\ \A S \in SUBSET Frames : Expanded(S, C, V) => R \subseteq S
  BY BeyondExpanded
<1> HIDE DEF A, B, R
<1>5. R \subseteq {c} \cup A \cup B
  <2>1. Expanded({c} \cup A \cup B, C, V)
    BY <1>2, <1>3 DEF Expanded, Children
  <2> QED
    BY <1>2, <1>3, <1>4, <2>1
<1>6. c \in R
  BY <1>4 DEF Expanded
<1>7. A \subseteq R
  <2>1. Expanded(R, Children(c), W)
    BY <1>4, <1>6 DEF Expanded, Children
  <2> QED
    BY <1>2, <1>4, <2>1
<1>8. B \subseteq R
  <2>1. Expanded(R, C \ {c}, W \cup A)
    BY <1>4 DEF Expanded
  <2> QED
    BY <1>3, <1>4, <2>1
<1>9. R = {c} \cup A \cup B
  BY <1>5, <1>6, <1>7, <1>8
<1> QED
  BY <1>9 DEF R, A, B

\* With nothing visited it is what the cycle test asks for.
LEMMA ReachesBeyond ==
    ASSUME NEW from \in Frames, NEW to \in Frames
    PROVE  Reaches(from, to) <=> to \in Beyond({from}, {})
<1>1. \A S \in SUBSET Frames :
          Expanded(S, {from}, {}) <=> from \in S /\ ClosedUnderChildren(S)
  BY DEF Expanded, ClosedUnderChildren
<1> QED
  BY <1>1 DEF Reaches, Beyond

-----------------------------------------------------------------------------
\* dfsHasPath.

Searches(to) == (SUBSET Frames) \X SUBSET (Frames \ {to})

\* What the call on the child, and then the loop, returns in terms of search.
CallOf(search, s, to, child) ==
    IF child = to THEN Found
    ELSE IF child \in s[2] THEN NotFound(s[2])
    ELSE search[<<Children(child), s[2] \cup {child}>>]

LoopOf(search, s, to) ==
    IF s[1] = {} THEN NotFound(s[2])
    ELSE LET child == CHOOSE c \in s[1] : TRUE
             call  == CallOf(search, s, to, child)
         IN  IF call.found THEN call ELSE search[<<s[1] \ {child}, call.visited>>]

\* The equation of DfsHasPath's recursive function.
IsSearch(search, to) == search = [s \in Searches(to) |-> LoopOf(search, s, to)]

LEMMA Returned ==
    /\ Found.found
    /\ \A V : ~NotFound(V).found /\ NotFound(V).visited = V
BY DEF Found, NotFound

\* The answer: whether the target is reachable, and if not, all that is reachable.
Answer(C, V, to) ==
    IF to \in Beyond(C, V) THEN Found ELSE NotFound(V \cup Beyond(C, V))

\* What the call on a child answers.
ChildAnswer(c, V, to) ==
    IF c = to THEN Found
    ELSE IF c \in V THEN NotFound(V)
    ELSE Answer(Children(c), V \cup {c}, to)

\* The answers of the two searches of a pass make the answer of the pass.
Splits(call, C, V, c, to) ==
    \/ call = Found /\ Answer(C, V, to) = Found
    \/ \E U \in SUBSET (Frames \ {to}) :
           /\ V \subseteq U /\ call = NotFound(U)
           /\ Answer(C, V, to) = Answer(C \ {c}, U, to)
           /\ \A G \in SUBSET Frames :
                  ClosedUnderChildren(G) /\ C \cup V \subseteq G => U \subseteq G

LEMMA AnswerStep ==
    ASSUME NEW to \in Frames, NEW C \in SUBSET Frames, NEW V \in SUBSET (Frames \ {to}),
           NEW c \in C
    PROVE  Splits(ChildAnswer(c, V, to), C, V, c, to)
<1> DEFINE call == ChildAnswer(c, V, to)
<1>1. CASE c = to
  <2>1. to \in Beyond(C, V)
    BY <1>1, BeyondExpanded DEF Expanded
  <2> QED
    BY <1>1, <2>1 DEF Answer, ChildAnswer, Splits
<1>2. CASE c # to /\ c \in V
  <2>1. Answer(C, V, to) = Answer(C \ {c}, V, to)
    BY <1>2, BeyondVisited DEF Answer
  <2> QED
    BY <1>2, <2>1 DEF ChildAnswer, Splits
<1>3. CASE c # to /\ c \notin V
  <2> DEFINE A == Beyond(Children(c), V \cup {c})
             U == V \cup {c} \cup A
             B == Beyond(C \ {c}, U)
             R == Beyond(C, V)
  <2>1. R = {c} \cup A \cup B
    BY <1>3, BeyondChild
  <2>2. A \in SUBSET Frames
    BY DEF Beyond
  <2>3. call = IF to \in A THEN Found ELSE NotFound(U)
    BY <1>3 DEF Answer, ChildAnswer
  <2>4. Answer(C, V, to) = IF to \in R THEN Found ELSE NotFound(V \cup R)
    BY DEF Answer
  <2>5. Answer(C \ {c}, U, to) = IF to \in B THEN Found ELSE NotFound(U \cup B)
    BY DEF Answer
  <2> HIDE DEF A, B, R
  <2>6. CASE to \in A
    <3>1. call = Found
      BY <2>3, <2>6
    <3>2. Answer(C, V, to) = Found
      BY <2>1, <2>4, <2>6
    <3> QED
      BY <3>1, <3>2 DEF Splits
  <2>7. CASE to \notin A
    <3>1. to \in R <=> to \in B
      BY <1>3, <2>1, <2>7
    <3>2. V \cup R = U \cup B
      BY <2>1
    <3>3. Answer(C, V, to) = Answer(C \ {c}, U, to)
      <4> HIDE DEF U
      <4> QED
        BY <2>4, <2>5, <3>1, <3>2
    <3>4. U \in SUBSET (Frames \ {to}) /\ V \subseteq U
      BY <1>3, <2>2, <2>7
    <3>5. call = NotFound(U)
      BY <2>3, <2>7
    <3>6. ASSUME NEW G \in SUBSET Frames, ClosedUnderChildren(G), C \cup V \subseteq G
          PROVE  U \subseteq G
      <4>1. Expanded(G, Children(c), V \cup {c})
        BY <3>6 DEF ClosedUnderChildren, Expanded, Children
      <4>2. A \subseteq G
        BY <4>1 DEF Beyond, A
      <4> QED
        BY <3>6, <4>2
    <3> HIDE DEF U, call
    <3>7. Splits(call, C, V, c, to)
      BY <3>3, <3>4, <3>5, <3>6 DEF Splits
    <3> QED
      BY <3>7 DEF call
  <2> QED
    BY <2>6, <2>7
<1> QED
  BY <1>1, <1>2, <1>3

\* The equation has a solution, the function that gives the answers.
LEMMA SearchExists ==
    ASSUME NEW to \in Frames
    PROVE  \E search : IsSearch(search, to)
<1> DEFINE search == [s \in Searches(to) |-> Answer(s[1], s[2], to)]
<1>1. ASSUME NEW s \in Searches(to) PROVE LoopOf(search, s, to) = Answer(s[1], s[2], to)
  <2> DEFINE C == s[1]
             V == s[2]
             c == CHOOSE x \in C : TRUE
             call == CallOf(search, s, to, c)
  <2>1. C \in SUBSET Frames /\ V \in SUBSET (Frames \ {to})
    BY DEF Searches
  <2>2. CASE C = {}
    BY <2>1, <2>2, BeyondNothing DEF LoopOf, Answer
  <2>3. CASE C # {}
    <3>1. c \in C
      BY <2>3
    <3>2. LoopOf(search, s, to) = IF call.found THEN call ELSE search[<<C \ {c}, call.visited>>]
      BY <2>3 DEF LoopOf
    <3> HIDE DEF c
    <3>3. call = ChildAnswer(c, V, to)
      <4>1. c # to => <<Children(c), V \cup {c}>> \in Searches(to)
        BY <2>1, <3>1 DEF Searches, Children
      <4>2. c # to => search[<<Children(c), V \cup {c}>>] = Answer(Children(c), V \cup {c}, to)
        BY <4>1
      <4> QED
        BY <4>2 DEF CallOf, ChildAnswer
    <3> HIDE DEF call
    <3>4. Splits(call, C, V, c, to)
      <4> HIDE DEF C, V, search
      <4>1. V \in SUBSET (Frames \ {to}) /\ C \in SUBSET Frames /\ c \in C
        BY <2>1, <3>1
      <4> QED
        BY <3>3, <4>1, AnswerStep
    <3>5. CASE call = Found /\ Answer(C, V, to) = Found
      BY <3>2, <3>5, Returned, Zenon
    <3>6. ASSUME NEW U \in SUBSET (Frames \ {to}), call = NotFound(U),
                 Answer(C, V, to) = Answer(C \ {c}, U, to)
          PROVE  LoopOf(search, s, to) = Answer(C, V, to)
      <4>1. <<C \ {c}, U>> \in Searches(to)
        BY <2>1 DEF Searches
      <4>2. search[<<C \ {c}, U>>] = Answer(C \ {c}, U, to)
        BY <4>1
      <4>3. LoopOf(search, s, to) = search[<<C \ {c}, U>>]
        BY <3>2, <3>6, Returned, Zenon
      <4> QED
        BY <3>6, <4>2, <4>3
    <3> QED
      BY <3>4, <3>5, <3>6 DEF Splits
  <2> QED
    BY <2>2, <2>3
<1>2. IsSearch(search, to)
  <2>1. [s \in Searches(to) |-> Answer(s[1], s[2], to)] = [s \in Searches(to) |-> LoopOf(search, s, to)]
    BY <1>1
  <2> QED
    BY <2>1 DEF IsSearch
<1> QED
  BY <1>2

\* Of some subsets of a finite set one has none of the others inside it, and one
\* lies inside none of the others.
Inside(Y, X) == Y \subseteq X /\ Y # X

LEMMA SmallestSubset ==
    ASSUME NEW G, IsFiniteSet(G), NEW T \in SUBSET SUBSET G, T # {}
    PROVE  \E X \in T : \A Y \in T : ~Inside(Y, X)
<1>1. IsWellFoundedOn(StrictSubsetOrdering(G), SUBSET G)
  BY FS_StrictSubsetOrderingWellFounded, FS_FiniteSubsetsOfFinite
<1>2. PICK X \in T : \A Y \in T : ~(<<Y, X>> \in StrictSubsetOrdering(G))
  BY <1>1, WFMin
<1>3. \A Y \in T : Inside(Y, X) => <<Y, X>> \in StrictSubsetOrdering(G)
  BY DEF StrictSubsetOrdering, Inside
<1> QED
  BY <1>2, <1>3

LEMMA LargestSubset ==
    ASSUME NEW G, IsFiniteSet(G), NEW T \in SUBSET SUBSET G, T # {}
    PROVE  \E X \in T : \A Y \in T : ~Inside(X, Y)
<1> DEFINE D == {G \ X : X \in T}
<1>1. D \in SUBSET SUBSET G /\ D # {}
  <2>1. PICK X \in T : TRUE
    OBVIOUS
  <2>2. G \ X \in D
    OBVIOUS
  <2>3. \A E \in D : E \subseteq G
    OBVIOUS
  <2> HIDE DEF D
  <2> QED
    BY <2>2, <2>3
<1>2. PICK E \in D : \A Y \in D : ~Inside(Y, E)
  <2> HIDE DEF D
  <2> QED
    BY <1>1, SmallestSubset
<1>3. PICK X \in T : E = G \ X
  BY <1>2, Zenon
<1>4. ASSUME NEW Y \in T, Inside(X, Y)
      PROVE  FALSE
  <2>1. G \ Y \in D /\ Inside(G \ Y, E)
    BY <1>3, <1>4 DEF Inside
  <2> QED
    BY <1>2, <2>1
<1> QED
  BY <1>4

\* Whatever solves the equation gives the answers, in a part of the graph that
\* is finite: every call and every pass leaves less to visit or fewer children.
LEMMA SearchAnswers ==
    ASSUME NEW to \in Frames, NEW search, IsSearch(search, to),
           NEW G \in SUBSET Frames, IsFiniteSet(G), ClosedUnderChildren(G),
           NEW C \in SUBSET G, NEW V \in SUBSET (G \ {to})
    PROVE  search[<<C, V>>] = Answer(C, V, to)
<1> DEFINE Wrong(X, W) == search[<<X, W>>] # Answer(X, W, to)
           WrongVisited == {W \in SUBSET (G \ {to}) : \E X \in SUBSET G : Wrong(X, W)}
<1> SUFFICES ASSUME Wrong(C, V) PROVE FALSE
  OBVIOUS
<1>1. PICK W \in WrongVisited : \A Y \in WrongVisited : ~Inside(W, Y)
  <2>1. WrongVisited \in SUBSET SUBSET G /\ V \in WrongVisited
    OBVIOUS
  <2> HIDE DEF WrongVisited
  <2> QED
    BY <2>1, LargestSubset
<1> DEFINE WrongLeft == {X \in SUBSET G : Wrong(X, W)}
<1>2. PICK X \in WrongLeft : \A Y \in WrongLeft : ~Inside(Y, X)
  <2>1. WrongLeft \in SUBSET SUBSET G /\ WrongLeft # {}
    OBVIOUS
  <2> HIDE DEF WrongLeft
  <2> QED
    BY <2>1, SmallestSubset
<1>3. X \in SUBSET G /\ W \in SUBSET (G \ {to}) /\ Wrong(X, W)
  OBVIOUS
<1>4. \A Y \in SUBSET G, U \in SUBSET (G \ {to}) : W \subseteq U /\ U # W => ~Wrong(Y, U)
  BY <1>1 DEF Inside
<1>5. \A Y \in SUBSET G : Y \subseteq X /\ Y # X => ~Wrong(Y, W)
  BY <1>2 DEF Inside
<1> HIDE DEF WrongVisited, WrongLeft
<1> DEFINE s == <<X, W>>
           c == CHOOSE x \in X : TRUE
           call == CallOf(search, s, to, c)
<1>6. s \in Searches(to) /\ s[1] = X /\ s[2] = W
  BY <1>3 DEF Searches
<1>7. search[s] = LoopOf(search, s, to)
  BY <1>6, Zenon DEF IsSearch
<1>8. CASE X = {}
  BY <1>3, <1>6, <1>7, <1>8, BeyondNothing DEF LoopOf, Answer
<1>9. CASE X # {}
  <2>1. c \in X
    BY <1>9
  <2>2. LoopOf(search, s, to) = IF call.found THEN call ELSE search[<<X \ {c}, call.visited>>]
    BY <1>6, <1>9 DEF LoopOf
  <2> HIDE DEF c, s
  <2>3. call = ChildAnswer(c, W, to)
    <3>1. ASSUME c # to, c \notin W
          PROVE  search[<<Children(c), W \cup {c}>>] = Answer(Children(c), W \cup {c}, to)
      <4>1. Children(c) \in SUBSET G
        BY <1>3, <2>1 DEF Children, ClosedUnderChildren
      <4>2. W \cup {c} \in SUBSET (G \ {to}) /\ W \subseteq W \cup {c} /\ W \cup {c} # W
        BY <1>3, <2>1, <3>1
      <4> QED
        BY <1>4, <4>1, <4>2
    <3> QED
      BY <1>6, <3>1 DEF CallOf, ChildAnswer
  <2> HIDE DEF call
  <2>4. Splits(call, X, W, c, to)
    <3>1. X \in SUBSET Frames /\ W \in SUBSET (Frames \ {to})
      BY <1>3
    <3> QED
      BY <2>1, <2>3, <3>1, AnswerStep
  <2>5. CASE call = Found /\ Answer(X, W, to) = Found
    <3>1. search[s] = Found
      BY <1>7, <2>2, <2>5, Returned, Zenon
    <3> QED
      BY <1>3, <2>5, <3>1 DEF s
  <2>6. ASSUME NEW U \in SUBSET (Frames \ {to}), W \subseteq U, call = NotFound(U),
               Answer(X, W, to) = Answer(X \ {c}, U, to), U \subseteq G
        PROVE  FALSE
    <3>1. search[s] = search[<<X \ {c}, U>>]
      BY <1>7, <2>2, <2>6, Returned, Zenon
    <3>2. X \ {c} \in SUBSET G /\ X \ {c} \subseteq X /\ X \ {c} # X
      BY <1>3, <2>1
    <3>3. U \in SUBSET (G \ {to})
      BY <2>6
    <3>4. ~Wrong(X \ {c}, U)
      BY <1>4, <1>5, <2>6, <3>2, <3>3
    <3> QED
      BY <1>3, <2>6, <3>1, <3>4 DEF s
  <2>7. X \cup W \subseteq G
    BY <1>3
  <2> QED
    BY <2>4, <2>5, <2>6, <2>7 DEF Splits
<1> QED
  BY <1>8, <1>9

\* So dfsHasPath decides what the cycle test asks for.
LEMMA SearchDecides ==
    ASSUME NEW from \in Frames, NEW to \in Frames,
           NEW G \in SUBSET Frames, IsFiniteSet(G), ClosedUnderChildren(G), from \in G
    PROVE  DfsHasPath(from, to) <=> Reaches(from, to)
<1> DEFINE search == CHOOSE f : IsSearch(f, to)
<1>1. IsSearch(search, to)
  BY SearchExists
<1>2. DfsHasPath(from, to) = search[<<{from}, {}>>].found
  BY DEF DfsHasPath, IsSearch, LoopOf, CallOf, Searches
<1> HIDE DEF search
<1>3. search[<<{from}, {}>>] = Answer({from}, {}, to)
  BY <1>1, SearchAnswers
<1>4. Reaches(from, to) <=> to \in Beyond({from}, {})
  BY ReachesBeyond
<1>5. CASE to \in Beyond({from}, {})
  BY <1>2, <1>3, <1>4, <1>5, Returned, Zenon DEF Answer
<1>6. CASE to \notin Beyond({from}, {})
  BY <1>2, <1>3, <1>4, <1>6, Returned, Zenon DEF Answer
<1> QED
  BY <1>5, <1>6

-----------------------------------------------------------------------------
\* Any number of calls leaves finitely many frames in the graph.

FinitelyMany == IsFiniteSet(AllFrames)

\* Whoever has a child has an entry, and so has every parent.
LEMMA LinksInside ==
    ASSUME NEW p \in Frames, NEW c \in Frames, HasChild(p, c)
    PROVE  p \in DOMAIN children /\ p \in AllFrames /\ c \in AllFrames
<1>1. p \in DOMAIN children
  BY DEF HasChild, ChildrenOf, NoChildren
<1> QED
  BY <1>1 DEF AllFrames, Children

LEMMA FramesInside ==
    ASSUME TypeOK
    PROVE  AllFrames \in SUBSET Frames /\ ClosedUnderChildren(AllFrames)
BY LinksInside DEF TypeOK, AllFrames, Children, ClosedUnderChildren

LEMMA InitFinite == Init => FinitelyMany
<1> SUFFICES ASSUME Init PROVE FinitelyMany
  OBVIOUS
<1>1. AllFrames = {}
  BY DEF Init, AllFrames, EmptyMap
<1> QED
  BY <1>1, FS_EmptySet DEF FinitelyMany

\* A step brings at most the two frames of its call into the graph.
LEMMA StepFinite == Shape /\ FinitelyMany /\ [Next]_vars => FinitelyMany'
<1> SUFFICES ASSUME Shape, FinitelyMany, [Next]_vars PROVE FinitelyMany'
  OBVIOUS
<1> USE DEF Shape
<1>1. ASSUME NEW p \in Frames, NEW c \in Frames,
             DOMAIN children' \subseteq DOMAIN children \cup {p},
             \A q, d \in Frames : HasChild(q, d)' => HasChild(q, d) \/ (q = p /\ d = c)
      PROVE  FinitelyMany'
  <2>1. IsFiniteSet((AllFrames \cup {p}) \cup {c})
    BY FS_AddElement DEF FinitelyMany
  <2>2. TypeOK'
    BY StepTyped
  <2>3. AllFrames' \subseteq (AllFrames \cup {p}) \cup {c}
    <3> SUFFICES ASSUME NEW f \in AllFrames' PROVE f \in (AllFrames \cup {p}) \cup {c}
      OBVIOUS
    <3>1. CASE f \in DOMAIN children'
      BY <1>1, <3>1 DEF AllFrames
    <3>2. CASE f \notin DOMAIN children'
      <4>1. PICK g \in DOMAIN children' : f \in Frames /\ HasChild(g, f)'
        BY <3>2 DEF AllFrames, Children
      <4>2. g \in Frames
        BY <2>2 DEF TypeOK
      <4> QED
        BY <1>1, <4>1, <4>2, LinksInside
    <3> QED
      BY <3>1, <3>2
  <2> QED
    BY <2>1, <2>3, FS_Subset DEF FinitelyMany
<1>2. CASE Add
  <2>1. PICK p \in Frames, c \in Frames, v \in Values : AddTransform(p, c, v)
    BY <1>2 DEF Add
  <2>2. \A q, d \in Frames : HasChild(q, d)' => HasChild(q, d) \/ (q = p /\ d = c)
    BY <2>1, AddLinks
  <2>3. DOMAIN Detached(c) = DOMAIN children
    <3>1. c \in DOMAIN parents => parents[c] \in DOMAIN children
      BY LinksInside DEF ParentListsChild, TypeOK
    <3> QED
      BY <3>1 DEF Detached, Put
  <2>4. DOMAIN children' \subseteq DOMAIN children \cup {p}
    BY <2>1, <2>3 DEF AddTransform, Appended, Put
  <2> QED
    BY <1>1, <2>2, <2>4
<1>3. CASE RemoveAny
  <2>1. PICK p \in Frames, c \in Frames : RemoveTransform(p, c)
    BY <1>3 DEF RemoveAny
  <2>2. \A q, d \in Frames : HasChild(q, d)' => HasChild(q, d)
    BY <2>1, RemoveLinks
  <2>3. DOMAIN children' \subseteq DOMAIN children
    BY <2>1 DEF RemoveTransform, Pruned, Put, Erase
  <2> QED
    BY <1>1, <2>2, <2>3
<1>4. CASE Reject \/ UNCHANGED vars
  <2>1. UNCHANGED children
    BY <1>4 DEF Reject, RejectTransform, vars
  <2> QED
    BY <2>1 DEF FinitelyMany, AllFrames, Children, HasChild, ChildrenOf
<1> QED
  BY <1>2, <1>3, <1>4 DEF Next

LEMMA AlwaysFinite == Spec => []FinitelyMany
BY ShapeCorrect, InitFinite, StepFinite, PTL DEF Spec

\* The depth-first search of wouldCreateCycle, with its one visited set that all
\* calls share, ends and finds its target exactly where the children relation
\* leads to it, whatever calls built the graph.
THEOREM SearchCorrect == Spec => []SearchDecidesReach
<1>1. TypeOK /\ FinitelyMany => SearchDecidesReach
  <2> SUFFICES ASSUME TypeOK, FinitelyMany, NEW from \in Frames, NEW to \in Frames
               PROVE  DfsHasPath(from, to) <=> Reaches(from, to)
    BY DEF SearchDecidesReach
  <2> DEFINE G == AllFrames \cup {from}
  <2>1. G \in SUBSET Frames /\ ClosedUnderChildren(G) /\ from \in G
    BY FramesInside, LinksInside DEF ClosedUnderChildren
  <2>2. IsFiniteSet(G)
    BY FS_AddElement DEF FinitelyMany
  <2> QED
    BY <2>1, <2>2, SearchDecides
<1> QED
  BY <1>1, TypeCorrect, AlwaysFinite, PTL

-----------------------------------------------------------------------------
\* Loops.

\* A loop that takes each state s to step[s] until it comes to one of ended,
\* and returns out of that, is a function: there is a solution of its equation.
IsLoop(loop, D, ended, step, out) ==
    loop = [s \in D |-> IF s \in ended THEN out[s] ELSE loop[step[s]]]

LEMMA LoopExists ==
    ASSUME NEW D, NEW R, NEW ended, NEW step \in [D -> D], NEW out \in [D -> R]
    PROVE  \E loop : IsLoop(loop, D, ended, step, out)
<1> DEFINE Runs(Q) == /\ \A s \in D \cap ended : <<s, out[s]>> \in Q
                      /\ \A s \in D \ ended, r \in R : <<step[s], r>> \in Q => <<s, r>> \in Q
           Results(s) == {r \in R : \A Q \in SUBSET (D \X R) : Runs(Q) => <<s, r>> \in Q}
           loop == [s \in D |-> CHOOSE r : r \in Results(s)]
<1>1. ASSUME NEW s \in D \cap ended PROVE Results(s) = {out[s]}
  <2> DEFINE Q == {q \in D \X R : q[1] = s => q[2] = out[s]}
  <2>1. Runs(Q)
    OBVIOUS
  <2>2. \A r \in Results(s) : r = out[s]
    BY <2>1
  <2>3. out[s] \in Results(s)
    OBVIOUS
  <2> HIDE DEF Results
  <2> QED
    BY <2>2, <2>3
<1>2. ASSUME NEW s \in D \ ended PROVE Results(s) = Results(step[s])
  <2>1. step[s] \in D
    OBVIOUS
  <2>2. ASSUME NEW r \in Results(step[s]) PROVE r \in Results(s)
    OBVIOUS
  <2>3. ASSUME NEW r \in Results(s) PROVE r \in Results(step[s])
    <3> SUFFICES ASSUME NEW Q \in SUBSET (D \X R), Runs(Q), <<step[s], r>> \notin Q
                 PROVE  FALSE
      OBVIOUS
    <3> DEFINE Q2 == Q \ {<<s, r>>}
    <3>1. Runs(Q2)
      <4>1. \A t \in D \cap ended : <<t, out[t]>> \in Q2
        OBVIOUS
      <4>2. ASSUME NEW t \in D \ ended, NEW u \in R, <<step[t], u>> \in Q2
            PROVE  <<t, u>> \in Q2
        BY <4>2
      <4> QED
        BY <4>1, <4>2
    <3>2. <<s, r>> \notin Q2 /\ Q2 \in SUBSET (D \X R)
      OBVIOUS
    <3> HIDE DEF Q2
    <3> QED
      BY <3>1, <3>2
  <2> HIDE DEF Results
  <2> QED
    BY <2>2, <2>3
<1> HIDE DEF Results
<1>3. ASSUME NEW s \in D
      PROVE  (CHOOSE r : r \in Results(s)) = IF s \in ended THEN out[s] ELSE loop[step[s]]
  <2>1. CASE s \in ended
    <3>1. Results(s) = {out[s]}
      BY <1>1, <2>1
    <3>2. (CHOOSE r : r \in {out[s]}) = out[s]
      OBVIOUS
    <3> QED
      BY <2>1, <3>1, <3>2
  <2>2. CASE s \notin ended
    <3>1. Results(s) = Results(step[s])
      BY <1>2, <2>2
    <3>2. loop[step[s]] = CHOOSE r : r \in Results(step[s])
      OBVIOUS
    <3> QED
      BY <2>2, <3>1, <3>2
  <2> QED
    BY <2>1, <2>2
<1>4. loop = [s \in D |-> IF s \in ended THEN out[s] ELSE loop[step[s]]]
  BY <1>3
<1> QED
  BY <1>4 DEF IsLoop

\* SetToSeq lists the members of a finite set.
LEMMA Enumerated ==
    ASSUME NEW S, IsFiniteSet(S)
    PROVE  /\ SetToSeq(S) \in Seq(S)
           /\ \A x \in S : \E i \in 1 .. Len(SetToSeq(S)) : SetToSeq(S)[i] = x
<1> DEFINE n == Cardinality(S)
           e == SetToSeq(S)
<1>1. n \in Nat /\ ExistsBijection(1 .. n, S)
  BY FS_CardinalityType
<1>2. PICK b \in [1 .. n -> S] : IsInjective(b)
  BY <1>1 DEF ExistsBijection, Bijection, Injection, IsInjective
<1>3. e \in [1 .. n -> S] /\ IsInjective(e)
  BY <1>2 DEF SetToSeq
<1>4. e \in Injection(1 .. n, S)
  BY <1>3 DEF Injection, IsInjective
<1>5. Cardinality(1 .. n) = n
  BY <1>1, FS_Interval
<1>6. e \in Surjection(1 .. n, S)
  BY <1>4, <1>5, FS_Injection
<1>7. e \in Seq(S) /\ Len(e) = n
  BY <1>1, <1>3
<1> QED
  BY <1>6, <1>7 DEF Surjection

-----------------------------------------------------------------------------
\* The search of getPath.

Visits(known) == Seq(known) \X CameFroms(known)

\* came_from leads every visited frame back to the first, from neighbour to neighbour.
LeadsBack(cameFrom, from) ==
    /\ from \in DOMAIN cameFrom
    /\ \A f \in DOMAIN cameFrom \ {from} :
           cameFrom[f] \in DOMAIN cameFrom /\ Adjacent(f, cameFrom[f])
    /\ \A S \in SUBSET DOMAIN cameFrom :
           S # {} /\ from \notin S => \E f \in S : cameFrom[f] \notin S

\* What has been visited is still in the queue, or has had its neighbours visited.
NoneForgotten(queue, cameFrom) ==
    /\ \A i \in 1 .. Len(queue) : queue[i] \in DOMAIN cameFrom
    /\ \A f \in DOMAIN cameFrom : \/ \E i \in 1 .. Len(queue) : queue[i] = f
                                  \/ Neighbours(f) \subseteq DOMAIN cameFrom

Sound(s, from, known) ==
    /\ s \in Visits(known)
    /\ LeadsBack(s[2], from)
    /\ NoneForgotten(s[1], s[2])

\* Where the neighbours of known frames are known, a pass keeps to them.
Encloses(known) ==
    /\ known \in SUBSET Frames /\ IsFiniteSet(known)
    /\ \A f \in known : Neighbours(f) \subseteq known

\* The neighbours of a frame are joined to it by a link.
LEMMA EdgeOfNeighbour ==
    ASSUME TypeOK, ParentListsChild, NEW f \in Frames, NEW g \in Neighbours(f)
    PROVE  g \in Frames /\ Adjacent(g, f) /\ Adjacent(f, g)
BY DEF Neighbours, Children, Adjacent, ParentListsChild, TypeOK

\* t is what a pass makes of s, with the frames of new visited in it.
Advances(s, t, new, known) ==
    /\ t \in Visits(known)
    /\ Head(s[1]) \in known
    /\ IsFiniteSet(new) /\ new \subseteq known
    /\ t[1] = Tail(s[1]) \o SetToSeq(new)
    /\ DOMAIN t[2] = DOMAIN s[2] \cup new
    /\ \A f \in DOMAIN s[2] \cup new : t[2][f] = IF f \in new THEN Head(s[1]) ELSE s[2][f]

LEMMA PassInside ==
    ASSUME NEW known, Encloses(known), NEW s \in Visits(known), s[1] # <<>>
    PROVE  Advances(s, Pass(s), Neighbours(Head(s[1])) \ DOMAIN s[2], known)
<1> DEFINE new == Neighbours(Head(s[1])) \ DOMAIN s[2]
<1> DEFINE cf == [f \in DOMAIN s[2] \cup new |-> IF f \in new THEN Head(s[1]) ELSE s[2][f]]
<1>1. s[1] \in Seq(known) /\ s[2] \in CameFroms(known)
  BY DEF Visits
<1>2. PICK visited \in SUBSET known : s[2] \in [visited -> known]
  BY <1>1 DEF CameFroms
<1>3. Head(s[1]) \in known /\ Tail(s[1]) \in Seq(known)
  BY <1>1, HeadTailProperties
<1>4. new \subseteq known
  BY <1>3 DEF Encloses
<1>5. IsFiniteSet(new)
  BY <1>4, FS_Subset DEF Encloses
<1>6. SetToSeq(new) \in Seq(known)
  BY <1>4, <1>5, Enumerated, SeqMonotonic
<1>7. Tail(s[1]) \o SetToSeq(new) \in Seq(known)
  BY <1>3, <1>6, ConcatProperties
<1>8. cf \in CameFroms(known)
  <2>1. visited \cup new \in SUBSET known /\ cf \in [visited \cup new -> known]
    BY <1>2, <1>3, <1>4
  <2> QED
    BY <2>1 DEF CameFroms
<1>9. Pass(s) = <<Tail(s[1]) \o SetToSeq(new), cf>>
  BY DEF Pass
<1>10. /\ DOMAIN cf = DOMAIN s[2] \cup new
       /\ \A f \in DOMAIN s[2] \cup new : cf[f] = IF f \in new THEN Head(s[1]) ELSE s[2][f]
  OBVIOUS
<1> HIDE DEF cf, new
<1>11. Pass(s)[1] = Tail(s[1]) \o SetToSeq(new) /\ Pass(s)[2] = cf /\ Pass(s) \in Visits(known)
  <2> DEFINE queue == Tail(s[1]) \o SetToSeq(new)
  <2>1. Pass(s) = <<queue, cf>> /\ queue \in Seq(known)
    BY <1>7, <1>9
  <2> HIDE DEF queue
  <2>2. Pass(s)[1] = queue /\ Pass(s)[2] = cf /\ Pass(s) \in Visits(known)
    BY <1>8, <2>1 DEF Visits
  <2> QED
    BY <2>2 DEF queue
<1>12. Advances(s, Pass(s), new, known)
  BY <1>3, <1>4, <1>5, <1>10, <1>11 DEF Advances
<1> QED
  BY <1>12 DEF new

LEMMA PassSound ==
    ASSUME TypeOK, ParentListsChild, NEW from, NEW known, Encloses(known), NEW s, Sound(s, from, known), s[1] # <<>>
    PROVE  Sound(Pass(s), from, known)
<1> DEFINE queue == s[1]
           cf    == s[2]
           current == Head(queue)
           new   == Neighbours(current) \ DOMAIN cf
           queue2 == Pass(s)[1]
           cf2    == Pass(s)[2]
<1>1. /\ s \in Visits(known) /\ LeadsBack(cf, from) /\ NoneForgotten(queue, cf)
      /\ queue \in Seq(known) /\ queue # <<>>
  BY DEF Sound, Visits
<1>2. /\ Pass(s) \in Visits(known)
      /\ current \in known
      /\ IsFiniteSet(new) /\ new \subseteq known
      /\ queue2 = Tail(queue) \o SetToSeq(new)
      /\ DOMAIN cf2 = DOMAIN cf \cup new
      /\ \A f \in DOMAIN cf \cup new : cf2[f] = IF f \in new THEN current ELSE cf[f]
  <2>1. Advances(s, Pass(s), new, known)
    BY <1>1, PassInside
  <2> QED
    BY <2>1 DEF Advances
<1> DEFINE more == SetToSeq(new)
<1>3. more \in Seq(new) /\ \A f \in new : \E i \in 1 .. Len(more) : more[i] = f
  BY <1>2, Enumerated
<1>4. current \in DOMAIN cf
  <2>1. 1 \in 1 .. Len(queue) /\ current = queue[1]
    BY <1>1
  <2> QED
    BY <1>1, <2>1 DEF NoneForgotten
<1>5. new \cap DOMAIN cf = {}
  OBVIOUS
<1>6. \A f \in new : Adjacent(f, current)
  <2> SUFFICES ASSUME NEW f \in new PROVE Adjacent(f, current)
    OBVIOUS
  <2>1. f \in Neighbours(current) /\ current \in Frames
    BY <1>2 DEF Encloses
  <2> QED
    BY <2>1, EdgeOfNeighbour
<1> HIDE DEF new, queue2, cf2, current, queue, cf, more
<1>7. LeadsBack(cf2, from)
  <2>1. from \in DOMAIN cf2
    BY <1>1, <1>2 DEF LeadsBack
  <2>2. ASSUME NEW f \in DOMAIN cf2 \ {from}
        PROVE  cf2[f] \in DOMAIN cf2 /\ Adjacent(f, cf2[f])
    <3>1. CASE f \in new
      BY <1>2, <1>4, <1>6, <3>1
    <3>2. CASE f \notin new
      BY <1>1, <1>2, <3>2 DEF LeadsBack
    <3> QED
      BY <3>1, <3>2
  <2>3. ASSUME NEW S \in SUBSET DOMAIN cf2, S # {}, from \notin S
        PROVE  \E f \in S : cf2[f] \notin S
    <3> DEFINE T == S \cap DOMAIN cf
    <3>1. CASE T = {}
      <4>1. PICK f \in S : TRUE
        BY <2>3
      <4>2. f \in new /\ cf2[f] = current
        BY <1>2, <3>1
      <4> QED
        BY <1>4, <3>1, <4>2
    <3>2. CASE T # {}
      <4>1. PICK f \in T : cf[f] \notin T
        BY <1>1, <2>3, <3>2 DEF LeadsBack
      <4>2. f # from /\ f \notin new
        BY <1>5, <2>3
      <4>3. cf[f] \in DOMAIN cf
        BY <1>1, <4>2 DEF LeadsBack
      <4>4. cf2[f] = cf[f]
        BY <1>2, <4>2
      <4> QED
        BY <4>1, <4>3, <4>4
    <3> QED
      BY <3>1, <3>2
  <2> QED
    BY <2>1, <2>2, <2>3 DEF LeadsBack
<1>8. NoneForgotten(queue2, cf2)
  <2>1. /\ Tail(queue) \in Seq(known) /\ Len(Tail(queue)) = Len(queue) - 1 /\ Len(queue) \in Nat
        /\ \A i \in 1 .. Len(Tail(queue)) : Tail(queue)[i] = queue[i + 1]
    BY <1>1, HeadTailProperties
  <2>2. more \in Seq(known)
    BY <1>2, <1>3, SeqMonotonic
  <2>3. /\ Len(queue2) = Len(Tail(queue)) + Len(more) /\ Len(more) \in Nat
        /\ \A i \in 1 .. Len(queue2) :
               queue2[i] = IF i <= Len(Tail(queue)) THEN Tail(queue)[i]
                                                    ELSE more[i - Len(Tail(queue))]
    BY <1>2, <2>1, <2>2, ConcatProperties DEF more
  <2>4. ASSUME NEW i \in 1 .. Len(queue2)
        PROVE  queue2[i] \in DOMAIN cf2
    <3>1. CASE i <= Len(Tail(queue))
      <4>1. i \in 1 .. Len(Tail(queue)) /\ i + 1 \in 1 .. Len(queue)
        BY <2>1, <3>1
      <4> QED
        BY <1>1, <1>2, <2>1, <2>3, <3>1, <4>1 DEF NoneForgotten
    <3>2. CASE ~(i <= Len(Tail(queue)))
      <4>1. i - Len(Tail(queue)) \in 1 .. Len(more)
        BY <2>1, <2>3, <3>2
      <4>2. more[i - Len(Tail(queue))] \in new
        BY <1>3, <4>1, ElementOfSeq
      <4> QED
        BY <1>2, <2>3, <3>2, <4>2
    <3> QED
      BY <3>1, <3>2
  <2>5. ASSUME NEW f \in DOMAIN cf2
        PROVE  \/ \E i \in 1 .. Len(queue2) : queue2[i] = f
               \/ Neighbours(f) \subseteq DOMAIN cf2
    <3>1. CASE f \in new
      <4>1. PICK j \in 1 .. Len(more) : more[j] = f
        BY <1>3, <3>1
      <4>2. Len(Tail(queue)) + j \in 1 .. Len(queue2) /\ queue2[Len(Tail(queue)) + j] = f
        BY <2>1, <2>3, <4>1
      <4> QED
        BY <4>2
    <3>2. CASE f = current
      BY <1>2, <3>2 DEF new
    <3>3. CASE f \notin new /\ f # current /\ \E i \in 1 .. Len(queue) : queue[i] = f
      <4>1. PICK i \in 1 .. Len(queue) : queue[i] = f
        BY <3>3
      <4>2. i # 1
        BY <3>3, <4>1 DEF current
      <4>3. i - 1 \in 1 .. Len(Tail(queue)) /\ i - 1 \in 1 .. Len(queue2) /\ i - 1 + 1 = i
        BY <2>1, <2>3, <4>2
      <4>4. queue2[i - 1] = f
        BY <2>1, <2>3, <4>1, <4>3
      <4> QED
        BY <4>3, <4>4
    <3>4. CASE f \notin new /\ Neighbours(f) \subseteq DOMAIN cf
      BY <1>2, <3>4
    <3>5. f \notin new => \/ \E i \in 1 .. Len(queue) : queue[i] = f
                          \/ Neighbours(f) \subseteq DOMAIN cf
      BY <1>1, <1>2 DEF NoneForgotten
    <3> QED
      BY <3>1, <3>2, <3>3, <3>4, <3>5
  <2> QED
    BY <2>4, <2>5 DEF NoneForgotten
<1> QED
  BY <1>2, <1>7, <1>8 DEF Sound, queue2, cf2

\* The equation of CameFrom's recursive function.
IsVisit(search, to, known) ==
    search = [s \in Visits(known) |-> IF Ended(s, to) THEN s[2] ELSE search[Pass(s)]]

LEMMA VisitExists ==
    ASSUME NEW to, NEW known, Encloses(known)
    PROVE  \E search : IsVisit(search, to, known)
<1> DEFINE D == Visits(known)
           ended == {s \in D : Ended(s, to)}
           step == [s \in D |-> IF Ended(s, to) THEN s ELSE Pass(s)]
           out == [s \in D |-> s[2]]
<1>1. step \in [D -> D]
  <2> SUFFICES ASSUME NEW s \in D, ~Ended(s, to) PROVE Pass(s) \in D
    OBVIOUS
  <2>1. s[1] # <<>>
    BY DEF Ended
  <2>2. Advances(s, Pass(s), Neighbours(Head(s[1])) \ DOMAIN s[2], known)
    BY <2>1, PassInside
  <2> QED
    BY <2>2 DEF Advances
<1>2. out \in [D -> CameFroms(known)]
  BY DEF Visits
<1>3. PICK loop : IsLoop(loop, D, ended, step, out)
  <2> HIDE DEF D, ended, step, out
  <2> QED
    BY <1>1, <1>2, LoopExists
<1>4. \A s \in D : (IF s \in ended THEN out[s] ELSE loop[step[s]])
                       = IF Ended(s, to) THEN s[2] ELSE loop[Pass(s)]
  OBVIOUS
<1>5. loop = [s \in D |-> IF Ended(s, to) THEN s[2] ELSE loop[Pass(s)]]
  <2> HIDE DEF D, ended, step, out
  <2> QED
    BY <1>3, <1>4 DEF IsLoop
<1> QED
  BY <1>5 DEF IsVisit

\* A non-empty set of numbers has a least one.
LEMMA SmallestNumber ==
    ASSUME NEW T \in SUBSET Nat, T # {}
    PROVE  \E n \in T : \A m \in T : n <= m
<1>1. PICK k \in T : TRUE
  OBVIOUS
<1> DEFINE Below == {X \in SUBSET (1 .. k) : \E m \in T : X = 1 .. m}
<1>2. Below \in SUBSET SUBSET (1 .. k) /\ 1 .. k \in Below /\ IsFiniteSet(1 .. k)
  BY FS_Interval
<1>3. PICK X \in Below : \A Y \in Below : ~Inside(Y, X)
  <2> HIDE DEF Below
  <2> QED
    BY <1>2, SmallestSubset
<1>4. PICK n \in T : X = 1 .. n
  BY <1>3
<1>5. n <= k
  BY <1>3, <1>4
<1>6. ASSUME NEW m \in T, m < n PROVE FALSE
  <2>1. 1 .. m \in Below
    BY <1>5, <1>6
  <2>2. Inside(1 .. m, 1 .. n)
    <3>1. n \in 1 .. n /\ n \notin 1 .. m /\ 1 .. m \subseteq 1 .. n
      BY <1>6
    <3> QED
      BY <3>1 DEF Inside
  <2> QED
    BY <1>3, <1>4, <2>1, <2>2
<1> QED
  BY <1>6

\* What the loop has to leave: the target is visited or no frame next to a visited one is not.
Complete(cameFrom, from, to) ==
    /\ LeadsBack(cameFrom, from)
    /\ \/ to \in DOMAIN cameFrom
       \/ \A f \in DOMAIN cameFrom : Neighbours(f) \subseteq DOMAIN cameFrom

\* Every pass visits a frame or shortens the queue, so the loop comes to an end.
LEMMA VisitEnds ==
    ASSUME TypeOK, ParentListsChild, NEW from, NEW to, NEW known, Encloses(known),
           NEW search, IsVisit(search, to, known), NEW start, Sound(start, from, known)
    PROVE  Complete(search[start], from, to) /\ search[start] \in CameFroms(known)
<1> DEFINE Wrong(s) == /\ Sound(s, from, known)
                       /\ ~(Complete(search[s], from, to) /\ search[s] \in CameFroms(known))
           WrongVisited == {W \in SUBSET known : \E s \in Visits(known) : Wrong(s) /\ DOMAIN s[2] = W}
<1> SUFFICES ASSUME Wrong(start) PROVE FALSE
  OBVIOUS
<1>1. \A s \in Visits(known) : DOMAIN s[2] \in SUBSET known
  BY DEF Visits, CameFroms
<1>2. PICK W \in WrongVisited : \A Y \in WrongVisited : ~Inside(W, Y)
  <2>1. WrongVisited \in SUBSET SUBSET known
    OBVIOUS
  <2>2. DOMAIN start[2] \in WrongVisited
    BY <1>1 DEF Sound
  <2> HIDE DEF WrongVisited
  <2> QED
    BY <2>1, <2>2, LargestSubset DEF Encloses
<1> DEFINE Lengths == {n \in Nat : \E s \in Visits(known) :
                           Wrong(s) /\ DOMAIN s[2] = W /\ Len(s[1]) = n}
<1>3. PICK n \in Lengths : \A m \in Lengths : n <= m
  <2>1. Lengths # {}
    <3>1. PICK s \in Visits(known) : Wrong(s) /\ DOMAIN s[2] = W
      BY <1>2
    <3>2. Len(s[1]) \in Nat
      BY DEF Visits
    <3> QED
      BY <3>1, <3>2
  <2> HIDE DEF Wrong
  <2>2. Lengths \in SUBSET Nat
    OBVIOUS
  <2> HIDE DEF Lengths
  <2> QED
    BY <2>1, <2>2, SmallestNumber
<1>4. PICK s \in Visits(known) : Wrong(s) /\ DOMAIN s[2] = W /\ Len(s[1]) = n
  BY <1>3
<1>5. search[s] = IF Ended(s, to) THEN s[2] ELSE search[Pass(s)]
  BY <1>4 DEF IsVisit
<1>6. CASE Ended(s, to)
  <2>1. search[s] = s[2] /\ search[s] \in CameFroms(known)
    BY <1>5, <1>6 DEF Visits
  <2>2. LeadsBack(s[2], from) /\ NoneForgotten(s[1], s[2])
    BY <1>4 DEF Sound
  <2>3. s[1] = <<>> => \A f \in DOMAIN s[2] : Neighbours(f) \subseteq DOMAIN s[2]
    BY <2>2 DEF NoneForgotten
  <2> QED
    BY <1>4, <1>6, <2>1, <2>2, <2>3 DEF Ended, Complete
<1>7. CASE ~Ended(s, to)
  <2> DEFINE t == Pass(s)
             new == Neighbours(Head(s[1])) \ DOMAIN s[2]
  <2>1. s[1] # <<>>
    BY <1>7 DEF Ended
  <2>2. Advances(s, t, new, known)
    BY <2>1, PassInside
  <2>3. Sound(t, from, known)
    BY <1>4, <2>1, PassSound
  <2>4. search[t] = search[s]
    BY <1>5, <1>7
  <2>5. new \cap DOMAIN s[2] = {}
    OBVIOUS
  <2> HIDE DEF t, new
  <2>6. Wrong(t) /\ t \in Visits(known)
    BY <1>4, <2>3, <2>4 DEF Sound
  <2>7. CASE new # {}
    <3>1. DOMAIN t[2] \in WrongVisited
      BY <1>1, <2>6
    <3>2. Inside(W, DOMAIN t[2])
      BY <1>4, <2>2, <2>5, <2>7 DEF Inside, Advances
    <3> QED
      BY <1>2, <3>1, <3>2
  <2>8. CASE new = {}
    <3>1. DOMAIN t[2] = W
      BY <1>4, <2>2, <2>8 DEF Advances
    <3>2. Len(t[1]) = n - 1
      <4>1. s[1] \in Seq(known) /\ Len(s[1]) = n
        BY <1>4 DEF Visits
      <4>2. Tail(s[1]) \in Seq(known) /\ Len(Tail(s[1])) = n - 1
        BY <2>1, <4>1, HeadTailProperties
      <4>3. SetToSeq(new) = <<>>
        <5>1. SetToSeq(new) \in Seq({})
          BY <2>2, <2>8, Enumerated DEF Advances
        <5> QED
          BY <5>1
      <4>4. t[1] = Tail(s[1])
        BY <2>2, <4>2, <4>3, ConcatEmptySeq DEF Advances
      <4> QED
        BY <4>2, <4>4
    <3>3. Len(t[1]) \in Nat
      BY <2>6 DEF Visits
    <3>4. Len(t[1]) \in Lengths
      BY <2>6, <3>1, <3>3
    <3> QED
      BY <1>3, <3>2, <3>4
  <2> QED
    BY <2>7, <2>8
<1> QED
  BY <1>6, <1>7

\* So what getPath reconstructs its path from is complete.
LEMMA CameFromComplete ==
    ASSUME TypeOK, ParentListsChild, FinitelyMany, NEW from \in Frames, NEW to \in Frames
    PROVE  Complete(CameFrom(from, to), from, to) /\ DOMAIN CameFrom(from, to) \in SUBSET Frames
<1> DEFINE known == AllFrames \cup {from}
           search == CHOOSE f : IsVisit(f, to, known)
           start == << <<from>>, [f \in {from} |-> from]>>
<1>1. Encloses(known)
  <2>1. known \in SUBSET Frames
    BY FramesInside
  <2>2. IsFiniteSet(known)
    BY FS_AddElement DEF FinitelyMany
  <2>3. ASSUME NEW f \in known, NEW g \in Neighbours(f) PROVE g \in known
    <3>1. f \in Frames /\ g \in Frames /\ Adjacent(f, g)
      BY <2>1, EdgeOfNeighbour
    <3> QED
      BY <3>1, LinksInside DEF Adjacent
  <2> QED
    BY <2>1, <2>2, <2>3 DEF Encloses
<1>2. IsVisit(search, to, known)
  <2> HIDE DEF known
  <2> QED
    BY <1>1, VisitExists
<1>3. CameFrom(from, to) = search[start]
  BY DEF CameFrom, IsVisit, Visits
<1>4. Sound(start, from, known)
  <2>1. from \in known
    OBVIOUS
  <2> HIDE DEF known
  <2> DEFINE cf == [f \in {from} |-> from]
  <2>2. start \in Visits(known) /\ start[1] = <<from>> /\ start[2] = cf
    <3>1. cf \in [{from} -> known] /\ {from} \in SUBSET known
      BY <2>1
    <3>2. cf \in CameFroms(known)
      BY <3>1 DEF CameFroms
    <3>3. <<from>> \in Seq(known)
      BY <2>1
    <3> HIDE DEF cf
    <3> QED
      BY <3>2, <3>3 DEF Visits, cf
  <2>3. LeadsBack(cf, from)
    BY DEF LeadsBack
  <2>4. NoneForgotten(<<from>>, cf)
    <3>1. Len(<<from>>) = 1 /\ <<from>>[1] = from
      OBVIOUS
    <3> QED
      BY <3>1 DEF NoneForgotten
  <2> QED
    BY <2>2, <2>3, <2>4 DEF Sound
<1> HIDE DEF known, search, start
<1>5. Complete(search[start], from, to) /\ search[start] \in CameFroms(known)
  BY <1>1, <1>2, <1>4, VisitEnds
<1>6. DOMAIN search[start] \in SUBSET known
  BY <1>5 DEF CameFroms
<1> QED
  BY <1>1, <1>3, <1>5, <1>6 DEF Encloses

-----------------------------------------------------------------------------
\* The path that getPath reconstructs.

\* p is the way from the first frame to f that came_from holds.
IsTrail(p, f, cameFrom, from) ==
    /\ p \in Seq(DOMAIN cameFrom) /\ Len(p) >= 1
    /\ p[1] = from
    /\ p[Len(p)] = f
    /\ \A i \in 1 .. Len(p) - 1 : p[i + 1] # from /\ cameFrom[p[i + 1]] = p[i]

\* The first frame is its own trail, and only that.
LEMMA TrailOfFirst ==
    ASSUME NEW from, NEW cf, LeadsBack(cf, from), NEW p
    PROVE  IsTrail(p, from, cf, from) <=> p = <<from>>
<1>1. from \in DOMAIN cf
  BY DEF LeadsBack
<1>2. IsTrail(<<from>>, from, cf, from)
  BY <1>1 DEF IsTrail
<1>3. ASSUME IsTrail(p, from, cf, from) PROVE p = <<from>>
  <2>1. p \in Seq(DOMAIN cf) /\ Len(p) \in Nat /\ Len(p) >= 1 /\ p[1] = from
    BY <1>3 DEF IsTrail
  <2>2. Len(p) = 1
    <3>1. CASE Len(p) - 1 \in 1 .. Len(p) - 1
      <4>1. p[Len(p) - 1 + 1] # from
        BY <1>3, <3>1 DEF IsTrail
      <4>2. Len(p) - 1 + 1 = Len(p)
        BY <2>1
      <4> QED
        BY <1>3, <4>1, <4>2 DEF IsTrail
    <3>2. CASE Len(p) - 1 \notin 1 .. Len(p) - 1
      <4>1. \A n \in Nat : n >= 1 /\ n - 1 \notin 1 .. n - 1 => n = 1
        OBVIOUS
      <4> QED
        BY <2>1, <3>2, <4>1
    <3> QED
      BY <3>1, <3>2
  <2>3. <<from>> \in Seq(DOMAIN cf) /\ Len(<<from>>) = 1 /\ <<from>>[1] = from
    BY <1>1
  <2> QED
    BY <2>1, <2>2, <2>3, SeqEqual
<1> QED
  BY <1>2, <1>3

\* A frame's trail is that of the frame it was reached from, and the frame.
LEMMA TrailOn ==
    ASSUME NEW from, NEW cf, LeadsBack(cf, from), NEW f \in DOMAIN cf, f # from,
           NEW p, IsTrail(p, cf[f], cf, from)
    PROVE  IsTrail(Append(p, f), f, cf, from)
<1> DEFINE t == Append(p, f)
<1>1. p \in Seq(DOMAIN cf) /\ Len(p) \in Nat /\ Len(p) >= 1
  BY DEF IsTrail
<1>2. /\ t \in Seq(DOMAIN cf) /\ Len(t) = Len(p) + 1
      /\ \A i \in 1 .. Len(p) : t[i] = p[i]
      /\ t[Len(p) + 1] = f
  BY <1>1
<1> HIDE DEF t
<1>3. ASSUME NEW i \in 1 .. Len(t) - 1
      PROVE  t[i + 1] # from /\ cf[t[i + 1]] = t[i]
  <2>1. CASE i = Len(p)
    BY <1>1, <1>2, <2>1 DEF IsTrail
  <2>2. CASE i # Len(p)
    <3>1. i \in 1 .. Len(p) - 1 /\ i \in 1 .. Len(p) /\ i + 1 \in 1 .. Len(p)
      BY <1>1, <1>2, <2>2
    <3>2. t[i] = p[i] /\ t[i + 1] = p[i + 1]
      BY <1>2, <3>1
    <3> QED
      BY <3>1, <3>2 DEF IsTrail
  <2> QED
    BY <2>1, <2>2
<1>4. t[1] = from /\ t[Len(t)] = f /\ Len(t) >= 1
  <2>1. 1 \in 1 .. Len(p)
    BY <1>1
  <2> QED
    BY <1>1, <1>2, <2>1 DEF IsTrail
<1>5. IsTrail(t, f, cf, from)
  BY <1>2, <1>3, <1>4 DEF IsTrail
<1> QED
  BY <1>5 DEF t

LEMMA TrailBack ==
    ASSUME NEW from, NEW cf, LeadsBack(cf, from), NEW f \in DOMAIN cf, f # from,
           NEW p, IsTrail(p, f, cf, from)
    PROVE  \E q : IsTrail(q, cf[f], cf, from) /\ p = Append(q, f)
<1> DEFINE n == Len(p) - 1
           q == SubSeq(p, 1, n)
<1>1. p \in Seq(DOMAIN cf) /\ Len(p) \in Nat /\ Len(p) >= 1 /\ p[Len(p)] = f /\ p[1] = from
  BY DEF IsTrail
<1>2. Len(p) >= 2
  BY <1>1
<1>3. n \in Nat /\ n >= 1 /\ n + 1 = Len(p) /\ \A i \in 1 .. n : p[i] \in DOMAIN cf
  BY <1>1, <1>2
<1>4. q \in Seq(DOMAIN cf) /\ Len(q) = n /\ \A i \in 1 .. n : q[i] = p[i]
  <2> HIDE DEF n
  <2>1. /\ q \in Seq(DOMAIN cf)
        /\ Len(q) = IF 1 <= n THEN n - 1 + 1 ELSE 0
        /\ \A i \in 1 .. n - 1 + 1 : q[i] = p[1 + i - 1]
    BY <1>3, SubSeqProperties
  <2>2. n - 1 + 1 = n /\ \A i \in 1 .. n : 1 + i - 1 = i
    BY <1>3
  <2> QED
    BY <1>3, <2>1, <2>2
<1> HIDE DEF q
<1>5. p = Append(q, f)
  <2>1. /\ Append(q, f) \in Seq(DOMAIN cf) /\ Len(Append(q, f)) = n + 1
        /\ \A i \in 1 .. n : Append(q, f)[i] = q[i]
        /\ Append(q, f)[n + 1] = f
    <3>1. /\ Append(q, f) \in Seq(DOMAIN cf) /\ Len(Append(q, f)) = Len(q) + 1
          /\ \A i \in 1 .. Len(q) : Append(q, f)[i] = q[i]
          /\ Append(q, f)[Len(q) + 1] = f
      BY <1>4, AppendProperties
    <3> HIDE DEF n
    <3> QED
      BY <1>4, <3>1
  <2>2. \A i \in 1 .. Len(p) : p[i] = Append(q, f)[i]
    BY <1>1, <1>3, <1>4, <2>1
  <2> HIDE DEF n
  <2> QED
    BY <1>1, <1>3, <2>1, <2>2, SeqEqual
<1>6. cf[f] = p[n]
  <2>1. n \in 1 .. Len(p) - 1
    BY <1>1, <1>3
  <2>2. cf[p[n + 1]] = p[n]
    BY <2>1 DEF IsTrail
  <2> QED
    BY <1>1, <1>3, <2>2
<1>7. IsTrail(q, cf[f], cf, from)
  <2>1. \A i \in 1 .. Len(q) - 1 : q[i + 1] # from /\ cf[q[i + 1]] = q[i]
    <3> SUFFICES ASSUME NEW i \in 1 .. Len(q) - 1 PROVE q[i + 1] # from /\ cf[q[i + 1]] = q[i]
      OBVIOUS
    <3>1. i \in 1 .. n /\ i + 1 \in 1 .. n /\ i \in 1 .. Len(p) - 1
      BY <1>3, <1>4
    <3> QED
      BY <1>4, <3>1 DEF IsTrail
  <2>2. q[1] = from /\ q[Len(q)] = cf[f]
    BY <1>1, <1>3, <1>4, <1>6
  <2> QED
    BY <1>3, <1>4, <2>1, <2>2 DEF IsTrail
<1> QED
  BY <1>5, <1>7

\* Every visited frame has a trail, as the frames without one lead to one another.
LEMMA TrailExists ==
    ASSUME NEW from, NEW cf, LeadsBack(cf, from), NEW f \in DOMAIN cf
    PROVE  \E p : IsTrail(p, f, cf, from)
<1> DEFINE S == {g \in DOMAIN cf : ~\E p : IsTrail(p, g, cf, from)}
<1>1. from \notin S
  BY TrailOfFirst
<1>2. \A g \in S : cf[g] \in S
  BY <1>1, TrailOn DEF LeadsBack
<1>3. S = {}
  BY <1>1, <1>2 DEF LeadsBack
<1> QED
  BY <1>3

\* It has one only.
LEMMA TrailUnique ==
    ASSUME NEW from, NEW cf, LeadsBack(cf, from), NEW f \in DOMAIN cf,
           NEW p, NEW q, IsTrail(p, f, cf, from), IsTrail(q, f, cf, from)
    PROVE  p = q
<1> DEFINE S == {g \in DOMAIN cf : \E a, b : /\ IsTrail(a, g, cf, from)
                                             /\ IsTrail(b, g, cf, from)
                                             /\ a # b}
<1>1. from \notin S
  BY TrailOfFirst
<1>2. ASSUME NEW g \in S PROVE cf[g] \in S
  <2>1. PICK a, b : IsTrail(a, g, cf, from) /\ IsTrail(b, g, cf, from) /\ a # b
    OBVIOUS
  <2>2. g \in DOMAIN cf /\ g # from /\ cf[g] \in DOMAIN cf
    BY <1>1 DEF LeadsBack
  <2>3. PICK a2 : IsTrail(a2, cf[g], cf, from) /\ a = Append(a2, g)
    BY <2>1, <2>2, TrailBack
  <2>4. PICK b2 : IsTrail(b2, cf[g], cf, from) /\ b = Append(b2, g)
    BY <2>1, <2>2, TrailBack
  <2>5. a2 # b2
    BY <2>1, <2>3, <2>4
  <2> QED
    BY <2>2, <2>3, <2>4, <2>5
<1>3. S = {}
  <2> HIDE DEF S
  <2>1. S \in SUBSET DOMAIN cf
    BY DEF S
  <2> QED
    BY <1>1, <1>2, <2>1 DEF LeadsBack
<1> QED
  BY <1>3

\* The part of a trail up to a frame on it is that frame's trail.
LEMMA TrailPrefix ==
    ASSUME NEW from, NEW cf, LeadsBack(cf, from), NEW f \in DOMAIN cf,
           NEW p, IsTrail(p, f, cf, from), NEW k \in 1 .. Len(p)
    PROVE  IsTrail(SubSeq(p, 1, k), p[k], cf, from) /\ Len(SubSeq(p, 1, k)) = k
<1> DEFINE q == SubSeq(p, 1, k)
<1>1. p \in Seq(DOMAIN cf) /\ Len(p) \in Nat /\ k \in Nat /\ k >= 1 /\ k <= Len(p)
  BY DEF IsTrail
<1>2. q \in Seq(DOMAIN cf) /\ Len(q) = k /\ \A i \in 1 .. k : q[i] = p[i]
  <2>1. k \in Int /\ 1 \in Int /\ \A i \in 1 .. k : p[i] \in DOMAIN cf
    BY <1>1
  <2>2. /\ q \in Seq(DOMAIN cf)
        /\ Len(q) = IF 1 <= k THEN k - 1 + 1 ELSE 0
        /\ \A i \in 1 .. k - 1 + 1 : q[i] = p[1 + i - 1]
    BY <2>1, SubSeqProperties
  <2>3. k - 1 + 1 = k /\ \A i \in 1 .. k : 1 + i - 1 = i
    BY <1>1
  <2> QED
    BY <1>1, <2>2, <2>3
<1> HIDE DEF q
<1>3. ASSUME NEW i \in 1 .. Len(q) - 1
      PROVE  q[i + 1] # from /\ cf[q[i + 1]] = q[i]
  <2>1. i \in 1 .. k /\ i + 1 \in 1 .. k /\ i \in 1 .. Len(p) - 1
    BY <1>1, <1>2
  <2> QED
    BY <1>2, <2>1 DEF IsTrail
<1>4. q[1] = from /\ q[Len(q)] = p[k]
  BY <1>1, <1>2 DEF IsTrail
<1> QED
  BY <1>1, <1>2, <1>3, <1>4 DEF IsTrail, q

\* So no frame is on a trail twice.
LEMMA TrailInjective ==
    ASSUME NEW from, NEW cf, LeadsBack(cf, from), NEW f \in DOMAIN cf,
           NEW p, IsTrail(p, f, cf, from)
    PROVE  IsInjective(p)
<1>1. p \in Seq(DOMAIN cf) /\ DOMAIN p = 1 .. Len(p) /\ Len(p) \in Nat
  BY DEF IsTrail
<1>2. ASSUME NEW i \in DOMAIN p, NEW j \in DOMAIN p, p[i] = p[j]
      PROVE  i = j
  <2>1. p[i] \in DOMAIN cf /\ i \in 1 .. Len(p) /\ j \in 1 .. Len(p)
    BY <1>1
  <2>2. /\ IsTrail(SubSeq(p, 1, i), p[i], cf, from) /\ Len(SubSeq(p, 1, i)) = i
        /\ IsTrail(SubSeq(p, 1, j), p[j], cf, from) /\ Len(SubSeq(p, 1, j)) = j
    BY <2>1, TrailPrefix
  <2>3. SubSeq(p, 1, i) = SubSeq(p, 1, j)
    BY <1>2, <2>1, <2>2, TrailUnique
  <2> QED
    BY <2>2, <2>3
<1> QED
  BY <1>2 DEF IsInjective

\* The equation of GetPath's recursive function.
IsReconstruction(path, cf, from) ==
    path = [f \in DOMAIN cf |-> IF f = from THEN <<from>> ELSE Append(path[cf[f]], f)]

LEMMA ReconstructionExists ==
    ASSUME NEW from, NEW cf, LeadsBack(cf, from)
    PROVE  \E path : IsReconstruction(path, cf, from)
<1> DEFINE trail(f) == CHOOSE p : IsTrail(p, f, cf, from)
           path == [f \in DOMAIN cf |-> trail(f)]
<1>1. \A f \in DOMAIN cf : IsTrail(trail(f), f, cf, from)
  BY TrailExists
<1> HIDE DEF trail
<1>2. ASSUME NEW f \in DOMAIN cf
      PROVE  trail(f) = IF f = from THEN <<from>> ELSE Append(path[cf[f]], f)
  <2>1. CASE f = from
    BY <1>1, <2>1, TrailOfFirst
  <2>2. CASE f # from
    <3>1. cf[f] \in DOMAIN cf /\ path[cf[f]] = trail(cf[f])
      BY <2>2 DEF LeadsBack
    <3>2. IsTrail(Append(trail(cf[f]), f), f, cf, from)
      BY <1>1, <2>2, <3>1, TrailOn
    <3> QED
      BY <1>1, <2>2, <3>1, <3>2, TrailUnique
  <2> QED
    BY <2>1, <2>2
<1>3. IsReconstruction(path, cf, from)
  BY <1>2 DEF IsReconstruction
<1> QED
  BY <1>3

LEMMA ReconstructionIsTrail ==
    ASSUME NEW from, NEW cf, LeadsBack(cf, from),
           NEW path, IsReconstruction(path, cf, from), NEW f \in DOMAIN cf
    PROVE  IsTrail(path[f], f, cf, from)
<1> DEFINE S == {g \in DOMAIN cf : ~IsTrail(path[g], g, cf, from)}
<1>1. \A g \in DOMAIN cf : path[g] = IF g = from THEN <<from>> ELSE Append(path[cf[g]], g)
  BY DEF IsReconstruction
<1>2. from \notin S
  BY <1>1, TrailOfFirst DEF LeadsBack
<1>3. ASSUME NEW g \in S PROVE cf[g] \in S
  <2>1. g \in DOMAIN cf /\ g # from /\ cf[g] \in DOMAIN cf
    BY <1>2 DEF LeadsBack
  <2>2. path[g] = Append(path[cf[g]], g)
    BY <1>1, <2>1
  <2> QED
    BY <2>1, <2>2, TrailOn
<1>4. S = {}
  <2> HIDE DEF S
  <2>1. S \in SUBSET DOMAIN cf
    BY DEF S
  <2> QED
    BY <1>2, <1>3, <2>1 DEF LeadsBack
<1> QED
  BY <1>4

-----------------------------------------------------------------------------
\* The frames that getPath visits, in a graph whose reverse lookup is right.

Root(f) == Last(PathToRoot(f))

\* A frame with no parent is its root, and any other has the root of its parent.
LEMMA RootOfRoot ==
    ASSUME TypeOK, WalkToRootEnds, NEW f \in Frames, f \notin DOMAIN parents
    PROVE  Root(f) = f
<1>1. PathToRoot(f) = <<f>>
  BY PathToRootIsWay, WayOfRoot
<1>2. Len(<<f>>) = 1 /\ <<f>>[1] = f
  OBVIOUS
<1> QED
  BY <1>1, <1>2 DEF Root, Last

LEMMA RootOfParent ==
    ASSUME TypeOK, WalkToRootEnds, NEW f \in DOMAIN parents
    PROVE  parents[f] \in Frames /\ Root(f) = Root(parents[f])
<1> DEFINE s == PathToRoot(f)
           t == PathToRoot(parents[f])
<1>1. f \in Frames /\ parents[f] \in Frames
  BY DEF TypeOK
<1>2. IsWay(s, f) /\ IsWay(t, parents[f])
  BY <1>1, PathToRootIsWay
<1> HIDE DEF s, t
<1>3. IsWay(Tail(s), parents[f]) /\ s = <<f>> \o Tail(s)
  BY <1>2, WayUp
<1>4. Tail(s) = t
  BY <1>1, <1>2, <1>3, WayUnique
<1>5. t \in Seq(Frames) /\ Len(t) \in Nat /\ Len(t) >= 1
  BY <1>2 DEF IsWay
<1>6. Len(<<f>> \o t) = Len(t) + 1 /\ (<<f>> \o t)[Len(t) + 1] = t[Len(t)]
  BY <1>1, <1>5
<1>7. s[Len(s)] = t[Len(t)]
  BY <1>3, <1>4, <1>6
<1> QED
  BY <1>1, <1>7 DEF Root, Last, s, t

\* So the two ends of a link have the same root.
LEMMA RootOfAdjacent ==
    ASSUME TypeOK, WalkToRootEnds, ReverseLookup,
           NEW f \in Frames, NEW g \in Frames, Adjacent(f, g)
    PROVE  Root(f) = Root(g)
<1>1. ASSUME NEW p \in Frames, NEW c \in Frames, HasChild(p, c) PROVE Root(p) = Root(c)
  <2>1. c \in DOMAIN parents /\ parents[c] = p
    BY <1>1 DEF HasChild, ReverseLookup
  <2> QED
    BY <2>1, RootOfParent
<1> QED
  BY <1>1 DEF Adjacent

\* What leads back to a frame is in that frame's tree.
LEMMA VisitedInTree ==
    ASSUME TypeOK, WalkToRootEnds, ReverseLookup,
           NEW from \in Frames, NEW cf, LeadsBack(cf, from), DOMAIN cf \in SUBSET Frames,
           NEW f \in DOMAIN cf
    PROVE  Root(f) = Root(from)
<1> DEFINE S == {g \in DOMAIN cf : Root(g) # Root(from)}
<1>1. S \in SUBSET DOMAIN cf /\ from \notin S
  OBVIOUS
<1>2. ASSUME NEW g \in S PROVE cf[g] \in S
  <2>1. g # from /\ cf[g] \in DOMAIN cf /\ Adjacent(g, cf[g])
    BY <1>1 DEF LeadsBack
  <2>2. g \in Frames /\ cf[g] \in Frames
    BY <2>1
  <2>3. Root(g) = Root(cf[g])
    BY <2>1, <2>2, RootOfAdjacent
  <2> QED
    BY <2>1, <2>3
<1>3. S = {}
  <2> HIDE DEF S
  <2> QED
    BY <1>1, <1>2 DEF LeadsBack
<1> QED
  BY <1>3

\* Frames with all that is next to them are whole trees: first the root of each
\* is among them, then whatever has its root among them.
LEMMA TreeVisited ==
    ASSUME TypeOK, WalkToRootEnds, ParentListsChild,
           NEW V \in SUBSET Frames, \A f \in V : Neighbours(f) \subseteq V,
           NEW from \in V, NEW to \in Frames, Root(to) = Root(from)
    PROVE  to \in V
<1>1. \A f \in V : f \in DOMAIN parents => parents[f] \in V
  BY DEF Neighbours
<1>2. ASSUME NEW f \in Frames, f \in DOMAIN parents, parents[f] \in V PROVE f \in V
  <2>1. HasChild(parents[f], f)
    BY <1>2 DEF ParentListsChild
  <2>2. f \in Neighbours(parents[f])
    BY <2>1 DEF Neighbours, Children
  <2> QED
    BY <1>2, <2>2
<1>3. \A f \in V : Root(f) \in V
  <2> DEFINE S == {f \in V : Root(f) \notin V}
  <2>1. S \in SUBSET Frames
    OBVIOUS
  <2>2. ASSUME NEW f \in S PROVE f \in DOMAIN parents /\ parents[f] \in S
    <3>1. f \in DOMAIN parents
      BY RootOfRoot
    <3> QED
      BY <1>1, <3>1, RootOfParent
  <2>3. S = {}
    <3> HIDE DEF S
    <3> QED
      BY <2>1, <2>2 DEF WalkToRootEnds
  <2> QED
    BY <2>3
<1>4. \A f \in Frames : Root(f) \in V => f \in V
  <2> DEFINE S == {f \in Frames : Root(f) \in V /\ f \notin V}
  <2>1. S \in SUBSET Frames
    OBVIOUS
  <2>2. ASSUME NEW f \in S PROVE f \in DOMAIN parents /\ parents[f] \in S
    <3>1. f \in DOMAIN parents
      BY RootOfRoot
    <3>2. parents[f] \in Frames /\ Root(parents[f]) \in V
      BY <3>1, RootOfParent
    <3> QED
      BY <1>2, <3>1, <3>2
  <2>3. S = {}
    <3> HIDE DEF S
    <3> QED
      BY <2>1, <2>2 DEF WalkToRootEnds
  <2> QED
    BY <2>3
<1> QED
  BY <1>3, <1>4

-----------------------------------------------------------------------------
\* getPath.

\* A trail is a path along links that meets no frame twice.
LEMMA TrailIsSimple ==
    ASSUME NEW from, NEW cf, LeadsBack(cf, from), NEW f \in DOMAIN cf,
           NEW p, IsTrail(p, f, cf, from)
    PROVE  p # <<>> /\ IsSimplePath(p, from, f)
<1>1. p \in Seq(DOMAIN cf) /\ Len(p) \in Nat /\ Len(p) >= 1 /\ p[1] = from /\ p[Len(p)] = f
  BY DEF IsTrail
<1>2. p # <<>>
  <2>1. Len(<<>>) = 0
    OBVIOUS
  <2> QED
    BY <1>1, <2>1
<1>3. ASSUME NEW i \in 1 .. Len(p) - 1 PROVE Adjacent(p[i], p[i + 1])
  <2>1. i + 1 \in 1 .. Len(p)
    BY <1>1
  <2>2. p[i + 1] \in DOMAIN cf
    BY <1>1, <2>1
  <2>3. p[i + 1] # from /\ cf[p[i + 1]] = p[i]
    BY DEF IsTrail
  <2> QED
    BY <2>2, <2>3 DEF LeadsBack, Adjacent
<1>4. IsInjective(p)
  BY TrailInjective
<1> QED
  BY <1>1, <1>2, <1>3, <1>4 DEF IsSimplePath

\* getPath is the trail of its target, where the search has come to it.
LEMMA PathIsTrail ==
    ASSUME NEW from, NEW to, LeadsBack(CameFrom(from, to), from)
    PROVE  IF to \in DOMAIN CameFrom(from, to)
           THEN IsTrail(GetPath(from, to), to, CameFrom(from, to), from)
           ELSE GetPath(from, to) = <<>>
<1> DEFINE cf == CameFrom(from, to)
           path == CHOOSE q : IsReconstruction(q, cf, from)
<1>1. IsReconstruction(path, cf, from)
  BY ReconstructionExists
<1>2. GetPath(from, to) = IF to \in DOMAIN cf THEN path[to] ELSE <<>>
  BY DEF GetPath, IsReconstruction
<1> HIDE DEF cf, path
<1>3. LeadsBack(cf, from)
  BY DEF cf
<1>4. IF to \in DOMAIN cf THEN IsTrail(GetPath(from, to), to, cf, from)
                          ELSE GetPath(from, to) = <<>>
  BY <1>1, <1>2, <1>3, ReconstructionIsTrail
<1> QED
  BY <1>4 DEF cf

\* The breadth-first search of getPath ends; it finds a path along links that
\* meets no frame twice between any two frames of one tree, and none between
\* frames of two trees.
THEOREM PathsCorrect == ASSUME ArrowFree PROVE SpecHeld => []PathsAreTreePaths
<1>1. Shape /\ FinitelyMany /\ ReverseLookup => PathsAreTreePaths
  <2> SUFFICES ASSUME Shape, FinitelyMany, ReverseLookup, NEW from \in Frames, NEW to \in Frames
               PROVE  IF Root(from) = Root(to)
                      THEN /\ GetPath(from, to) # <<>>
                           /\ IsSimplePath(GetPath(from, to), from, to)
                      ELSE GetPath(from, to) = <<>>
    BY DEF PathsAreTreePaths, Root
  <2> USE DEF Shape
  <2> DEFINE cf == CameFrom(from, to)
  <2>1. Complete(cf, from, to) /\ DOMAIN cf \in SUBSET Frames
    BY CameFromComplete
  <2>2. LeadsBack(cf, from)
    BY <2>1 DEF Complete
  <2>3. IF to \in DOMAIN cf THEN IsTrail(GetPath(from, to), to, cf, from)
                            ELSE GetPath(from, to) = <<>>
    BY <2>2, PathIsTrail
  <2> HIDE DEF cf
  <2>4. CASE to \in DOMAIN cf
    <3>1. Root(to) = Root(from)
      BY <2>1, <2>2, <2>4, VisitedInTree
    <3> QED
      BY <2>2, <2>3, <2>4, <3>1, TrailIsSimple
  <2>5. CASE to \notin DOMAIN cf
    <3>1. \A f \in DOMAIN cf : Neighbours(f) \subseteq DOMAIN cf
      BY <2>1, <2>5 DEF Complete
    <3>2. from \in DOMAIN cf
      BY <2>2 DEF LeadsBack
    <3>3. Root(to) # Root(from)
      BY <2>1, <2>5, <3>1, <3>2, TreeVisited
    <3> QED
      BY <2>3, <2>5, <3>3
  <2> QED
    BY <2>4, <2>5
<1>2. SpecHeld => Spec
  BY HeldRefinesAny
<1>3. SpecHeld => [](Shape /\ FinitelyMany)
  BY <1>2, ShapeCorrect, AlwaysFinite, PTL
<1>4. SpecHeld => []ReverseLookup
  BY ReverseLookupHeld
<1> QED
  BY <1>1, <1>3, <1>4, PTL

-----------------------------------------------------------------------------
\* The two kinds of caller.

LEMMA CallerStep == [CallerNext]_<<vars, careful>> => [Next]_vars
BY HeldIsAny DEF CallerNext, NextHeld, Next

\* What is shown of any calls holds for either caller.
THEOREM CallersCall == CallerSpec => Spec
BY CallerStep, PTL DEF CallerSpec, CallerInit, Spec

\* The kind of a caller never changes.
LEMMA CarefulStays == careful /\ [CallerNext]_<<vars, careful>> => careful'
BY DEF CallerNext

LEMMA CarelessStays == ~careful /\ [CallerNext]_<<vars, careful>> => ~careful'
BY DEF CallerNext

LEMMA CarefulStep == careful /\ [CallerNext]_<<vars, careful>> => [NextHeld]_vars
BY DEF CallerNext, NextHeld

\* What a careful caller does is what SpecHeld says.
LEMMA CarefulCalls == CallerSpec => [](~careful) \/ ([]careful /\ SpecHeld)
<1>1. CallerInit => Init
  BY DEF CallerInit
<1> QED
  BY <1>1, CarefulStays, CarelessStays, CarefulStep, PTL DEF CallerSpec, SpecHeld

\* For a careful caller parents_ is the exact reverse of children_.
THEOREM CarefulReverse == ASSUME ArrowFree PROVE CallerSpec => []CarefulReverseLookup
<1>1. ReverseLookup => CarefulReverseLookup
  BY DEF CarefulReverseLookup
<1>2. ~careful => CarefulReverseLookup
  BY DEF CarefulReverseLookup
<1> QED
  BY <1>1, <1>2, CarefulCalls, ReverseLookupHeld, PTL

\* For a careful caller getPath ends and finds the one path of a tree.
THEOREM CarefulPathsCorrect == ASSUME ArrowFree PROVE CallerSpec => []CarefulPaths
<1>1. PathsAreTreePaths => CarefulPaths
  BY DEF CarefulPaths
<1>2. ~careful => CarefulPaths
  BY DEF CarefulPaths
<1> QED
  BY <1>1, <1>2, CarefulCalls, PathsCorrect, PTL

\* For a careful caller the three maps implement the forest their interface
\* describes.
THEOREM CarefulImplements == ASSUME ArrowFree PROVE CallerSpec => CarefulForest
<1>1. [Forest!Next]_Mapped => [careful => Forest!Next]_Mapped
  OBVIOUS
<1>2. ~careful => [careful => Forest!Next]_Mapped
  OBVIOUS
<1>3. SpecHeld => Forest!Init /\ [][Forest!Next]_Mapped
  BY ImplementsForest, PTL DEF ForestSpec, Forest!Spec
<1> QED
  BY <1>1, <1>2, <1>3, CarefulCalls, PTL DEF CarefulForest

=============================================================================
