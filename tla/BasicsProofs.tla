---------------------------- MODULE BasicsProofs ----------------------------
(***************************************************************************)
(* For every finite graph, the search of internal/graph answers rightly    *)
(* and its layering is tight; for any number of resources, providers and   *)
(* slots, a refresh observes everything and loses no slot; for any number  *)
(* of processes, writes and saved plans, as long as one person breaks only *)
(* locks of processes that are gone, the lock excludes, no write is lost   *)
(* and a saved plan runs on the state it was made for.                     *)
(***************************************************************************)
EXTENDS GraphSearch, Refresh, StateLock, FiniteSetTheorems, SequenceTheorems, TLAPS

-----------------------------------------------------------------------------
(***************************************************************************)
(* The depth-first search.  The stack is a path; a visit has looked at     *)
(* successors that are done, or is inside one; and what is done has only   *)
(* done successors, with no cycle among them.                              *)
(***************************************************************************)
Frames == [node : Vertices, todo : SUBSET Vertices]

SearchTypeOK ==
  /\ arcs \subseteq Vertices \X Vertices
  /\ mark \in [Vertices -> {"unvisited", "visiting", "done"}]
  /\ frames \in Seq(Frames)
  /\ cycle \in Seq(Vertices)

StackIsPath ==
  /\ \A i \in DOMAIN frames : frames[i].todo \subseteq Out(frames[i].node)
  /\ \A i, j \in DOMAIN frames : frames[i].node = frames[j].node => i = j
  /\ \A i \in DOMAIN frames : i + 1 \in DOMAIN frames =>
       <<frames[i].node, frames[i + 1].node>> \in arcs

VisitingIsOnStack ==
  \A n \in Vertices : mark[n] = "visiting" <=> \E i \in DOMAIN frames : frames[i].node = n

LookedAtIsDone ==
  \A i \in DOMAIN frames : \A m \in Out(frames[i].node) \ frames[i].todo :
    mark[m] = "done" \/ (i + 1 \in DOMAIN frames /\ frames[i + 1].node = m)

DoneGraph == {n \in Vertices : mark[n] = "done"}
DoneIsClosed == \A n \in DoneGraph : Out(n) \subseteq DoneGraph
DoneIsAcyclic == ~HasCycle(DoneGraph, arcs)

SearchInv ==
  /\ SearchTypeOK
  /\ StackIsPath
  /\ cycle = <<>> => VisitingIsOnStack /\ LookedAtIsDone /\ DoneIsClosed
  /\ DoneIsAcyclic
  /\ IsCycle(cycle)

LEMMA LooksAtOne ==
  ASSUME NEW f \in Frames, NEW m
  PROVE  /\ [f EXCEPT !.todo = @ \ {m}] = [node |-> f.node, todo |-> f.todo \ {m}]
         /\ [node |-> f.node, todo |-> f.todo \ {m}] \in Frames
  BY DEF Frames

LEMMA OneMore ==
  ASSUME NEW k \in Nat
  PROVE  k + 1 \in 1..(k + 1) /\ 1..(k + 1) = (1..k) \cup {k + 1}
  OBVIOUS

USE GraphSearchAssumption

LEMMA FrameTyped ==
  ASSUME SearchTypeOK, NEW i \in DOMAIN frames
  PROVE  frames[i].node \in Vertices /\ frames[i].todo \subseteq Vertices
  <1>1. frames[i] \in Frames
    BY DEF SearchTypeOK
  <1> QED BY <1>1 DEF Frames

\* What IsCycle says is a cycle is one.
LEMMA CycleIsCycle ==
  ASSUME NEW c \in Seq(Vertices), c # <<>>, IsCycle(c)
  PROVE  HasCycle(Vertices, arcs)
  <1> DEFINE S == {c[i] : i \in DOMAIN c}
  <1>1. Len(c) \in Nat \ {0} /\ DOMAIN c = 1..Len(c)
    BY EmptySeq, LenProperties
  <1>2. S # {} /\ S \in SUBSET Vertices
    BY <1>1
  <1>3. \A n \in S : \E m \in S : <<m, n>> \in arcs
    <2> SUFFICES ASSUME NEW i \in DOMAIN c PROVE \E j \in DOMAIN c : <<c[j], c[i]>> \in arcs
      OBVIOUS
    <2>1. CASE i = 1
      <3>1. Len(c) \in DOMAIN c /\ <<c[Len(c)], c[1]>> \in arcs
        BY <1>1 DEF IsCycle
      <3> QED BY <2>1, <3>1
    <2>2. CASE i # 1
      <3>1. i - 1 \in DOMAIN c /\ i - 1 # Len(c) /\ (i - 1) + 1 = i
        BY <1>1, <2>2
      <3>2. <<c[i - 1], c[(i - 1) + 1]>> \in arcs
        BY <3>1 DEF IsCycle
      <3> QED BY <3>1, <3>2
    <2> QED BY <2>1, <2>2
  <1> HIDE DEF S
  <1> QED BY <1>2, <1>3 DEF HasCycle

\* Closing the stack from one of its frames on gives a cycle.
LEMMA StackCloses ==
  ASSUME SearchInv, NEW i \in DOMAIN frames, <<Top.node, frames[i].node>> \in arcs
  PROVE  /\ SubSeq(OnStack, i, Len(frames)) \in Seq(Vertices) \ {<<>>}
         /\ IsCycle(SubSeq(OnStack, i, Len(frames)))
  <1> DEFINE c == SubSeq(OnStack, i, Len(frames))
             k == Len(frames)
  <1>1. k \in Nat /\ DOMAIN frames = 1..k /\ i \in 1..k
    BY DEF SearchInv, SearchTypeOK
  <1>2. OnStack \in Seq(Vertices) /\ Len(OnStack) = k /\ \A j \in 1..k : OnStack[j] = frames[j].node
    <2>1. \A j \in 1..k : frames[j].node \in Vertices
      BY <1>1, FrameTyped DEF SearchInv
    <2>2. OnStack = [j \in 1..k |-> frames[j].node]
      BY <1>1 DEF OnStack
    <2> QED BY <1>1, <2>1, <2>2
  <1>3. /\ c \in Seq(Vertices) /\ Len(c) = k - i + 1 /\ DOMAIN c = 1..(k - i + 1)
        /\ \A j \in 1..(k - i + 1) : c[j] = OnStack[i + j - 1]
    BY <1>1, <1>2
  <1>4. \A j \in 1..(k - i + 1) : c[j] = frames[i + j - 1].node
    <2> SUFFICES ASSUME NEW j \in 1..(k - i + 1) PROVE c[j] = frames[i + j - 1].node
      OBVIOUS
    <2>1. i + j - 1 \in 1..k
      BY <1>1
    <2> QED BY <1>2, <1>3, <2>1
  <1> HIDE DEF c
  <1>5. ASSUME NEW j \in DOMAIN c
        PROVE  <<c[j], IF j = Len(c) THEN c[1] ELSE c[j + 1]>> \in arcs
    <2>1. CASE j = Len(c)
      <3>1. c[j] = Top.node /\ c[1] = frames[i].node
        BY <1>1, <1>3, <1>4, <2>1 DEF Top
      <3> QED BY <2>1, <3>1
    <2>2. CASE j # Len(c)
      <3>1. /\ i + j - 1 \in DOMAIN frames /\ (i + j - 1) + 1 \in DOMAIN frames
            /\ c[j] = frames[i + j - 1].node /\ c[j + 1] = frames[(i + j - 1) + 1].node
        <4>1. j + 1 \in 1..(k - i + 1) /\ i + (j + 1) - 1 = (i + j - 1) + 1
          BY <1>1, <1>3, <2>2
        <4>2. i + j - 1 \in 1..k /\ (i + j - 1) + 1 \in 1..k /\ j \in 1..(k - i + 1)
          BY <1>1, <1>3, <4>1
        <4>3. c[j] = frames[i + j - 1].node /\ c[j + 1] = frames[i + (j + 1) - 1].node
          BY <1>4, <4>1, <4>2
        <4> QED BY <1>1, <4>1, <4>2, <4>3
      <3>2. <<frames[i + j - 1].node, frames[(i + j - 1) + 1].node>> \in arcs
        BY <3>1 DEF SearchInv, StackIsPath
      <3> QED BY <2>2, <3>1, <3>2
    <2> QED BY <2>1, <2>2
  <1>6. c # <<>>
    BY <1>1, <1>3
  <1> QED BY <1>3, <1>5, <1>6 DEF IsCycle, c

LEMMA SearchInvInit == GraphInit => SearchInv
  <1> SUFFICES ASSUME GraphInit PROVE SearchInv
    OBVIOUS
  <1>1. SearchTypeOK
    BY DEF GraphInit, SearchTypeOK
  <1>2. DoneGraph = {} /\ frames = <<>> /\ cycle = <<>>
    BY DEF GraphInit, DoneGraph
  <1> QED BY <1>1, <1>2 DEF GraphInit, SearchInv, StackIsPath, VisitingIsOnStack, LookedAtIsDone,
             DoneIsClosed, DoneIsAcyclic, HasCycle, IsCycle

\* A node nothing done points to, all of whose successors are done, closes no cycle.
LEMMA StaysAcyclic ==
  ASSUME NEW D, NEW n, ~HasCycle(D, arcs), \A m \in D \cup {n} : <<m, n>> \notin arcs
  PROVE  ~HasCycle(D \cup {n}, arcs)
  <1> SUFFICES ASSUME NEW S \in SUBSET (D \cup {n}), S # {}, \A k \in S : \E m \in S : <<m, k>> \in arcs
               PROVE  FALSE
    BY DEF HasCycle
  <1>1. n \notin S
    OBVIOUS
  <1> QED BY <1>1 DEF HasCycle

\* A visit of n begins: n goes on top of the stack, which leads to it.
LEMMA PushKeeps ==
  ASSUME SearchInv, cycle = <<>>, NEW n \in Vertices, mark[n] = "unvisited",
         NEW fs \in Seq(Frames), Len(fs) = Len(frames),
         \A i \in DOMAIN frames : /\ fs[i].node = frames[i].node
                                  /\ fs[i].todo \subseteq frames[i].todo
                                  /\ frames[i].todo \ fs[i].todo
                                       \subseteq (IF i = Len(frames) THEN {n} ELSE {}),
         frames # <<>> => <<Top.node, n>> \in arcs,
         frames' = Append(fs, Frame(n)), mark' = [mark EXCEPT ![n] = "visiting"],
         UNCHANGED <<arcs, cycle>>
  PROVE  SearchInv'
  <1> DEFINE k == Len(frames)
  <1>1. k = Len(frames) /\ k \in Nat /\ DOMAIN frames = 1..k /\ DOMAIN fs = 1..k
    BY DEF SearchInv, SearchTypeOK
  <1> HIDE DEF k
  <1>2. Frame(n) \in Frames /\ Frame(n).node = n /\ Frame(n).todo = Out(n)
    BY DEF Frame, Frames, Out
  <1>3. /\ frames' \in Seq(Frames) /\ DOMAIN frames' = 1..(k + 1) /\ Len(frames') = k + 1
        /\ \A i \in 1..k : frames'[i] = fs[i]
        /\ frames'[k + 1] = Frame(n)
    BY <1>1, <1>2
  <1>4. \A i \in 1..k : frames'[i].node = frames[i].node /\ frames'[i].todo \subseteq frames[i].todo
    BY <1>1, <1>3
  <1>5. frames'[k + 1].node = n /\ frames'[k + 1].todo = Out(n)
    BY <1>2, <1>3
  <1>6. SearchTypeOK'
    <2>1. mark' \in [Vertices -> {"unvisited", "visiting", "done"}]
      BY DEF SearchInv, SearchTypeOK
    <2> QED BY <1>3, <2>1 DEF SearchInv, SearchTypeOK
  <1>7. \A m : Out(m)' = Out(m)
    BY DEF Out
  <1>8. \A m \in Vertices : mark'[m] = IF m = n THEN "visiting" ELSE mark[m]
    BY DEF SearchInv, SearchTypeOK
  <1>9. \A i \in 1..k : frames[i].node # n
    <2> SUFFICES ASSUME NEW i \in 1..k, frames[i].node = n PROVE FALSE
      OBVIOUS
    <2>1. mark[n] = "visiting"
      BY <1>1 DEF SearchInv, VisitingIsOnStack
    <2> QED BY <2>1
  <1>10. StackIsPath'
    <2>0. \A i \in 1..(k + 1) : i \in 1..k \/ i = k + 1
      BY <1>1, OneMore
    <2>1. \A i \in 1..(k + 1) : frames'[i].todo \subseteq Out(frames'[i].node)
      <3>1. \A i \in 1..k : frames[i].todo \subseteq Out(frames[i].node)
        BY <1>1 DEF SearchInv, StackIsPath
      <3> QED BY <1>4, <1>5, <2>0, <3>1
    <2>2. \A i, j \in 1..(k + 1) : frames'[i].node = frames'[j].node => i = j
      <3>1. \A i, j \in 1..k : frames[i].node = frames[j].node => i = j
        BY <1>1 DEF SearchInv, StackIsPath
      <3>2. \A i, j \in 1..k : frames'[i].node = frames'[j].node => i = j
        BY <1>4, <3>1
      <3>3. \A i \in 1..k : frames'[i].node # frames'[k + 1].node
        BY <1>4, <1>5, <1>9
      <3> QED BY <2>0, <3>2, <3>3
    <2>3. ASSUME NEW i \in 1..(k + 1), i + 1 \in 1..(k + 1)
          PROVE  <<frames'[i].node, frames'[i + 1].node>> \in arcs
      <3>1. i \in 1..k
        BY <1>1, <2>3
      <3>2. CASE i = k
        <4>1. frames # <<>> /\ Top.node = frames[k].node
          BY <1>1, <3>1 DEF Top
        <4> QED BY <1>4, <1>5, <3>1, <3>2, <4>1
      <3>3. CASE i # k
        <4>1. i + 1 \in 1..k
          BY <1>1, <3>1, <3>3
        <4>2. <<frames[i].node, frames[i + 1].node>> \in arcs
          BY <1>1, <3>1, <4>1 DEF SearchInv, StackIsPath
        <4> QED BY <1>4, <3>1, <4>1, <4>2
      <3> QED BY <3>2, <3>3
    <2> QED BY <1>3, <1>7, <2>1, <2>2, <2>3 DEF StackIsPath
  <1>11. VisitingIsOnStack'
    <2> SUFFICES ASSUME NEW m \in Vertices
                 PROVE  mark'[m] = "visiting" <=> \E i \in 1..(k + 1) : frames'[i].node = m
      BY <1>3 DEF VisitingIsOnStack
    <2>1. CASE m = n
      <3>1. k + 1 \in 1..(k + 1)
        BY <1>1
      <3> QED BY <1>5, <1>8, <2>1, <3>1
    <2>2. CASE m # n
      <3>1. mark'[m] = "visiting" <=> \E i \in 1..k : frames[i].node = m
        BY <1>1, <1>8, <2>2 DEF SearchInv, VisitingIsOnStack
      <3>2. \A i \in 1..(k + 1) : i \in 1..k \/ i = k + 1
        BY <1>1
      <3>3. 1..k \subseteq 1..(k + 1)
        BY <1>1
      <3> QED BY <1>4, <1>5, <2>2, <3>1, <3>2, <3>3
    <2> QED BY <2>1, <2>2
  <1>12. DoneGraph' = DoneGraph
    BY <1>8 DEF DoneGraph
  <1>13. LookedAtIsDone'
    <2> SUFFICES ASSUME NEW i \in 1..(k + 1), NEW m \in Out(frames'[i].node) \ frames'[i].todo
                 PROVE  mark'[m] = "done" \/ (i + 1 \in 1..(k + 1) /\ frames'[i + 1].node = m)
      BY <1>3, <1>7 DEF LookedAtIsDone
    <2>1. m \in Vertices
      BY DEF Out
    <2>2. i # k + 1 /\ i \in 1..k
      BY <1>1, <1>5
    <2>3. CASE i = k /\ m = n
      <3>1. i + 1 = k + 1 /\ k + 1 \in 1..(k + 1)
        BY <1>1, <2>3, OneMore
      <3>2. frames'[i + 1].node = m
        BY <1>5, <2>3, <3>1
      <3> QED BY <3>1, <3>2
    <2>4. CASE ~(i = k /\ m = n)
      <3>1. m \in Out(frames[i].node) \ frames[i].todo
        BY <1>1, <1>3, <1>4, <2>2, <2>4
      <3>2. mark[m] = "done" \/ (i + 1 \in 1..k /\ frames[i + 1].node = m)
        BY <1>1, <2>2, <3>1 DEF SearchInv, LookedAtIsDone
      <3>3. mark[m] = "done" => mark'[m] = "done"
        BY <1>8, <2>1
      <3>4. 1..k \subseteq 1..(k + 1)
        BY <1>1
      <3> QED BY <1>4, <3>2, <3>3, <3>4
    <2> QED BY <2>3, <2>4
  <1>14. DoneIsClosed' /\ DoneIsAcyclic' /\ IsCycle(cycle)'
    BY <1>7, <1>12 DEF SearchInv, DoneIsClosed, DoneIsAcyclic, IsCycle, HasCycle
  <1> QED BY <1>6, <1>10, <1>11, <1>13, <1>14 DEF SearchInv

LEMMA VisitNextKeeps == SearchInv /\ VisitNext => SearchInv'
  <1> SUFFICES ASSUME SearchInv, VisitNext PROVE SearchInv'
    OBVIOUS
  <1>1. PICK n \in Vertices : /\ mark[n] = "unvisited" /\ mark' = [mark EXCEPT ![n] = "visiting"]
                              /\ frames' = <<Frame(n)>>
    BY DEF VisitNext, First
  <1>2. cycle = <<>> /\ frames = <<>> /\ UNCHANGED <<arcs, cycle>>
    BY DEF VisitNext, SearchOver
  <1>3. <<>> \in Seq(Frames) /\ frames' = Append(<<>>, Frame(n)) /\ DOMAIN frames = {}
    BY <1>1, <1>2
  <1> QED BY <1>1, <1>2, <1>3, PushKeeps

\* What the stack is once its innermost visit has looked at m.
LEMMA PastIs ==
  ASSUME SearchInv, frames # <<>>, NEW m \in First(Top.todo)
  PROVE  /\ m \in Vertices /\ m \in Top.todo /\ <<Top.node, m>> \in arcs
         /\ Past(m) \in Seq(Frames) /\ Len(Past(m)) = Len(frames)
         /\ \A i \in DOMAIN frames :
              /\ Past(m)[i].node = frames[i].node
              /\ Past(m)[i].todo \subseteq frames[i].todo
              /\ frames[i].todo \ Past(m)[i].todo \subseteq (IF i = Len(frames) THEN {m} ELSE {})
  <1> DEFINE k == Len(frames)
             f == [node |-> frames[k].node, todo |-> frames[k].todo \ {m}]
  <1>1. k = Len(frames) /\ k \in Nat /\ DOMAIN frames = 1..k /\ k \in 1..k /\ frames \in Seq(Frames)
    BY EmptySeq, LenProperties DEF SearchInv, SearchTypeOK
  <1> HIDE DEF k
  <1>2. m \in Top.todo /\ Top.todo \subseteq Out(Top.node)
    BY <1>1 DEF First, Top, SearchInv, StackIsPath
  <1>3. m \in Vertices /\ <<Top.node, m>> \in arcs
    BY <1>2 DEF Out
  <1>4. frames[k] \in Frames
    BY <1>1
  <1>5. [frames[k] EXCEPT !.todo = @ \ {m}] = f /\ f \in Frames
    BY <1>4, LooksAtOne
  <1>6. Past(m) = [frames EXCEPT ![k] = f]
    BY <1>1, <1>5 DEF Past
  <1>7. f.node = frames[k].node /\ f.todo = frames[k].todo \ {m}
    OBVIOUS
  <1> HIDE DEF f
  <1>8. Past(m) \in Seq(Frames) /\ Len(Past(m)) = k
    BY <1>1, <1>5, <1>6
  <1>9. \A i \in 1..k : Past(m)[i] = IF i = k THEN f ELSE frames[i]
    BY <1>1, <1>6
  <1> QED BY <1>1, <1>2, <1>3, <1>7, <1>8, <1>9

LEMMA LookAtKeeps == SearchInv /\ LookAt => SearchInv'
  <1> SUFFICES ASSUME SearchInv, LookAt PROVE SearchInv'
    OBVIOUS
  <1> DEFINE k == Len(frames)
  <1>1. cycle = <<>> /\ frames # <<>> /\ UNCHANGED arcs
    BY DEF LookAt, SearchOver
  <1>2. PICK m \in First(Top.todo) :
          \/ /\ mark[m] = "visiting"
             /\ \E i \in DOMAIN frames :
                  frames[i].node = m /\ cycle' = SubSeq(OnStack, i, Len(frames))
             /\ frames' = Past(m)
             /\ UNCHANGED mark
          \/ /\ mark[m] = "unvisited"
             /\ mark' = [mark EXCEPT ![m] = "visiting"]
             /\ frames' = Append(Past(m), Frame(m))
             /\ UNCHANGED cycle
          \/ /\ mark[m] = "done"
             /\ frames' = Past(m)
             /\ UNCHANGED <<mark, cycle>>
    BY DEF LookAt
  <1>3. /\ m \in Vertices /\ <<Top.node, m>> \in arcs
        /\ Past(m) \in Seq(Frames) /\ Len(Past(m)) = k
        /\ \A i \in DOMAIN frames :
             /\ Past(m)[i].node = frames[i].node
             /\ Past(m)[i].todo \subseteq frames[i].todo
             /\ frames[i].todo \ Past(m)[i].todo \subseteq (IF i = Len(frames) THEN {m} ELSE {})
    BY <1>1, <1>2, PastIs
  <1>4. k \in Nat /\ DOMAIN frames = 1..k /\ DOMAIN Past(m) = 1..k
    BY <1>3 DEF SearchInv, SearchTypeOK
  <1>5. CASE mark[m] = "unvisited"
    <2>1. /\ mark' = [mark EXCEPT ![m] = "visiting"] /\ UNCHANGED cycle
          /\ frames' = Append(Past(m), Frame(m))
      BY <1>2, <1>5
    <2>2. \A i \in DOMAIN frames : /\ Past(m)[i].node = frames[i].node
                                   /\ Past(m)[i].todo \subseteq frames[i].todo
                                   /\ frames[i].todo \ Past(m)[i].todo
                                        \subseteq (IF i = Len(frames) THEN {m} ELSE {})
      BY <1>3
    <2>3. Past(m) \in Seq(Frames) /\ Len(Past(m)) = Len(frames) /\ UNCHANGED <<arcs, cycle>>
      BY <1>1, <1>3, <2>1
    <2> HIDE DEF k
    <2> QED BY <1>1, <1>3, <1>5, <2>1, <2>2, <2>3, PushKeeps
  <1>6. ASSUME frames' = Past(m), UNCHANGED mark
        PROVE  StackIsPath' /\ DoneIsAcyclic' /\ \A n : Out(n)' = Out(n)
    <2>1. \A n : Out(n)' = Out(n)
      BY <1>1 DEF Out
    <2>2. DoneGraph' = DoneGraph
      BY <1>6 DEF DoneGraph
    <2>3. StackIsPath'
      BY <1>1, <1>3, <1>4, <1>6, <2>1 DEF SearchInv, StackIsPath
    <2> QED BY <1>1, <2>1, <2>2, <2>3 DEF SearchInv, DoneIsAcyclic, HasCycle
  <1>7. CASE mark[m] = "visiting"
    <2>1. frames' = Past(m) /\ UNCHANGED mark
      BY <1>2, <1>7
    <2>2. PICK i \in DOMAIN frames : frames[i].node = m /\ cycle' = SubSeq(OnStack, i, Len(frames))
      BY <1>2, <1>7
    <2>3. <<Top.node, frames[i].node>> \in arcs
      BY <1>3, <2>2
    <2>4. cycle' \in Seq(Vertices) /\ cycle' # <<>> /\ IsCycle(cycle')
      BY <2>2, <2>3, StackCloses
    <2>5. SearchTypeOK'
      BY <1>1, <1>3, <2>1, <2>4 DEF SearchInv, SearchTypeOK
    <2>6. IsCycle(cycle)'
      BY <1>1, <2>4 DEF IsCycle
    <2> QED BY <1>6, <2>1, <2>4, <2>5, <2>6 DEF SearchInv
  <1>8. CASE mark[m] = "done"
    <2>1. frames' = Past(m) /\ UNCHANGED <<mark, cycle>>
      BY <1>2, <1>8
    <2>2. SearchTypeOK'
      BY <1>1, <1>3, <2>1 DEF SearchInv, SearchTypeOK
    <2>3. VisitingIsOnStack'
      BY <1>1, <1>3, <1>4, <2>1 DEF SearchInv, VisitingIsOnStack
    <2>4. LookedAtIsDone'
      <3> SUFFICES ASSUME NEW i \in 1..k, NEW n \in Out(frames[i].node), n \notin Past(m)[i].todo
                   PROVE  mark[n] = "done" \/ (i + 1 \in 1..k /\ Past(m)[i + 1].node = n)
        BY <1>3, <1>4, <1>6, <2>1 DEF LookedAtIsDone
      <3>1. CASE n = m
        BY <1>8, <3>1
      <3>2. CASE n # m
        <4>1. n \notin frames[i].todo
          BY <1>3, <1>4, <3>2
        <4>2. mark[n] = "done" \/ (i + 1 \in 1..k /\ frames[i + 1].node = n)
          BY <1>1, <1>4, <4>1 DEF SearchInv, LookedAtIsDone
        <4> QED BY <1>3, <1>4, <4>2
      <3> QED BY <3>1, <3>2
    <2>5. DoneGraph' = DoneGraph
      BY <2>1 DEF DoneGraph
    <2>6. DoneIsClosed' /\ IsCycle(cycle)'
      BY <1>1, <1>6, <2>1, <2>5 DEF SearchInv, DoneIsClosed, IsCycle
    <2> QED BY <1>6, <2>1, <2>2, <2>3, <2>4, <2>6 DEF SearchInv
  <1> QED BY <1>2, <1>5, <1>7, <1>8

\* A visit that has looked at everything ends: its node joins what is done.
LEMMA LeaveKeeps == SearchInv /\ Leave => SearchInv'
  <1> SUFFICES ASSUME SearchInv, Leave PROVE SearchInv'
    OBVIOUS
  <1> DEFINE k == Len(frames)
             n == Top.node
  <1>1. /\ cycle = <<>> /\ frames # <<>> /\ Top.todo = {} /\ UNCHANGED <<arcs, cycle>>
        /\ mark' = [mark EXCEPT ![n] = "done"] /\ frames' = SubSeq(frames, 1, k - 1)
    BY DEF Leave, SearchOver
  <1>2. k = Len(frames) /\ k \in Nat \ {0} /\ DOMAIN frames = 1..k /\ k \in 1..k /\ frames \in Seq(Frames)
    BY <1>1, EmptySeq, LenProperties DEF SearchInv, SearchTypeOK
  <1> HIDE DEF k
  <1>3. n = frames[k].node /\ frames[k].todo = {} /\ n \in Vertices
    BY <1>1, <1>2, FrameTyped DEF Top, SearchInv
  <1> HIDE DEF n
  <1>4. /\ frames' \in Seq(Frames) /\ Len(frames') = k - 1 /\ DOMAIN frames' = 1..(k - 1)
        /\ \A i \in 1..(k - 1) : frames'[i] = frames[i]
    BY <1>1, <1>2
  <1>5. \A m : Out(m)' = Out(m)
    BY <1>1 DEF Out
  <1>6. \A m \in Vertices : mark'[m] = IF m = n THEN "done" ELSE mark[m]
    BY <1>1, <1>3 DEF SearchInv, SearchTypeOK
  <1>7. SearchTypeOK'
    BY <1>1, <1>3, <1>4 DEF SearchInv, SearchTypeOK
  <1>8. \A i \in 1..(k - 1) : i \in 1..k /\ i # k
    BY <1>2
  <1>9. StackIsPath'
    <2>1. \A i \in 1..k : frames[i].todo \subseteq Out(frames[i].node)
      BY <1>2 DEF SearchInv, StackIsPath
    <2>2. \A i, j \in 1..k : frames[i].node = frames[j].node => i = j
      BY <1>2 DEF SearchInv, StackIsPath
    <2>3. \A i \in 1..k : i + 1 \in 1..k => <<frames[i].node, frames[i + 1].node>> \in arcs
      BY <1>2 DEF SearchInv, StackIsPath
    <2> QED BY <1>1, <1>4, <1>5, <1>8, <2>1, <2>2, <2>3 DEF StackIsPath
  <1>10. \A i \in 1..(k - 1) : frames[i].node # n
    BY <1>2, <1>3, <1>8 DEF SearchInv, StackIsPath
  <1>11. VisitingIsOnStack'
    <2> SUFFICES ASSUME NEW m \in Vertices
                 PROVE  mark'[m] = "visiting" <=> \E i \in 1..(k - 1) : frames[i].node = m
      BY <1>4 DEF VisitingIsOnStack
    <2>1. CASE m = n
      BY <1>6, <1>10, <2>1
    <2>2. CASE m # n
      <3>1. mark'[m] = "visiting" <=> \E i \in 1..k : frames[i].node = m
        BY <1>1, <1>2, <1>6, <2>2 DEF SearchInv, VisitingIsOnStack
      <3>2. \A i \in 1..k : i = k \/ i \in 1..(k - 1)
        BY <1>2
      <3> QED BY <1>3, <1>8, <2>2, <3>1, <3>2
    <2> QED BY <2>1, <2>2
  <1>12. mark[n] = "visiting"
    BY <1>1, <1>2, <1>3 DEF SearchInv, VisitingIsOnStack
  <1>13. LookedAtIsDone'
    <2> SUFFICES ASSUME NEW i \in 1..(k - 1), NEW m \in Out(frames[i].node) \ frames[i].todo
                 PROVE  mark'[m] = "done" \/ (i + 1 \in 1..(k - 1) /\ frames[i + 1].node = m)
      BY <1>4, <1>5 DEF LookedAtIsDone
    <2>1. m \in Vertices
      BY DEF Out
    <2>2. mark[m] = "done" \/ (i + 1 \in 1..k /\ frames[i + 1].node = m)
      BY <1>1, <1>2, <1>8 DEF SearchInv, LookedAtIsDone
    <2>3. CASE mark[m] = "done"
      BY <1>6, <2>1, <2>3
    <2>4. CASE i + 1 \in 1..k /\ frames[i + 1].node = m
      <3>1. i + 1 = k \/ i + 1 \in 1..(k - 1)
        BY <1>2
      <3>2. i + 1 = k => mark'[m] = "done"
        BY <1>3, <1>6, <2>1, <2>4
      <3> QED BY <2>4, <3>1, <3>2
    <2> QED BY <2>2, <2>3, <2>4
  <1>14. DoneGraph' = DoneGraph \cup {n}
    BY <1>3, <1>6 DEF DoneGraph
  <1>15. Out(n) \subseteq DoneGraph
    <2> SUFFICES ASSUME NEW m \in Out(n) PROVE mark[m] = "done" /\ m \in Vertices
      BY DEF DoneGraph
    <2>1. m \in Vertices
      BY DEF Out
    <2>2. mark[m] = "done" \/ (k + 1 \in 1..k /\ frames[k + 1].node = m)
      BY <1>1, <1>2, <1>3 DEF SearchInv, LookedAtIsDone
    <2>3. k + 1 \notin 1..k
      BY <1>2
    <2> QED BY <2>1, <2>2, <2>3
  <1>16. DoneIsClosed'
    BY <1>1, <1>5, <1>14, <1>15 DEF SearchInv, DoneIsClosed
  <1>17. DoneIsAcyclic'
    <2>1. n \notin DoneGraph
      BY <1>12 DEF DoneGraph
    <2>2. \A m \in DoneGraph \cup {n} : <<m, n>> \notin arcs
      <3> SUFFICES ASSUME NEW m \in DoneGraph \cup {n}, <<m, n>> \in arcs PROVE FALSE
        OBVIOUS
      <3>1. n \in Out(m)
        BY <1>3 DEF Out
      <3>2. Out(m) \subseteq DoneGraph
        BY <1>1, <1>15 DEF SearchInv, DoneIsClosed
      <3> QED BY <2>1, <3>1, <3>2
    <2>3. ~HasCycle(DoneGraph, arcs)
      BY DEF SearchInv, DoneIsAcyclic
    <2>4. ~HasCycle(DoneGraph \cup {n}, arcs)
      BY <2>2, <2>3, StaysAcyclic
    <2>5. UNCHANGED arcs
      BY <1>1
    <2> QED BY <1>14, <2>4, <2>5 DEF DoneIsAcyclic
  <1>18. IsCycle(cycle)'
    BY <1>1 DEF SearchInv, IsCycle
  <1> QED BY <1>7, <1>9, <1>11, <1>13, <1>16, <1>17, <1>18 DEF SearchInv

LEMMA SearchInvNext == SearchInv /\ [GraphNext]_graphVars => SearchInv'
  <1> SUFFICES ASSUME SearchInv, [GraphNext]_graphVars PROVE SearchInv'
    OBVIOUS
  <1>1. CASE VisitNext
    BY <1>1, VisitNextKeeps
  <1>2. CASE LookAt
    BY <1>2, LookAtKeeps
  <1>3. CASE Leave
    BY <1>3, LeaveKeeps
  <1>4. CASE UNCHANGED <<arcs, searchVars>>
    BY <1>4 DEF searchVars, SearchInv, SearchTypeOK, StackIsPath, VisitingIsOnStack, LookedAtIsDone,
         DoneIsClosed, DoneIsAcyclic, DoneGraph, Out, IsCycle, HasCycle
  <1>5. Peel \/ UNCHANGED graphVars => UNCHANGED <<arcs, searchVars>>
    BY DEF Peel, graphVars
  <1> QED BY <1>1, <1>2, <1>3, <1>4, <1>5 DEF GraphNext

\* Once the search is over, everything is done unless a cycle was found.
LEMMA SearchAnswers == SearchInv => CycleFoundIffThere
  <1> SUFFICES ASSUME SearchInv, SearchOver
               PROVE  IsCycle(cycle) /\ ((cycle # <<>>) <=> HasCycle(Vertices, arcs))
    BY DEF CycleFoundIffThere
  <1>1. IsCycle(cycle) /\ cycle \in Seq(Vertices)
    BY DEF SearchInv, SearchTypeOK
  <1>2. cycle # <<>> => HasCycle(Vertices, arcs)
    BY <1>1, CycleIsCycle
  <1>3. cycle = <<>> => DoneGraph = Vertices
    BY DEF SearchOver, DoneGraph
  <1>4. cycle = <<>> => ~HasCycle(Vertices, arcs)
    BY <1>3 DEF SearchInv, DoneIsAcyclic
  <1> QED BY <1>1, <1>2, <1>4

-----------------------------------------------------------------------------
(***************************************************************************)
(* The layering.  What is still to be peeled counts its predecessors there *)
(* are still to be peeled; what is peeled is in one layer, after its       *)
(* predecessors' and right after one of them.                              *)
(***************************************************************************)
Peeled == Vertices \ Unpeeled

LayeringTypeOK ==
  /\ Unpeeled \subseteq Vertices
  /\ degree = [n \in Unpeeled |-> Cardinality(In(n) \cap Unpeeled)]
  /\ layers \in Seq(SUBSET Vertices)

OneLayerEach ==
  /\ \A i \in DOMAIN layers : layers[i] \subseteq Peeled
  /\ \A n \in Peeled : \E i \in DOMAIN layers : n \in layers[i]
  /\ \A i, j \in DOMAIN layers : layers[i] \cap layers[j] # {} => i = j

AfterPredecessors ==
  \A i \in DOMAIN layers : \A n \in layers[i] :
    /\ \A m \in In(n) : \E j \in DOMAIN layers : j < i /\ m \in layers[j]
    /\ i = 1 \/ \E m \in In(n) : m \in layers[i - 1]

WaitsForLastLayer ==
  layers # <<>> => \A n \in Unpeeled : In(n) \cap (Unpeeled \cup layers[Len(layers)]) # {}

LayerInv == LayeringTypeOK /\ OneLayerEach /\ AfterPredecessors /\ WaitsForLastLayer

LEMMA InIsFinite ==
  ASSUME NEW n, NEW S
  PROVE  /\ IsFiniteSet(In(n) \cap S) /\ Cardinality(In(n) \cap S) \in Nat
         /\ Cardinality(In(n) \cap S) = 0 <=> In(n) \cap S = {}
  <1>1. In(n) \cap S \subseteq Vertices
    BY DEF In
  <1>2. IsFiniteSet(In(n) \cap S)
    BY <1>1, FS_Subset DEF GraphSearchAssumption
  <1> QED BY <1>2, FS_CardinalityType, FS_EmptySet

LEMMA LayerInvInit == GraphInit => LayerInv
  <1> SUFFICES ASSUME GraphInit PROVE LayerInv
    OBVIOUS
  <1>1. Unpeeled = Vertices /\ layers = <<>> /\ Peeled = {}
    BY DEF GraphInit, Unpeeled, Peeled
  <1>2. \A n \in Vertices : In(n) \cap Unpeeled = In(n)
    BY <1>1 DEF In
  <1>3. LayeringTypeOK
    <2>1. degree = [n \in Vertices |-> Cardinality(In(n))]
      BY DEF GraphInit
    <2>2. degree = [n \in Vertices |-> Cardinality(In(n) \cap Unpeeled)]
      BY <1>2, <2>1
    <2>3. layers \in Seq(SUBSET Vertices)
      BY <1>1
    <2> QED BY <1>1, <2>2, <2>3 DEF LayeringTypeOK
  <1> QED BY <1>1, <1>3 DEF LayerInv, OneLayerEach, AfterPredecessors, WaitsForLastLayer

LEMMA PeelKeeps == LayerInv /\ Peel => LayerInv'
  <1> SUFFICES ASSUME LayerInv, Peel PROVE LayerInv'
    OBVIOUS
  <1> DEFINE k == Len(layers)
  <1>1. /\ k = Len(layers) /\ k \in Nat /\ DOMAIN layers = 1..k
        /\ Unpeeled \subseteq Vertices /\ layers \in Seq(SUBSET Vertices)
    BY DEF LayerInv, LayeringTypeOK
  <1> HIDE DEF k
  <1>2. /\ layers' = Append(layers, Loose) /\ UNCHANGED arcs
        /\ degree' = [n \in Unpeeled \ Loose |-> degree[n] - Cardinality(In(n) \cap Loose)]
    BY DEF Peel
  <1>3. Loose \subseteq Unpeeled /\ Unpeeled' = Unpeeled \ Loose /\ Peeled' = Peeled \cup Loose
    BY <1>1, <1>2 DEF Loose, Unpeeled, Peeled
  <1>4. \A n : In(n)' = In(n)
    BY <1>2 DEF In
  <1>5. /\ layers' \in Seq(SUBSET Vertices) /\ Len(layers') = k + 1 /\ DOMAIN layers' = 1..(k + 1)
        /\ \A i \in 1..k : layers'[i] = layers[i]
        /\ layers'[k + 1] = Loose
    <2>1. Loose \in SUBSET Vertices
      BY <1>1, <1>3
    <2> HIDE DEF Loose, Unpeeled
    <2> QED BY <1>1, <1>2, <2>1
  <1>6. \A i : i \in 1..(k + 1) <=> i \in 1..k \/ i = k + 1
    BY <1>1, OneMore
  <1>7. \A n \in Unpeeled : n \in Loose <=> In(n) \cap Unpeeled = {}
    <2>1. \A n \in Unpeeled : degree[n] = Cardinality(In(n) \cap Unpeeled)
      BY DEF LayerInv, LayeringTypeOK
    <2> QED BY <2>1, InIsFinite DEF Loose
  <1>8. LayeringTypeOK'
    <2>1. ASSUME NEW n \in Unpeeled \ Loose
          PROVE  degree[n] - Cardinality(In(n) \cap Loose) = Cardinality(In(n) \cap Unpeeled')
      <3> DEFINE U == In(n) \cap Unpeeled
                 L == In(n) \cap Loose
      <3>1. degree[n] = Cardinality(U) /\ IsFiniteSet(U) /\ IsFiniteSet(L)
        BY InIsFinite DEF LayerInv, LayeringTypeOK
      <3>2. L \subseteq U /\ U \cap L = L /\ U \ L = In(n) \cap Unpeeled'
        BY <1>3
      <3>3. Cardinality(U \ L) = Cardinality(U) - Cardinality(U \cap L)
        BY <3>1, FS_Difference
      <3> QED BY <3>1, <3>2, <3>3
    <2>2. degree' = [n \in Unpeeled' |-> Cardinality(In(n) \cap Unpeeled')]
      BY <1>2, <1>3, <2>1
    <2> QED BY <1>1, <1>3, <1>4, <1>5, <2>2 DEF LayeringTypeOK
  <1>9. OneLayerEach'
    <2>1. \A i \in 1..k : layers[i] \subseteq Peeled
      BY <1>1 DEF LayerInv, OneLayerEach
    <2>2. Peeled \cap Loose = {}
      BY <1>3 DEF Peeled
    <2>3. \A i \in 1..(k + 1) : layers'[i] \subseteq Peeled'
      BY <1>3, <1>5, <1>6, <2>1
    <2>4. \A n \in Peeled' : \E i \in 1..(k + 1) : n \in layers'[i]
      <3>1. \A n \in Peeled : \E i \in 1..k : n \in layers[i]
        BY <1>1 DEF LayerInv, OneLayerEach
      <3> QED BY <1>3, <1>5, <1>6, <3>1
    <2>5. \A i, j \in 1..(k + 1) : layers'[i] \cap layers'[j] # {} => i = j
      <3>1. \A i, j \in 1..k : layers'[i] \cap layers'[j] # {} => i = j
        BY <1>1, <1>5 DEF LayerInv, OneLayerEach
      <3>2. \A i \in 1..k : layers'[i] \cap layers'[k + 1] = {} /\ layers'[k + 1] \cap layers'[i] = {}
        BY <1>5, <2>1, <2>2
      <3> QED BY <1>6, <3>1, <3>2
    <2> QED BY <1>5, <2>3, <2>4, <2>5 DEF OneLayerEach
  <1>10. AfterPredecessors'
    <2> SUFFICES ASSUME NEW i \in 1..(k + 1), NEW n \in layers'[i]
                 PROVE  /\ \A m \in In(n) : \E j \in 1..(k + 1) : j < i /\ m \in layers'[j]
                        /\ i = 1 \/ \E m \in In(n) : m \in layers'[i - 1]
      BY <1>4, <1>5 DEF AfterPredecessors
    <2>1. CASE i \in 1..k
      <3>1. /\ \A m \in In(n) : \E j \in 1..k : j < i /\ m \in layers[j]
            /\ i = 1 \/ \E m \in In(n) : m \in layers[i - 1]
        BY <1>1, <1>5, <2>1 DEF LayerInv, AfterPredecessors
      <3>2. i = 1 \/ i - 1 \in 1..k
        BY <1>1, <2>1
      <3> QED BY <1>5, <1>6, <3>1, <3>2
    <2>2. CASE i = k + 1
      <3>1. n \in Unpeeled /\ In(n) \cap Unpeeled = {}
        BY <1>3, <1>5, <1>7, <2>2
      <3>2. \A m \in In(n) : \E j \in 1..(k + 1) : j < i /\ m \in layers'[j]
        <4> SUFFICES ASSUME NEW m \in In(n) PROVE \E j \in 1..(k + 1) : j < i /\ m \in layers'[j]
          OBVIOUS
        <4>1. m \in Peeled
          BY <3>1 DEF In, Peeled
        <4>2. PICK j \in 1..k : m \in layers[j]
          BY <1>1, <4>1 DEF LayerInv, OneLayerEach
        <4>3. j < k + 1
          BY <1>1, <4>2
        <4> QED BY <1>5, <1>6, <2>2, <4>2, <4>3
      <3>3. i = 1 \/ \E m \in In(n) : m \in layers'[i - 1]
        <4>1. CASE k = 0
          BY <2>2, <4>1
        <4>2. CASE k # 0
          <5>1. layers # <<>> /\ i - 1 = k /\ k \in 1..k
            BY <1>1, <2>2, <4>2
          <5>2. In(n) \cap layers[k] # {}
            BY <1>1, <3>1, <5>1 DEF LayerInv, WaitsForLastLayer
          <5> QED BY <1>5, <5>1, <5>2
        <4> QED BY <4>1, <4>2
      <3> QED BY <3>2, <3>3
    <2> QED BY <1>6, <2>1, <2>2
  <1>11. WaitsForLastLayer'
    <2> SUFFICES ASSUME NEW n \in Unpeeled \ Loose
                 PROVE  In(n) \cap ((Unpeeled \ Loose) \cup Loose) # {}
      BY <1>3, <1>4, <1>5 DEF WaitsForLastLayer
    <2> QED BY <1>3, <1>7
  <1> QED BY <1>8, <1>9, <1>10, <1>11 DEF LayerInv

LEMMA LayerInvNext == LayerInv /\ [GraphNext]_graphVars => LayerInv'
  <1> SUFFICES ASSUME LayerInv, [GraphNext]_graphVars PROVE LayerInv'
    OBVIOUS
  <1>1. CASE UNCHANGED <<arcs, layerVars>>
    <2>1. UNCHANGED arcs /\ UNCHANGED degree /\ UNCHANGED layers
      BY <1>1 DEF layerVars
    <2>2. Unpeeled' = Unpeeled /\ Peeled' = Peeled /\ \A n : In(n)' = In(n)
      BY <2>1 DEF Unpeeled, Peeled, In
    <2>3. LayeringTypeOK'
      BY <2>1, <2>2 DEF LayerInv, LayeringTypeOK
    <2>4. OneLayerEach'
      BY <2>1, <2>2 DEF LayerInv, OneLayerEach
    <2>5. AfterPredecessors' /\ WaitsForLastLayer'
      BY <2>1, <2>2 DEF LayerInv, AfterPredecessors, WaitsForLastLayer
    <2> QED BY <2>3, <2>4, <2>5 DEF LayerInv
  <1>2. CASE Peel
    BY <1>2, PeelKeeps
  <1>3. VisitNext \/ LookAt \/ Leave \/ UNCHANGED graphVars => UNCHANGED <<arcs, layerVars>>
    BY DEF VisitNext, LookAt, Leave, graphVars
  <1> QED BY <1>1, <1>2, <1>3 DEF GraphNext

LEMMA LayersAnswer == LayerInv => LayersAreTight
  <1> SUFFICES ASSUME LayerInv, Unpeeled = {}, NEW n \in Vertices
               PROVE  /\ \A m \in In(n) : LayerOf(m) < LayerOf(n)
                      /\ LayerOf(n) = 1 \/ \E m \in In(n) : LayerOf(m) = LayerOf(n) - 1
    BY DEF LayersAreTight
  <1>1. \A m \in Vertices : LayerOf(m) \in DOMAIN layers /\ m \in layers[LayerOf(m)]
    BY DEF LayerInv, OneLayerEach, Peeled, LayerOf
  <1>2. \A m \in Vertices, i \in DOMAIN layers : m \in layers[i] => LayerOf(m) = i
    BY <1>1 DEF LayerInv, OneLayerEach
  <1>3. /\ \A m \in In(n) : \E j \in DOMAIN layers : j < LayerOf(n) /\ m \in layers[j]
        /\ LayerOf(n) = 1 \/ \E m \in In(n) : m \in layers[LayerOf(n) - 1]
    BY <1>1 DEF LayerInv, AfterPredecessors
  <1>4. In(n) \subseteq Vertices
    BY DEF In
  <1>5. LayerOf(n) = 1 \/ LayerOf(n) - 1 \in DOMAIN layers
    <2>1. DOMAIN layers = 1..Len(layers) /\ Len(layers) \in Nat
      BY DEF LayerInv, LayeringTypeOK
    <2> QED BY <1>1, <2>1
  <1> QED BY <1>2, <1>3, <1>4, <1>5

(***************************************************************************)
(* For every finite graph: the search finds a cycle exactly when there is  *)
(* one and returns a real one, and the layers are tight.                   *)
(***************************************************************************)
THEOREM GraphAnswersAlwaysRight == GraphSpec => []GraphAnswersAreRight
  <1>1. GraphInit => SearchInv /\ LayerInv
    BY SearchInvInit, LayerInvInit
  <1>2. SearchInv /\ LayerInv /\ [GraphNext]_graphVars => SearchInv' /\ LayerInv'
    BY SearchInvNext, LayerInvNext
  <1>3. SearchInv /\ LayerInv => GraphAnswersAreRight
    BY SearchAnswers, LayersAnswer DEF GraphAnswersAreRight
  <1> QED BY <1>1, <1>2, <1>3, PTL DEF GraphSpec

(***************************************************************************)
(* graph.go:163-190.  The peeling never comes to a turn that peels         *)
(* nothing: once the search has found no cycle, whatever is left has a     *)
(* node without predecessors, so the loop ends.                            *)
(***************************************************************************)
NeverStuck == SearchOver /\ cycle = <<>> /\ Unpeeled # {} => Loose # {}

THEOREM PeelingNeverStuck == GraphSpec => []NeverStuck
  <1>1. SearchInv /\ LayerInv => NeverStuck
    <2> SUFFICES ASSUME SearchInv, LayerInv, SearchOver, cycle = <<>>, Unpeeled # {}, Loose = {}
                 PROVE  FALSE
      BY DEF NeverStuck
    <2>1. ~HasCycle(Vertices, arcs)
      BY SearchAnswers DEF CycleFoundIffThere
    <2>2. Unpeeled \in SUBSET Vertices
      BY DEF LayerInv, LayeringTypeOK
    <2>3. \A n \in Unpeeled : degree[n] = Cardinality(In(n) \cap Unpeeled)
      BY DEF LayerInv, LayeringTypeOK
    <2>4. \A n \in Unpeeled : In(n) \cap Unpeeled # {}
      BY <2>3, InIsFinite DEF Loose
    <2>5. \A n \in Unpeeled : \E m \in Unpeeled : <<m, n>> \in arcs
      BY <2>4 DEF In
    <2> QED BY <2>1, <2>2, <2>5 DEF HasCycle
  <1>2. GraphInit => SearchInv /\ LayerInv
    BY SearchInvInit, LayerInvInit
  <1>3. SearchInv /\ LayerInv /\ [GraphNext]_graphVars => SearchInv' /\ LayerInv'
    BY SearchInvNext, LayerInvNext
  <1> QED BY <1>1, <1>2, <1>3, PTL DEF GraphSpec

-----------------------------------------------------------------------------
(***************************************************************************)
(* A refresh.  Resources are dispatched in order; an observation is made   *)
(* before a worker gives its slots back; and every slot is free or held by *)
(* the one worker that took it.                                            *)
(***************************************************************************)
USE RefreshAssumption

RefreshTypeOK ==
  /\ next \in 1..(Recorded + 1)
  /\ worker \in [Resources -> {"unborn", "queued", "reading", "observed", "over"}]
  /\ global \in Nat /\ room \in [Providers -> Nat]
  /\ obs \in [Resources -> {"nothing", "there", "gone", "error"}]
  /\ there \in [Resources -> BOOLEAN]
  /\ returned \in BOOLEAN

DispatchedInOrder == \A i \in Resources : worker[i] = "unborn" <=> i >= next

ObservedBeforeOver == \A i \in Resources : worker[i] \in {"observed", "over"} => obs[i] # "nothing"

GoneIsGone == \A i \in Resources : obs[i] = "gone" => ~there[i] /\ ProviderOf[i] # Unregistered

ReturnedIsOver == returned => \A i \in Resources : worker[i] = "over"

ObservedInv ==
  /\ RefreshTypeOK
  /\ DispatchedInOrder
  /\ ObservedBeforeOver
  /\ GoneIsGone
  /\ ReturnedIsOver

LEMMA ObservedInvInit == RefreshInit => ObservedInv
  <1> SUFFICES ASSUME RefreshInit PROVE ObservedInv
    OBVIOUS
  <1>1. Recorded \in Nat /\ Parallelism \in Nat /\ PerProvider \in Nat /\ 1 \in 1..(Recorded + 1)
    OBVIOUS
  <1>2. RefreshTypeOK
    BY <1>1 DEF RefreshInit, RefreshTypeOK
  <1> QED BY <1>2 DEF RefreshInit, ObservedInv, DispatchedInOrder, ObservedBeforeOver, GoneIsGone,
             ReturnedIsOver, Resources

LEMMA ObservedInvNext == ObservedInv /\ [RefreshNext]_refreshVars => ObservedInv'
  <1> SUFFICES ASSUME ObservedInv, [RefreshNext]_refreshVars PROVE ObservedInv'
    OBVIOUS
  <1> USE DEF ObservedInv, RefreshTypeOK, DispatchedInOrder, ObservedBeforeOver, GoneIsGone, ReturnedIsOver
  <1>1. CASE Dispatch
    <2>1. next \in Resources
      BY <1>1 DEF Dispatch, Resources
    <2>2. worker[next] = "unborn"
      BY <2>1 DEF Resources
    <2> QED BY <1>1, <2>1, <2>2 DEF Dispatch, Resources
  <1>2. CASE Return
    BY <1>2 DEF Return
  <1>3. CASE CancelRefresh
    BY <1>3 DEF CancelRefresh
  <1>4. ASSUME NEW i \in Resources, TakeRoom(i)
        PROVE  ObservedInv'
    <2>1. room' \in [Providers -> Nat]
      BY <1>4 DEF TakeRoom
    <2> QED BY <1>4, <2>1 DEF TakeRoom
  <1>5. ASSUME NEW i \in Resources, ReadOne(i)
        PROVE  ObservedInv'
    BY <1>5 DEF ReadOne, Observe, TryAgain
  <1>6. ASSUME NEW i \in Resources, Release(i)
        PROVE  ObservedInv'
    <2>0. room \in [Providers -> Nat]
      OBVIOUS
    <2>1. room' \in [Providers -> Nat]
      <3>1. CASE ProviderOf[i] = Unregistered
        BY <1>6, <2>0, <3>1 DEF Release, GiveBack
      <3>2. CASE ProviderOf[i] # Unregistered
        <4>1. room' = [room EXCEPT ![ProviderOf[i]] = room[ProviderOf[i]] + 1]
          BY <1>6, <3>2 DEF Release, GiveBack
        <4>2. ProviderOf[i] \in Providers
          BY <3>2 DEF Providers
        <4> QED BY <2>0, <4>1, <4>2
      <3> QED BY <3>1, <3>2
    <2> QED BY <1>6, <2>1 DEF Release
  <1>7. ASSUME NEW i \in Resources, Deleted(i)
        PROVE  ObservedInv'
    BY <1>7 DEF Deleted
  <1>8. CASE UNCHANGED refreshVars
    BY <1>8 DEF refreshVars
  <1> QED BY <1>1, <1>2, <1>3, <1>4, <1>5, <1>6, <1>7, <1>8 DEF RefreshNext, OwnerStep, Work

(***************************************************************************)
(* refresh.go:104-130, for any number of resources, providers and slots:   *)
(* what Refresh returns says something of every recorded resource, and one *)
(* is gone only if its provider was asked and no longer had it.            *)
(***************************************************************************)
THEOREM EverythingObserved == RefreshSpec => []ObservedInFull
  <1>1. ObservedInv => ObservedInFull
    BY DEF ObservedInv, ObservedBeforeOver, GoneIsGone, ReturnedIsOver, ObservedInFull
  <1> QED BY <1>1, ObservedInvInit, ObservedInvNext, PTL DEF RefreshSpec

InFlight == {i \in Resources : worker[i] \in {"queued", "reading", "observed"}}
Asking(p) == {i \in Resources : ProviderOf[i] = p /\ worker[i] \in {"reading", "observed"}}

(***************************************************************************)
(* refresh.go:108-124 and 146-150.  No slot is lost and none is made up:   *)
(* those free and the workers that hold one are always as many as there    *)
(* are, of the whole refresh and of each provider.  So no more reads are   *)
(* in flight than were asked for, and all slots are free at the end.       *)
(***************************************************************************)
SlotsAccounted ==
  /\ global + Cardinality(InFlight) = Parallelism
  /\ \A p \in Providers : room[p] + Cardinality(Asking(p)) = PerProvider
  /\ returned => global = Parallelism /\ \A p \in Providers : room[p] = PerProvider

SlotInv ==
  /\ global + Cardinality(InFlight) = Parallelism
  /\ \A p \in Providers : room[p] + Cardinality(Asking(p)) = PerProvider

LEMMA WorkersAreFinite ==
  ASSUME NEW S, S \subseteq Resources
  PROVE  IsFiniteSet(S) /\ Cardinality(S) \in Nat
  <1>1. IsFiniteSet(Resources)
    BY FS_Interval DEF Resources
  <1> QED BY <1>1, FS_Subset, FS_CardinalityType

LEMMA OneJoins ==
  ASSUME NEW S, S \subseteq Resources, NEW i \in Resources, i \notin S
  PROVE  Cardinality(S \cup {i}) = Cardinality(S) + 1
  BY WorkersAreFinite, FS_AddElement

LEMMA OneLeaves ==
  ASSUME NEW S, S \subseteq Resources, NEW i \in S
  PROVE  Cardinality(S \ {i}) = Cardinality(S) - 1
  BY WorkersAreFinite, FS_RemoveElement

LEMMA SlotInvNext == ObservedInv /\ SlotInv /\ [RefreshNext]_refreshVars => SlotInv'
  <1> SUFFICES ASSUME ObservedInv, SlotInv, [RefreshNext]_refreshVars PROVE SlotInv'
    OBVIOUS
  <1>0. /\ InFlight \subseteq Resources /\ \A p : Asking(p) \subseteq Resources
        /\ worker \in [Resources -> {"unborn", "queued", "reading", "observed", "over"}]
        /\ global \in Nat /\ room \in [Providers -> Nat]
        /\ Parallelism \in Nat /\ PerProvider \in Nat
        /\ Cardinality(InFlight) \in Nat /\ \A p : Cardinality(Asking(p)) \in Nat
    BY WorkersAreFinite DEF InFlight, Asking, ObservedInv, RefreshTypeOK
  <1>1. CASE Dispatch
    <2>1. next \in Resources /\ worker[next] = "unborn"
      BY <1>1 DEF Dispatch, Resources, ObservedInv, RefreshTypeOK, DispatchedInOrder
    <2>2. InFlight' = InFlight \cup {next} /\ next \notin InFlight
      BY <1>0, <1>1, <2>1 DEF Dispatch, InFlight
    <2>3. \A p : Asking(p)' = Asking(p)
      BY <1>0, <1>1, <2>1 DEF Dispatch, Asking
    <2>4. Cardinality(InFlight') = Cardinality(InFlight) + 1
      BY <1>0, <2>1, <2>2, OneJoins
    <2> QED BY <1>0, <1>1, <2>3, <2>4 DEF Dispatch, SlotInv
  <1>2. ASSUME NEW i \in Resources, TakeRoom(i)
        PROVE  SlotInv'
    <2>1. worker[i] = "queued" /\ worker' = [worker EXCEPT ![i] = "reading"] /\ UNCHANGED global
      BY <1>2 DEF TakeRoom
    <2>2. InFlight' = InFlight
      BY <1>0, <2>1 DEF InFlight
    <2>3. ASSUME NEW p \in Providers
          PROVE  room'[p] + Cardinality(Asking(p)') = PerProvider
      <3>1. room[p] + Cardinality(Asking(p)) = PerProvider
        BY DEF SlotInv
      <3>2. CASE ProviderOf[i] = p
        <4>1. room'[p] = room[p] - 1
          BY <1>0, <1>2, <3>2 DEF TakeRoom, Providers
        <4>2. Asking(p)' = Asking(p) \cup {i} /\ i \notin Asking(p)
          BY <1>0, <2>1, <3>2 DEF Asking
        <4>3. Cardinality(Asking(p)') = Cardinality(Asking(p)) + 1
          BY <1>0, <4>2, OneJoins
        <4> QED BY <1>0, <3>1, <4>1, <4>3
      <3>3. CASE ProviderOf[i] # p
        <4>1. room'[p] = room[p]
          BY <1>0, <1>2, <3>3 DEF TakeRoom
        <4>2. Asking(p)' = Asking(p)
          BY <1>0, <2>1, <3>3 DEF Asking
        <4> QED BY <3>1, <4>1, <4>2
      <3> QED BY <3>2, <3>3
    <2> QED BY <2>1, <2>2, <2>3 DEF SlotInv
  <1>3. ASSUME NEW i \in Resources, ReadOne(i)
        PROVE  SlotInv'
    <2>1. /\ worker[i] = "reading" /\ UNCHANGED <<global, room>>
          /\ worker' = worker \/ worker' = [worker EXCEPT ![i] = "observed"]
      BY <1>3 DEF ReadOne, Observe, TryAgain
    <2>2. InFlight' = InFlight /\ \A p : Asking(p)' = Asking(p)
      BY <1>0, <2>1 DEF InFlight, Asking
    <2> QED BY <2>1, <2>2 DEF SlotInv
  <1>4. ASSUME NEW i \in Resources, Release(i)
        PROVE  SlotInv'
    <2>1. /\ worker[i] = "observed" /\ worker' = [worker EXCEPT ![i] = "over"]
          /\ global' = global + 1 /\ room' = GiveBack(i)
      BY <1>4 DEF Release
    <2>2. InFlight' = InFlight \ {i} /\ i \in InFlight
      BY <1>0, <2>1 DEF InFlight
    <2>3. Cardinality(InFlight') = Cardinality(InFlight) - 1
      BY <1>0, <2>2, OneLeaves
    <2>4. ASSUME NEW p \in Providers
          PROVE  room'[p] + Cardinality(Asking(p)') = PerProvider
      <3>1. room[p] + Cardinality(Asking(p)) = PerProvider
        BY DEF SlotInv
      <3>2. CASE ProviderOf[i] = p
        <4>1. room'[p] = room[p] + 1
          BY <1>0, <2>1, <3>2 DEF GiveBack, Providers
        <4>2. Asking(p)' = Asking(p) \ {i} /\ i \in Asking(p)
          BY <1>0, <2>1, <3>2 DEF Asking
        <4>3. Cardinality(Asking(p)') = Cardinality(Asking(p)) - 1
          BY <1>0, <4>2, OneLeaves
        <4> QED BY <1>0, <3>1, <4>1, <4>3
      <3>3. CASE ProviderOf[i] # p
        <4>1. room'[p] = room[p]
          BY <1>0, <2>1, <3>3 DEF GiveBack
        <4>2. Asking(p)' = Asking(p)
          BY <1>0, <2>1, <3>3 DEF Asking
        <4> QED BY <3>1, <4>1, <4>2
      <3> QED BY <3>2, <3>3
    <2> QED BY <1>0, <2>1, <2>3, <2>4 DEF SlotInv
  <1>5. CASE UNCHANGED <<worker, global, room>>
    <2>1. InFlight' = InFlight /\ \A p : Asking(p)' = Asking(p)
      BY <1>5 DEF InFlight, Asking
    <2> QED BY <1>5, <2>1 DEF SlotInv
  <1>6. Return \/ CancelRefresh \/ UNCHANGED refreshVars => UNCHANGED <<worker, global, room>>
    BY DEF Return, CancelRefresh, refreshVars
  <1>7. \A i \in Resources : Deleted(i) => UNCHANGED <<worker, global, room>>
    BY DEF Deleted
  <1> QED BY <1>1, <1>2, <1>3, <1>4, <1>5, <1>6, <1>7 DEF RefreshNext, OwnerStep, Work

THEOREM NoSlotIsLost == RefreshSpec => []SlotsAccounted
  <1>1. RefreshInit => SlotInv
    <2> SUFFICES ASSUME RefreshInit PROVE SlotInv
      OBVIOUS
    <2>1. InFlight = {} /\ \A p : Asking(p) = {}
      BY DEF RefreshInit, InFlight, Asking
    <2>2. /\ Parallelism \in Nat /\ PerProvider \in Nat /\ Cardinality({}) = 0
          /\ global = Parallelism /\ \A p \in Providers : room[p] = PerProvider
      BY FS_EmptySet DEF RefreshInit
    <2>3. Cardinality(InFlight) = 0
      BY <2>1, FS_EmptySet
    <2>4. \A p \in Providers : Cardinality(Asking(p)) = 0
      BY <2>1, FS_EmptySet
    <2> QED BY <2>2, <2>3, <2>4 DEF SlotInv
  <1>2. ObservedInv /\ SlotInv => SlotsAccounted
    <2> SUFFICES ASSUME ObservedInv, SlotInv, returned
                 PROVE  global = Parallelism /\ \A p \in Providers : room[p] = PerProvider
      BY DEF SlotInv, SlotsAccounted
    <2>1. InFlight = {} /\ \A p : Asking(p) = {}
      BY DEF ObservedInv, ReturnedIsOver, InFlight, Asking
    <2>2. /\ Cardinality({}) = 0 /\ global \in Nat /\ \A p \in Providers : room[p] \in Nat
      BY FS_EmptySet DEF ObservedInv, RefreshTypeOK
    <2>3. Cardinality(InFlight) = 0
      BY <2>1, FS_EmptySet
    <2>4. \A p \in Providers : Cardinality(Asking(p)) = 0
      BY <2>1, FS_EmptySet
    <2> QED BY <2>2, <2>3, <2>4 DEF SlotInv
  <1> QED BY <1>1, <1>2, ObservedInvInit, ObservedInvNext, SlotInvNext, PTL DEF RefreshSpec

-----------------------------------------------------------------------------
(***************************************************************************)
(* The environment's lock.  Locks are only ever broken by one person, who  *)
(* only breaks locks of processes that are gone.                           *)
(***************************************************************************)
SafeUnlocking == ~UnlockLive /\ \A u, v \in Unlockers : u = v

(***************************************************************************)
(* What makes exclusion inductive: a lock someone is about to break        *)
(* belongs to nobody inside, and is still the one they looked at; and,     *)
(* for the writes, the process inside knows what is on disk.               *)
(***************************************************************************)
SeenIsGone ==
  \A u \in Unlockers : seen[u] # Free =>
    lock = seen[u] /\ run[seen[u]].pc \in {"off", "ready"}

MemoryIsDisk ==
  \A p \in Procs : run[p].pc \in {"holding", "writing"} =>
    /\ run[p].mem.log = disk.log
    /\ run[p].mem.serial = IF run[p].pc = "writing" THEN disk.serial + 1 ELSE disk.serial

PremiseStands ==
  \A p \in Procs : run[p].pc \in {"holding", "writing"} /\ ~run[p].wrote =>
    run[p].premise \in {Unplanned, disk}

LockInv ==
  /\ LockTypeOK
  /\ HolderIsAlone
  /\ SerialCountsWrites
  /\ SeenIsGone
  /\ MemoryIsDisk
  /\ PremiseStands

USE StateLockAssumption

-----------------------------------------------------------------------------
LEMMA LockInvInit == LockInit => LockInv
  BY DEF LockInit, LockInv, LockTypeOK, HolderIsAlone, SerialCountsWrites, SeenIsGone,
         MemoryIsDisk, PremiseStands, Runs, States, NoState, Unplanned, Off, Inside

(***************************************************************************)
(* A step of one process that leaves the files alone and does not enter    *)
(* keeps the invariant, if what it knows of the disk stays true.           *)
(***************************************************************************)
LEMMA QuietMove ==
  ASSUME LockInv, NEW p \in Procs, NEW r \in Runs, run' = [run EXCEPT ![p] = r],
         UNCHANGED <<lock, disk, saved, seen>>,
         r.pc \in Inside => run[p].pc \in Inside,
         r.pc \in {"holding", "writing"} =>
           /\ r.mem.log = disk.log
           /\ r.mem.serial = IF r.pc = "writing" THEN disk.serial + 1 ELSE disk.serial
           /\ ~r.wrote => r.premise \in {Unplanned, disk}
  PROVE  LockInv'
  <1>1. \A q \in Procs : run'[q] = IF q = p THEN r ELSE run[q]
    BY DEF LockInv, LockTypeOK
  <1>2. LockTypeOK'
    BY DEF LockInv, LockTypeOK
  <1>3. HolderIsAlone'
    BY <1>1 DEF LockInv, HolderIsAlone
  <1>4. SerialCountsWrites'
    BY DEF LockInv, SerialCountsWrites
  <1>5. SeenIsGone'
    BY <1>1 DEF LockInv, LockTypeOK, SeenIsGone, Runs, Inside
  <1>6. MemoryIsDisk'
    BY <1>1 DEF LockInv, MemoryIsDisk
  <1>7. PremiseStands'
    BY <1>1 DEF LockInv, PremiseStands
  <1> QED BY <1>2, <1>3, <1>4, <1>5, <1>6, <1>7 DEF LockInv

LEMMA OffIsRun == Off \in Runs
  BY DEF Off, Runs, States, NoState, Unplanned

LEMMA RunTyped == LockInv => \A p \in Procs : run[p] \in Runs
  BY DEF LockInv, LockTypeOK

LEMMA StampTyped ==
  ASSUME NEW mem \in States
  PROVE  /\ Stamped(mem) \in States
         /\ Stamped(mem).serial = mem.serial + 1 /\ Stamped(mem).log = mem.log
         /\ mem.serial - 1 \in Nat =>
              /\ Restored(mem) \in States
              /\ Restored(mem).serial = mem.serial - 1 /\ Restored(mem).log = mem.log
  BY DEF States, Stamped, Restored

LEMMA StartStep == ASSUME LockInv, NEW p \in Procs, Start(p) PROVE LockInv'
  <1>1. PICK premise \in saved \cup {Unplanned} :
          run' = [run EXCEPT ![p] = [Off EXCEPT !.pc = "ready", !.premise = premise, !.left = Puts]]
    BY DEF Start
  <1> DEFINE r == [Off EXCEPT !.pc = "ready", !.premise = premise, !.left = Puts]
  <1>2. r \in Runs /\ r.pc = "ready"
    BY OffIsRun DEF LockInv, LockTypeOK, Runs, Off
  <1>3. r.pc \notin Inside /\ r.pc \notin {"holding", "writing"}
    BY <1>2 DEF Inside
  <1> HIDE DEF r
  <1>4. run' = [run EXCEPT ![p] = r]
    BY <1>1 DEF r
  <1>5. UNCHANGED <<lock, disk, saved, seen>>
    BY DEF Start
  <1> QED BY <1>2, <1>3, <1>4, <1>5, QuietMove

\* Lock finds the environment free, so nobody is inside or about to break a lock.
LEMMA LockStep == ASSUME LockInv, NEW p \in Procs, Lock(p) PROVE LockInv'
  <1>1. CASE lock # Free
    <2>1. run' = [run EXCEPT ![p] = Off] /\ UNCHANGED <<lock, disk, saved, seen>>
      BY <1>1 DEF Lock
    <2>2. Off.pc \notin Inside /\ Off.pc \notin {"holding", "writing"}
      BY DEF Off, Inside
    <2> QED BY <2>1, <2>2, OffIsRun, QuietMove
  <1>2. CASE lock = Free
    <2>1. /\ lock' = p /\ run' = [run EXCEPT ![p].pc = "locked"]
          /\ UNCHANGED <<disk, saved, seen>>
      BY <1>2 DEF Lock
    <2>2. \A q \in Procs : q # p => run'[q] = run[q]
      BY <2>1 DEF LockInv, LockTypeOK
    <2>3. run'[p].pc = "locked" /\ run' \in [Procs -> Runs]
      BY <2>1, RunTyped DEF LockInv, LockTypeOK, Runs, Inside
    <2>4. \A q \in Procs : run[q].pc \notin Inside
      BY <1>2 DEF LockInv, HolderIsAlone
    <2>5. LockTypeOK'
      BY <2>1, <2>3 DEF LockInv, LockTypeOK
    <2>6. HolderIsAlone'
      BY <2>1, <2>2, <2>4 DEF HolderIsAlone
    <2>7. SerialCountsWrites'
      BY <2>1 DEF LockInv, SerialCountsWrites
    <2>8. SeenIsGone'
      BY <1>2, <2>1 DEF LockInv, SeenIsGone
    <2>9. MemoryIsDisk'
      BY <2>1, <2>2, <2>3 DEF LockInv, MemoryIsDisk
    <2>10. PremiseStands'
      BY <2>1, <2>2, <2>3 DEF LockInv, PremiseStands
    <2> QED BY <2>5, <2>6, <2>7, <2>8, <2>9, <2>10 DEF LockInv
  <1> QED BY <1>1, <1>2

LEMMA GetStep == ASSUME LockInv, NEW p \in Procs, Get(p) PROVE LockInv'
  <1> DEFINE fresh == run[p].premise \in {Unplanned, disk}
             r == [run[p] EXCEPT !.mem = disk, !.pc = IF fresh THEN "holding" ELSE "releasing"]
  <1>1. /\ run[p].pc = "locked" /\ run' = [run EXCEPT ![p] = r]
        /\ UNCHANGED <<lock, disk, saved, seen>>
    BY DEF Get
  <1>2. run[p] \in Runs /\ disk \in States /\ run[p].pc \in Inside
    BY <1>1 DEF LockInv, LockTypeOK, Inside
  <1>3. /\ r \in Runs /\ r.mem = disk /\ r.pc \in {"holding", "releasing"}
        /\ r.pc = "holding" => r.premise \in {Unplanned, disk}
    BY <1>2 DEF Runs, Inside
  <1> HIDE DEF r
  <1> QED BY <1>1, <1>2, <1>3, QuietMove

\* Being inside, a process that holds is named by the lock file.
LEMMA PutBeginStep == ASSUME LockInv, NEW p \in Procs, PutBegin(p) PROVE LockInv'
  <1> DEFINE tried == [run[p] EXCEPT !.left = @ - 1]
             r == [tried EXCEPT !.pc = "writing", !.mem = Stamped(@)]
  <1>1. run[p].pc = "holding" /\ run[p].left > 0 /\ UNCHANGED <<lock, disk, saved, seen>>
    BY DEF PutBegin
  <1>2. run[p] \in Runs /\ disk \in States /\ run[p].pc \in Inside /\ lock = p
    BY <1>1 DEF Inside, LockInv, HolderIsAlone, LockTypeOK
  <1>3. run' = [run EXCEPT ![p] = r]
    BY <1>2 DEF PutBegin
  <1>4. /\ run[p].mem.log = disk.log /\ run[p].mem.serial = disk.serial
        /\ ~run[p].wrote => run[p].premise \in {Unplanned, disk}
    BY <1>1 DEF LockInv, MemoryIsDisk, PremiseStands
  <1>5. run[p].mem \in States
    BY <1>2 DEF Runs, States
  <1>6. /\ Stamped(run[p].mem) \in States
        /\ Stamped(run[p].mem).serial = disk.serial + 1
        /\ Stamped(run[p].mem).log = disk.log
    BY <1>4, <1>5, StampTyped
  <1>7. /\ r \in Runs /\ r.pc = "writing" /\ r.mem = Stamped(run[p].mem)
        /\ r.wrote = run[p].wrote /\ r.premise = run[p].premise
    <2>1. tried \in Runs /\ tried.mem = run[p].mem /\ tried.wrote = run[p].wrote
          /\ tried.premise = run[p].premise
      BY <1>1, <1>2 DEF Runs
    <2> HIDE DEF tried
    <2> QED BY <1>6, <2>1 DEF Runs, Inside
  <1> HIDE DEF r
  <1> QED BY <1>1, <1>2, <1>3, <1>4, <1>6, <1>7, QuietMove

\* The writer's memory is the disk plus its stamp, so the write adds one to each.
LEMMA PutCommitStep == ASSUME LockInv, NEW p \in Procs, PutCommit(p) PROVE LockInv'
  <1> DEFINE mem == [run[p].mem EXCEPT !.log = Append(@, p)]
             r == [run[p] EXCEPT !.pc = "holding", !.mem = mem, !.wrote = TRUE]
  <1>1. /\ run[p].pc = "writing" /\ disk' = mem /\ run' = [run EXCEPT ![p] = r]
        /\ UNCHANGED <<lock, saved, seen>>
    BY DEF PutCommit
  <1>2. run[p] \in Runs /\ run[p].pc \in Inside /\ lock = p
    BY <1>1 DEF Inside, LockInv, HolderIsAlone, LockTypeOK
  <1>3. run[p].mem \in States /\ mem \in States
    <2>1. run[p].mem \in States
      BY <1>2 DEF Runs
    <2>2. Append(run[p].mem.log, p) \in Seq(Procs)
      BY <2>1 DEF States
    <2> QED BY <2>1, <2>2 DEF States
  <1>4. mem.serial = disk.serial + 1 /\ mem.log = Append(disk.log, p)
    BY <1>1, <1>3 DEF LockInv, MemoryIsDisk, States
  <1>5. r \in Runs /\ r.pc = "holding" /\ r.mem = mem /\ r.wrote
    BY <1>2, <1>3 DEF Runs, Inside
  <1> HIDE DEF r, mem
  <1>6. \A q \in Procs : run'[q] = IF q = p THEN r ELSE run[q]
    BY <1>1 DEF LockInv, LockTypeOK
  <1>7. \A q \in Procs : q # p => run[q].pc \notin Inside
    BY <1>2 DEF LockInv, HolderIsAlone
  <1>8. LockTypeOK'
    BY <1>1, <1>3, <1>5 DEF LockInv, LockTypeOK
  <1>9. HolderIsAlone'
    BY <1>1, <1>2, <1>6, <1>7 DEF HolderIsAlone
  <1>10. SerialCountsWrites'
    <2>1. disk.serial = Len(disk.log) /\ disk.log \in Seq(Procs)
      BY DEF LockInv, SerialCountsWrites, LockTypeOK, States
    <2> QED BY <1>1, <1>4, <2>1 DEF SerialCountsWrites
  <1>11. SeenIsGone'
    BY <1>1, <1>2, <1>6 DEF LockInv, LockTypeOK, SeenIsGone, Inside
  <1>12. MemoryIsDisk'
    BY <1>1, <1>5, <1>6, <1>7 DEF MemoryIsDisk, Inside
  <1>13. PremiseStands'
    BY <1>5, <1>6, <1>7 DEF PremiseStands, Inside
  <1> QED BY <1>8, <1>9, <1>10, <1>11, <1>12, <1>13 DEF LockInv

LEMMA PutFailStep == ASSUME LockInv, NEW p \in Procs, PutFail(p) PROVE LockInv'
  <1> DEFINE r == [run[p] EXCEPT !.pc = "holding", !.mem = Restored(@)]
  <1>1. /\ run[p].pc = "writing" /\ run' = [run EXCEPT ![p] = r]
        /\ UNCHANGED <<lock, disk, saved, seen>>
    BY DEF PutFail
  <1>2. run[p] \in Runs /\ disk \in States /\ run[p].pc \in Inside
    BY <1>1 DEF LockInv, LockTypeOK, Inside
  <1>3. /\ run[p].mem.log = disk.log /\ run[p].mem.serial = disk.serial + 1
        /\ ~run[p].wrote => run[p].premise \in {Unplanned, disk}
    BY <1>1 DEF LockInv, MemoryIsDisk, PremiseStands
  <1>4. /\ run[p].mem \in States /\ run[p].mem.serial - 1 \in Nat
        /\ run[p].mem.serial - 1 = disk.serial
    <2>1. run[p].mem \in States
      BY <1>2 DEF Runs
    <2>2. disk.serial \in Nat
      BY <1>2 DEF States
    <2> QED BY <1>3, <2>1, <2>2
  <1>5. /\ Restored(run[p].mem) \in States
        /\ Restored(run[p].mem).serial = disk.serial
        /\ Restored(run[p].mem).log = disk.log
    BY <1>3, <1>4, StampTyped
  <1>6. /\ r \in Runs /\ r.pc = "holding" /\ r.mem = Restored(run[p].mem)
        /\ r.wrote = run[p].wrote /\ r.premise = run[p].premise
    BY <1>2, <1>5 DEF Runs, Inside
  <1> HIDE DEF r
  <1> QED BY <1>1, <1>2, <1>3, <1>5, <1>6, QuietMove

LEMMA FinishStep == ASSUME LockInv, NEW p \in Procs, Finish(p) PROVE LockInv'
  <1> DEFINE r == [run[p] EXCEPT !.pc = "releasing"]
  <1>1. r \in Runs /\ r.pc = "releasing"
    BY RunTyped DEF Runs, Inside
  <1>2. run' = [run EXCEPT ![p] = r]
    BY DEF Finish
  <1>3. run[p].pc \in Inside /\ UNCHANGED <<lock, disk, saved, seen>>
    BY DEF Finish, Inside
  <1> HIDE DEF r
  <1> QED BY <1>1, <1>2, <1>3, QuietMove

LEMMA UnlockCheckStep == ASSUME LockInv, NEW p \in Procs, UnlockCheck(p) PROVE LockInv'
  <1> DEFINE r == [run[p] EXCEPT !.pc = "removing"]
  <1>1. run[p].pc \in Inside /\ UNCHANGED <<lock, disk, saved, seen>>
    BY DEF UnlockCheck, Inside
  <1>2. lock = p
    BY <1>1 DEF LockInv, HolderIsAlone
  <1>3. run' = [run EXCEPT ![p] = r]
    BY <1>2 DEF UnlockCheck
  <1>4. r \in Runs /\ r.pc = "removing"
    BY RunTyped DEF Runs, Inside
  <1> HIDE DEF r
  <1> QED BY <1>1, <1>3, <1>4, QuietMove

\* The lock removed is the process's own: nobody else is inside, nor has seen it stale.
LEMMA UnlockRemoveStep == ASSUME LockInv, NEW p \in Procs, UnlockRemove(p) PROVE LockInv'
  <1>1. /\ run[p].pc = "removing" /\ lock' = Free
        /\ run' = [run EXCEPT ![p] = Off] /\ UNCHANGED <<disk, saved, seen>>
    BY DEF UnlockRemove
  <1>2. lock = p
    BY <1>1 DEF LockInv, HolderIsAlone, Inside
  <1>3. \A q \in Procs : run'[q] = IF q = p THEN Off ELSE run[q]
    BY <1>1 DEF LockInv, LockTypeOK
  <1>4. Off.pc = "off"
    BY DEF Off
  <1>5. \A q \in Procs : run'[q].pc \notin Inside
    BY <1>2, <1>3, <1>4 DEF LockInv, HolderIsAlone, Inside
  <1>6. LockTypeOK'
    BY <1>1, OffIsRun DEF LockInv, LockTypeOK
  <1>7. HolderIsAlone'
    BY <1>5 DEF HolderIsAlone
  <1>8. SerialCountsWrites'
    BY <1>1 DEF LockInv, SerialCountsWrites
  <1>9. SeenIsGone'
    BY <1>1, <1>2 DEF LockInv, LockTypeOK, SeenIsGone
  <1>10. MemoryIsDisk' /\ PremiseStands'
    BY <1>5 DEF MemoryIsDisk, PremiseStands, Inside
  <1> QED BY <1>6, <1>7, <1>8, <1>9, <1>10 DEF LockInv

LEMMA CrashStep == ASSUME LockInv, NEW p \in Procs, Crash(p) PROVE LockInv'
  <1>1. run' = [run EXCEPT ![p] = Off] /\ UNCHANGED <<lock, disk, saved, seen>>
    BY DEF Crash
  <1>2. Off.pc \notin Inside /\ Off.pc \notin {"holding", "writing"}
    BY DEF Off, Inside
  <1> QED BY <1>1, <1>2, OffIsRun, QuietMove

\* Only a process that is gone is looked at, and it stays outside while its lock is there.
LEMMA InspectStep ==
  ASSUME SafeUnlocking, LockInv, NEW u \in Unlockers, Inspect(u) PROVE LockInv'
  <1>1. /\ run[lock].pc = "off" /\ seen' = [seen EXCEPT ![u] = lock] /\ lock \in Procs
        /\ UNCHANGED <<lock, disk, saved, run>>
    BY DEF Inspect, SafeUnlocking, LockInv, LockTypeOK
  <1>2. LockTypeOK'
    BY <1>1 DEF LockInv, LockTypeOK
  <1>3. SeenIsGone'
    BY <1>1 DEF LockInv, LockTypeOK, SeenIsGone
  <1>4. HolderIsAlone' /\ SerialCountsWrites' /\ MemoryIsDisk' /\ PremiseStands'
    BY <1>1 DEF LockInv, HolderIsAlone, SerialCountsWrites, MemoryIsDisk, PremiseStands
  <1> QED BY <1>2, <1>3, <1>4 DEF LockInv

\* The lock broken is the one looked at, its process is outside, and no one else is at it.
LEMMA ForceUnlockStep ==
  ASSUME SafeUnlocking, LockInv, NEW u \in Unlockers, ForceUnlock(u) PROVE LockInv'
  <1>1. /\ seen[u] # Free /\ lock' = Free /\ seen' = [seen EXCEPT ![u] = Free]
        /\ UNCHANGED <<disk, saved, run>>
    BY DEF ForceUnlock
  <1>2. lock = seen[u] /\ run[lock].pc \in {"off", "ready"}
    BY <1>1 DEF LockInv, SeenIsGone
  <1>3. \A q \in Procs : run[q].pc \notin Inside
    BY <1>2 DEF LockInv, HolderIsAlone, Inside
  <1>4. LockTypeOK'
    BY <1>1 DEF LockInv, LockTypeOK
  <1>5. SeenIsGone'
    BY <1>1 DEF SafeUnlocking, LockInv, LockTypeOK, SeenIsGone
  <1>6. HolderIsAlone'
    BY <1>1, <1>3 DEF HolderIsAlone
  <1>7. SerialCountsWrites' /\ MemoryIsDisk' /\ PremiseStands'
    BY <1>1 DEF LockInv, SerialCountsWrites, MemoryIsDisk, PremiseStands
  <1> QED BY <1>4, <1>5, <1>6, <1>7 DEF LockInv

LEMMA SavePlanStep == ASSUME LockInv, SavePlan PROVE LockInv'
  <1>1. saved' = saved \cup {disk} /\ UNCHANGED <<lock, disk, run, seen>>
    BY DEF SavePlan
  <1>2. LockTypeOK'
    BY <1>1 DEF LockInv, LockTypeOK
  <1> QED BY <1>1, <1>2 DEF LockInv, HolderIsAlone, SerialCountsWrites, SeenIsGone,
                            MemoryIsDisk, PremiseStands

LEMMA LockInvStep == SafeUnlocking /\ LockInv /\ [LockNext]_lockVars => LockInv'
  <1> SUFFICES ASSUME SafeUnlocking, LockInv, [LockNext]_lockVars PROVE LockInv'
    OBVIOUS
  <1>1. CASE LockNext
    BY <1>1, StartStep, LockStep, GetStep, PutBeginStep, PutCommitStep, PutFailStep, FinishStep,
       UnlockCheckStep, UnlockRemoveStep, CrashStep, InspectStep, ForceUnlockStep, SavePlanStep
       DEF LockNext, Working
  <1>2. CASE UNCHANGED lockVars
    BY <1>2 DEF lockVars, LockInv, LockTypeOK, HolderIsAlone, SerialCountsWrites, SeenIsGone,
                MemoryIsDisk, PremiseStands
  <1> QED BY <1>1, <1>2

\* The inductive invariant holds in every reachable state.
THEOREM LockInvariant == SafeUnlocking => (LockSpec => []LockInv)
  <1>1. SafeUnlocking /\ LockInv /\ [LockNext]_lockVars => LockInv'
    BY LockInvStep
  <1>2. SafeUnlocking => SafeUnlocking'
    BY DEF SafeUnlocking
  <1> QED BY <1>1, <1>2, LockInvInit, PTL DEF LockSpec

(***************************************************************************)
(* HolderIsAlone and SerialCountsWrites: one process inside at a time, the *)
(* one the lock file names (lock.go:20-93), and a serial that counts the   *)
(* writes (local.go:63-120).                                               *)
(***************************************************************************)
THEOREM LockSafety ==
  SafeUnlocking => (LockSpec => [](LockTypeOK /\ HolderIsAlone /\ SerialCountsWrites))
  <1>1. LockInv => LockTypeOK /\ HolderIsAlone /\ SerialCountsWrites
    BY DEF LockInv
  <1> QED BY <1>1, LockInvariant, PTL

(***************************************************************************)
(* SavedPlanOnItsPremise: the first write of a saved plan lands on the     *)
(* state the plan was made for (apply_saved.go:123-140).                   *)
(***************************************************************************)
THEOREM SavedPlanSafety == SafeUnlocking => (LockSpec => SavedPlanOnItsPremise)
  <1> DEFINE A == \A p \in Procs :
                    PutCommit(p) /\ ~run[p].wrote => run[p].premise \in {Unplanned, disk}
  <1>1. LockInv => A
    BY DEF LockInv, PremiseStands, PutCommit
  <1>2. LockInv /\ [LockNext]_lockVars => [A]_lockVars
    BY <1>1
  <1> QED BY <1>2, LockInvariant, PTL DEF LockSpec, SavedPlanOnItsPremise

(***************************************************************************)
(* The implementation of the ledger: entering is taking ownership, leaving *)
(* or dying inside gives it up, a rename is a write, and the rest changes  *)
(* neither the owner nor the history.                                      *)
(***************************************************************************)
LEMMA OwnerInside ==
  ASSUME LockInv, NEW p \in Procs, run[p].pc \in Inside
  PROVE  Owner = p
  BY DEF LockInv, HolderIsAlone, Owner

LEMMA EntersFree ==
  ASSUME LockInv, [LockNext]_lockVars, NEW q \in Procs,
         run[q].pc \notin Inside, run'[q].pc \in Inside
  PROVE  lock = Free
  <1>1. ASSUME NEW p \in Procs, Start(p) PROVE FALSE
    BY <1>1, OffIsRun DEF Start, LockInv, LockTypeOK, Off, Inside
  <1>2. ASSUME NEW p \in Procs, Lock(p) PROVE lock = Free
    BY <1>2 DEF Lock, LockInv, LockTypeOK, Off, Inside
  <1>3. ASSUME NEW p \in Procs,
               Get(p) \/ PutBegin(p) \/ PutCommit(p) \/ PutFail(p) \/ Finish(p)
        PROVE  FALSE
    <2>1. run[p].pc \in Inside
      BY <1>3 DEF Get, PutBegin, PutCommit, PutFail, Finish, Inside
    <2>2. \A o \in Procs : o # p => run'[o] = run[o]
      BY <1>3 DEF Get, PutBegin, PutCommit, PutFail, Finish, LockInv, LockTypeOK
    <2> QED BY <2>1, <2>2
  <1>4. ASSUME NEW p \in Procs, UnlockCheck(p) \/ UnlockRemove(p) \/ Crash(p)
        PROVE  FALSE
    <2>1. q = p => run[p].pc \in Inside \/ run'[p] = Off
      BY <1>4 DEF UnlockCheck, UnlockRemove, Crash, LockInv, LockTypeOK, Inside
    <2>2. \A o \in Procs : o # p => run'[o] = run[o]
      BY <1>4 DEF UnlockCheck, UnlockRemove, Crash, LockInv, LockTypeOK
    <2> QED BY <2>1, <2>2 DEF Off, Inside
  <1>5. ASSUME NEW u \in Unlockers, Inspect(u) \/ ForceUnlock(u) PROVE FALSE
    BY <1>5 DEF Inspect, ForceUnlock
  <1>6. ~SavePlan /\ ~UNCHANGED lockVars
    BY DEF SavePlan, lockVars
  <1> QED BY <1>1, <1>2, <1>3, <1>4, <1>5, <1>6 DEF LockNext, Working

LEMMA LedgerStep ==
  ASSUME SafeUnlocking, LockInv, LockInv', [LockNext]_lockVars
  PROVE  [LedgerOf!LedgerNext]_(LedgerOf!ledgerVars)
  <1> USE DEF LedgerOf!LedgerNext, LedgerOf!ledgerVars
  <1>1. CASE disk'.log = disk.log /\ Owner' = Owner
    BY <1>1
  <1>2. ASSUME NEW p \in Procs, disk'.log = disk.log, Owner = Free, Owner' = p
        PROVE  LedgerOf!LedgerNext
    BY <1>2 DEF LedgerOf!Acquire
  <1>3. ASSUME NEW p \in Procs, disk'.log = disk.log, Owner = p, Owner' = Free
        PROVE  LedgerOf!LedgerNext
    BY <1>3 DEF LedgerOf!Release
  <1>4. ASSUME NEW p \in Procs, PutCommit(p)
        PROVE  LedgerOf!LedgerNext
    <2>1. run[p].pc = "writing" /\ lock' = lock
      BY <1>4 DEF PutCommit
    <2>2. run[p].pc \in Inside
      BY <2>1 DEF Inside
    <2>3. run' = [run EXCEPT ![p] = [@ EXCEPT !.pc = "holding", !.mem = disk', !.wrote = TRUE]]
      BY <1>4 DEF PutCommit
    <2>4. run'[p].pc \in Inside
      BY <2>3 DEF LockInv, LockTypeOK, Runs, Inside
    <2>5. Owner = p /\ Owner' = p
      BY <2>1, <2>2, <2>4, OwnerInside DEF LockInv, HolderIsAlone, Owner
    <2>6. disk'.log = Append(run[p].mem.log, p)
      BY <1>4 DEF PutCommit, LockInv, LockTypeOK, Runs, States
    <2>7. run[p].mem.log = disk.log
      BY <2>1 DEF LockInv, MemoryIsDisk
    <2> QED BY <2>5, <2>6, <2>7 DEF LedgerOf!Write
  <1>5. Owner \in Procs \cup {Free} /\ Owner' \in Procs \cup {Free}
    BY DEF Owner
  <1>6. CASE disk' = disk
    <2>1. Owner = Owner' \/ Owner = Free \/ Owner' = Free
      <3>1. ASSUME NEW p \in Procs, Owner = p, Owner' # p PROVE Owner' = Free
        <4>1. lock = p /\ run[p].pc \in Inside
          BY <3>1 DEF Owner
        <4>2. ASSUME NEW q \in Procs, Owner' = q PROVE FALSE
          <5>1. q # p /\ q # Free /\ lock' = q /\ run'[q].pc \in Inside
            BY <3>1, <4>2 DEF Owner
          <5>2. run[q].pc \notin Inside
            BY <4>1, <5>1 DEF LockInv, HolderIsAlone
          <5> QED BY <4>1, <5>1, <5>2, EntersFree
        <4> QED BY <1>5, <4>2
      <3> QED BY <1>5, <3>1
    <2> QED BY <1>1, <1>2, <1>3, <1>5, <1>6, <2>1
  <1>7. disk' = disk \/ \E p \in Procs : PutCommit(p)
    BY DEF LockNext, Working, lockVars, Start, Lock, Get, PutBegin, PutFail, Finish, UnlockCheck,
           UnlockRemove, Crash, Inspect, ForceUnlock, SavePlan
  <1> QED BY <1>4, <1>6, <1>7

(***************************************************************************)
(* ImplementsLedger: no write is lost and every write is made on top of    *)
(* the last by the run that owns the environment (local.go:51-62).         *)
(***************************************************************************)
THEOREM LockRefinesLedger == SafeUnlocking => (LockSpec => ImplementsLedger)
  <1>1. LockInit => LedgerOf!LedgerInit
    BY DEF LockInit, LedgerOf!LedgerInit, Owner, NoState
  <1>2. SafeUnlocking /\ LockInv /\ LockInv' /\ [LockNext]_lockVars
          => [LedgerOf!LedgerNext]_(LedgerOf!ledgerVars)
    BY LedgerStep
  <1>3. SafeUnlocking => SafeUnlocking'
    BY DEF SafeUnlocking
  <1> QED BY <1>1, <1>2, <1>3, LockInvariant, PTL
          DEF LockSpec, ImplementsLedger, LedgerOf!LedgerSpec
=============================================================================
