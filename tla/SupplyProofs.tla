---------------------------- MODULE SupplyProofs ----------------------------
(***************************************************************************)
(* What a project takes from elsewhere, for any number of commands, pins,  *)
(* files, shells and repositories: a module pinned to a commit is read     *)
(* whole and as that commit, a recorded pin does not move, a lock file     *)
(* vouches for what it names, and only what was approved is run.           *)
(***************************************************************************)
EXTENDS ModuleCache, PluginInstall, FiniteSetTheorems, SequenceTheorems,
        NaturalsInduction, WellFoundedInduction, TLAPS

LEMMA TailTyped ==
  ASSUME NEW S, NEW q \in Seq(S), q # <<>>, Len(q) # 1 PROVE Tail(q) \in Seq(S) \ {<<>>}
  <1>1. Tail(q) \in Seq(S) /\ Len(Tail(q)) = Len(q) - 1 /\ Len(q) \in Nat
    BY HeadTailProperties, LenProperties
  <1>2. Len(Tail(q)) # 0
    BY <1>1
  <1> QED BY <1>1, <1>2, EmptySeq

LEMMA OneElement == ASSUME NEW S, NEW x \in S PROVE <<x>> \in Seq(S) /\ <<>> \in Seq(S)
  OBVIOUS

LEMMA OneIsThere == ASSUME NEW S, Cardinality(S) = 1 PROVE S # {}
  BY FS_EmptySet

\* A set of naturals that is not empty has a least element.
LEMMA LeastNat ==
  ASSUME NEW S \in SUBSET Nat, S # {}
  PROVE  \E n \in S : \A m \in S : n <= m
  <1>1. PICK x \in S : \A y \in S : ~(<<y, x>> \in OpToRel(<, Nat))
    BY NatLessThanWellFounded, WFMin
  <1>2. \A y \in S : ~(y < x)
    BY <1>1 DEF OpToRel
  <1> QED BY <1>2

USE CacheAssumption

-----------------------------------------------------------------------------
(***************************************************************************)
(* The module cache.  A command holds its pin's lock from linking it to    *)
(* giving it back; under the lock of a pin that names a commit, whoever    *)
(* fetches found nothing there, and whoever reads found everything.        *)
(***************************************************************************)
Places == {"idle", "resolve", "lock", "again", "fetch", "remove", "rename",
           "release", "releaseFailed", "read", "compare", "record"}
UnderLock == {"again", "fetch", "remove", "rename", "release", "releaseFailed"}

CacheTypeOK ==
  /\ remote \in [Pins -> Commits]
  /\ tree \in [Pins -> SUBSET ((Files \cup {Marker}) \X Commits)]
  /\ fetchLock \in [Pins -> Compiles \cup {Absent, "gone"}]
  /\ recorded \in [Pins -> Commits \cup {Absent}]
  /\ at \in [Compiles -> Places]
  /\ pin \in [Compiles -> DOMAIN Config]
  /\ got \in [Compiles -> [Pins -> Commits \cup {Absent}]]
  /\ torn \in [Compiles -> SUBSET Pins]
  /\ crossed \subseteq Compiles

\* Two commands are never both between the lock and the release of one pin.
FetchersExclude == \A c \in Compiles : at[c] \in UnderLock => fetchLock[Here(c)] = c

\* A checkout of a commit is there whole or not at all.
CommitsAreWhole == \A p \in Pins \ Tags : tree[p] = {} \/ tree[p] = Whole(remote[p])

CommitsInHand ==
  \A c \in Compiles : Here(c) \notin Tags =>
    /\ at[c] \in {"fetch", "remove", "rename"} => tree[Here(c)] = {}
    /\ at[c] \in {"remove", "rename"} => got[c][Here(c)] = remote[Here(c)]
    /\ at[c] \in {"release", "read"} =>
         got[c][Here(c)] = remote[Here(c)] /\ tree[Here(c)] = Whole(remote[Here(c)])

\* A command that fetched or found a checkout knows of which commit.
ResolvedInHand ==
  \A c \in Compiles : at[c] \in {"remove", "rename", "release", "read"} =>
    got[c][Here(c)] \in Commits

\* What a command is about to record agrees with what is recorded, unless another
\* one has recorded since it compared.
ComparedHolds ==
  \A c \in Compiles \ crossed : at[c] = "record" =>
    \A p \in Pins : recorded[p] \in {Absent, got[c][p]}

CacheInv ==
  /\ CacheTypeOK
  /\ FetchersExclude
  /\ CommitsAreWhole
  /\ CommitsInHand
  /\ HashPinsReadWhole
  /\ ResolvedInHand
  /\ ComparedHolds

LEMMA HereIsPin == ASSUME CacheTypeOK, NEW c \in Compiles PROVE Here(c) \in Pins
  BY DEF CacheTypeOK, Here, Pins

\* The marker of a whole checkout names its commit, and no checkout has none.
LEMMA MarkerOfWhole ==
  ASSUME NEW p \in Pins, NEW k \in Commits
  PROVE  /\ tree[p] = Whole(k) => MarkerOf(p) = k
         /\ tree[p] = {} => MarkerOf(p) = Absent
  <1>1. ASSUME tree[p] = Whole(k) PROVE MarkerOf(p) = k
    <2>1. <<Marker, k>> \in tree[p] /\ \A e \in tree[p] : e[1] = Marker => e[2] = k
      BY <1>1 DEF Whole
    <2>2. \E e \in tree[p] : e[1] = Marker
      BY <2>1
    <2> QED BY <2>1, <2>2 DEF MarkerOf
  <1>2. tree[p] = {} => MarkerOf(p) = Absent
    BY DEF MarkerOf
  <1> QED BY <1>1, <1>2

-----------------------------------------------------------------------------
LEMMA CacheInvInit == CacheInit => CacheInv
  <1> SUFFICES ASSUME CacheInit PROVE CacheInv
    OBVIOUS
  <1>1. 1 \in DOMAIN Config
    OBVIOUS
  <1>2. CacheTypeOK
    BY <1>1 DEF CacheInit, CacheTypeOK, Places
  <1> QED BY <1>2 DEF CacheInit, CacheInv, CacheTypeOK, FetchersExclude, UnderLock, CommitsAreWhole,
                     CommitsInHand, HashPinsReadWhole, ComparedHolds, ResolvedInHand

LEMMA CompileKeeps == ASSUME CacheInv, NEW c \in Compiles, Compile(c) PROVE CacheInv'
  <1>1. 1 \in DOMAIN Config
    OBVIOUS
  <1>2. CacheTypeOK'
    BY <1>1 DEF CacheInv, CacheTypeOK, Compile, Go, Places, files
  <1>3. \A d \in Compiles : d # c => at'[d] = at[d] /\ pin'[d] = pin[d] /\ got'[d] = got[d] /\ torn'[d] = torn[d]
    BY DEF CacheInv, CacheTypeOK, Compile, Go
  <1>4. at'[c] = "resolve" /\ torn'[c] = {} /\ UNCHANGED files /\ crossed' = crossed \ {c}
    BY DEF CacheInv, CacheTypeOK, Compile, Go
  <1>5. FetchersExclude'
    BY <1>3, <1>4 DEF CacheInv, FetchersExclude, UnderLock, Here, files
  <1>6. CommitsAreWhole' 
    BY <1>4 DEF CacheInv, CommitsAreWhole, files
  <1>7. CommitsInHand'
    BY <1>3, <1>4 DEF CacheInv, CommitsInHand, Here, files
  <1>8. HashPinsReadWhole'
    BY <1>3, <1>4 DEF CacheInv, HashPinsReadWhole
  <1>9. ComparedHolds'
    BY <1>3, <1>4 DEF CacheInv, ComparedHolds, files
  <1>10. ResolvedInHand'
    BY <1>3, <1>4 DEF CacheInv, ResolvedInHand, Here
  <1> QED BY <1>2, <1>5, <1>6, <1>7, <1>8, <1>9, <1>10 DEF CacheInv

\* A checkout that is found reusable is of one commit; under a pin that names one,
\* it is that one and whole.
LEMMA ReusableIsWhole ==
  ASSUME CacheInv, NEW p \in Pins, NEW reply, Reusable(p, reply)
  PROVE  /\ MarkerOf(p) \in Commits
         /\ p \notin Tags => MarkerOf(p) = remote[p] /\ tree[p] = Whole(remote[p])
  <1>1. \A e \in tree[p] : e[2] \in Commits
    BY DEF CacheInv, CacheTypeOK
  <1>2. MarkerOf(p) \in Commits
    BY <1>1 DEF Reusable, MarkerOf
  <1>3. remote[p] \in Commits
    BY DEF CacheInv, CacheTypeOK
  <1>4. ASSUME p \notin Tags PROVE MarkerOf(p) = remote[p] /\ tree[p] = Whole(remote[p])
    BY <1>3, <1>4, MarkerOfWhole DEF CacheInv, CommitsAreWhole, Reusable
  <1> QED BY <1>2, <1>4

\* One that is not, under a pin that names a commit, is not there.
LEMMA NotReusableIsGone ==
  ASSUME CacheInv, NEW p \in Pins \ Tags, NEW reply, ~Reusable(p, reply)
  PROVE  tree[p] = {}
  <1>1. remote[p] \in Commits
    BY DEF CacheInv, CacheTypeOK
  <1> QED BY <1>1, MarkerOfWhole DEF CacheInv, CommitsAreWhole, Reusable

LEMMA GotTyped ==
  ASSUME CacheTypeOK, NEW c \in Compiles, NEW p \in Pins, NEW k \in Commits
  PROVE  [got EXCEPT ![c][p] = k] \in [Compiles -> [Pins -> Commits \cup {Absent}]]
  BY DEF CacheTypeOK

LEMMA PeekKeeps == ASSUME CacheInv, NEW c \in Compiles, Peek(c) PROVE CacheInv'
  <1>0. PICK reply \in BOOLEAN :
             IF Reusable(Here(c), reply) THEN Resolved(c, MarkerOf(Here(c)), "read")
             ELSE Go(c, "lock") /\ UNCHANGED <<got, read>>
    BY DEF Peek
  <1> USE DEF CacheInv, Peek, Go, Progress
  <1>1. Here(c) \in Pins
    BY HereIsPin
  <1>2. CacheTypeOK'
    <2>2. CASE Reusable(Here(c), reply)
      <3>1. got' \in [Compiles -> [Pins -> Commits \cup {Absent}]]
        <4>1. MarkerOf(Here(c)) \in Commits
          BY <1>1, <2>2, ReusableIsWhole
        <4>2. got' = [got EXCEPT ![c][Here(c)] = MarkerOf(Here(c))]
          BY <1>0, <2>2 DEF Resolved
        <4>3. CacheTypeOK
          OBVIOUS
        <4> HIDE DEF Peek, CacheInv
        <4> QED BY <1>1, <4>1, <4>2, <4>3, GotTyped
      <3>2. at' = [at EXCEPT ![c] = "read"] /\ read' = [read EXCEPT ![c] = {}]
        BY <1>0, <2>2 DEF Resolved
      <3>3. UNCHANGED <<remote, tree, fetchLock, recorded, pin, mayRecord, torn, crossed, budget>>
        OBVIOUS
      <3> HIDE DEF Peek
      <3> QED BY <3>1, <3>2, <3>3 DEF CacheTypeOK, Places
    <2>3. CASE ~Reusable(Here(c), reply)
      BY <1>1, <1>0, <2>3 DEF CacheTypeOK, Places
    <2> QED BY <2>2, <2>3
  <1>3. \A d \in Compiles : d # c => at'[d] = at[d] /\ pin'[d] = pin[d] /\ got'[d] = got[d] /\ torn'[d] = torn[d]
    BY DEF CacheTypeOK, Resolved
  <1>5. FetchersExclude'
    BY <1>1, <1>3 DEF CacheTypeOK, FetchersExclude, UnderLock, Here, Resolved
  <1>6. CommitsAreWhole' 
    BY <1>1 DEF CacheTypeOK, CommitsAreWhole, CommitsInHand
  <1>7. CommitsInHand'
    <2> SUFFICES ASSUME NEW d \in Compiles, Here(d)' \notin Tags
                 PROVE  /\ at'[d] \in {"fetch", "remove", "rename"} => tree'[Here(d)'] = {}
                        /\ at'[d] \in {"remove", "rename"} => got'[d][Here(d)'] = remote'[Here(d)']
                        /\ at'[d] \in {"release", "read"} => /\ got'[d][Here(d)'] = remote'[Here(d)']
                                                            /\ tree'[Here(d)'] = Whole(remote'[Here(d)'])
      BY DEF CommitsInHand, Whole
    <2>1. CASE d = c
      BY <1>1, <2>1, ReusableIsWhole DEF CacheTypeOK, CommitsInHand, Here, Resolved, ResolvedInHand
    <2>2. CASE d # c
      <3>1. Here(d)' = Here(d) /\ Here(d) \in Pins
        BY <1>3, <2>2, HereIsPin DEF Here
      <3> QED BY <1>1, <1>3, <2>2, <3>1 DEF CacheTypeOK, CommitsInHand, FetchersExclude, UnderLock
    <2> QED BY <2>1, <2>2
  <1>8. HashPinsReadWhole'
    BY <1>1, <1>3 DEF CacheTypeOK, HashPinsReadWhole
  <1>9. ComparedHolds'
    BY <1>3 DEF CacheTypeOK, ComparedHolds, Resolved
  <1>10. ResolvedInHand'
    BY <1>1, <1>3, ReusableIsWhole DEF CacheTypeOK, ResolvedInHand, Here, Resolved
  <1> QED BY <1>2, <1>5, <1>6, <1>7, <1>8, <1>9, <1>10

LEMMA LinkLockKeeps == ASSUME CacheInv, NEW c \in Compiles, LinkLock(c) PROVE CacheInv'
  <1> USE DEF CacheInv, LinkLock, Go, Progress
  <1>1. Here(c) \in Pins
    BY HereIsPin
  <1>2. CacheTypeOK'
    BY <1>1 DEF CacheTypeOK, Places, ResolvedInHand
  <1>3. \A d \in Compiles : d # c => at'[d] = at[d] /\ pin'[d] = pin[d] /\ got'[d] = got[d] /\ torn'[d] = torn[d]
    BY DEF CacheTypeOK, Resolved
  <1>5. FetchersExclude'
    BY <1>1, <1>3 DEF CacheTypeOK, FetchersExclude, UnderLock, Here, Resolved
  <1>6. CommitsAreWhole' 
    BY <1>1 DEF CacheTypeOK, CommitsAreWhole, CommitsInHand
  <1>7. CommitsInHand'
    <2> SUFFICES ASSUME NEW d \in Compiles, Here(d)' \notin Tags
                 PROVE  /\ at'[d] \in {"fetch", "remove", "rename"} => tree'[Here(d)'] = {}
                        /\ at'[d] \in {"remove", "rename"} => got'[d][Here(d)'] = remote'[Here(d)']
                        /\ at'[d] \in {"release", "read"} => /\ got'[d][Here(d)'] = remote'[Here(d)']
                                                            /\ tree'[Here(d)'] = Whole(remote'[Here(d)'])
      BY DEF CommitsInHand, Whole
    <2>1. CASE d = c
      BY <1>1, <2>1 DEF CacheTypeOK, CommitsInHand, Here, Resolved, ResolvedInHand
    <2>2. CASE d # c
      <3>1. Here(d)' = Here(d) /\ Here(d) \in Pins
        BY <1>3, <2>2, HereIsPin DEF Here
      <3> QED BY <1>1, <1>3, <2>2, <3>1 DEF CacheTypeOK, CommitsInHand, FetchersExclude, UnderLock
    <2> QED BY <2>1, <2>2
  <1>8. HashPinsReadWhole'
    BY <1>1, <1>3 DEF CacheTypeOK, HashPinsReadWhole
  <1>9. ComparedHolds'
    BY <1>3 DEF CacheTypeOK, ComparedHolds, Resolved
  <1>10. ResolvedInHand'
    BY <1>1, <1>3 DEF CacheTypeOK, ResolvedInHand, Here, Resolved
  <1> QED BY <1>2, <1>5, <1>6, <1>7, <1>8, <1>9, <1>10

LEMMA GiveUpKeeps == ASSUME CacheInv, NEW c \in Compiles, GiveUp(c) PROVE CacheInv'
  <1> USE DEF CacheInv, GiveUp, Fails, Go, Progress
  <1>1. Here(c) \in Pins
    BY HereIsPin
  <1>2. CacheTypeOK'
    BY <1>1 DEF CacheTypeOK, Places, ResolvedInHand
  <1>3. \A d \in Compiles : d # c => at'[d] = at[d] /\ pin'[d] = pin[d] /\ got'[d] = got[d] /\ torn'[d] = torn[d]
    BY DEF CacheTypeOK, Resolved
  <1>5. FetchersExclude'
    BY <1>1, <1>3 DEF CacheTypeOK, FetchersExclude, UnderLock, Here, Resolved
  <1>6. CommitsAreWhole' 
    BY <1>1 DEF CacheTypeOK, CommitsAreWhole, CommitsInHand
  <1>7. CommitsInHand'
    <2> SUFFICES ASSUME NEW d \in Compiles, Here(d)' \notin Tags
                 PROVE  /\ at'[d] \in {"fetch", "remove", "rename"} => tree'[Here(d)'] = {}
                        /\ at'[d] \in {"remove", "rename"} => got'[d][Here(d)'] = remote'[Here(d)']
                        /\ at'[d] \in {"release", "read"} => /\ got'[d][Here(d)'] = remote'[Here(d)']
                                                            /\ tree'[Here(d)'] = Whole(remote'[Here(d)'])
      BY DEF CommitsInHand, Whole
    <2>1. CASE d = c
      BY <1>1, <2>1 DEF CacheTypeOK, CommitsInHand, Here, Resolved, ResolvedInHand
    <2>2. CASE d # c
      <3>1. Here(d)' = Here(d) /\ Here(d) \in Pins
        BY <1>3, <2>2, HereIsPin DEF Here
      <3> QED BY <1>1, <1>3, <2>2, <3>1 DEF CacheTypeOK, CommitsInHand, FetchersExclude, UnderLock
    <2> QED BY <2>1, <2>2
  <1>8. HashPinsReadWhole'
    BY <1>1, <1>3 DEF CacheTypeOK, HashPinsReadWhole
  <1>9. ComparedHolds'
    BY <1>3 DEF CacheTypeOK, ComparedHolds, Resolved
  <1>10. ResolvedInHand'
    BY <1>1, <1>3 DEF CacheTypeOK, ResolvedInHand, Here, Resolved
  <1> QED BY <1>2, <1>5, <1>6, <1>7, <1>8, <1>9, <1>10

LEMMA LookAgainKeeps == ASSUME CacheInv, NEW c \in Compiles, LookAgain(c) PROVE CacheInv'
  <1>0. PICK reply \in BOOLEAN :
             IF Reusable(Here(c), reply) THEN Resolved(c, MarkerOf(Here(c)), "release")
             ELSE Go(c, "fetch") /\ UNCHANGED <<got, read>>
    BY DEF LookAgain
  <1> USE DEF CacheInv, LookAgain, Go, Progress
  <1>1. Here(c) \in Pins
    BY HereIsPin
  <1>2. CacheTypeOK'
    <2>2. CASE Reusable(Here(c), reply)
      <3>1. got' \in [Compiles -> [Pins -> Commits \cup {Absent}]]
        <4>1. MarkerOf(Here(c)) \in Commits
          BY <1>1, <2>2, ReusableIsWhole
        <4>2. got' = [got EXCEPT ![c][Here(c)] = MarkerOf(Here(c))]
          BY <1>0, <2>2 DEF Resolved
        <4>3. CacheTypeOK
          OBVIOUS
        <4> HIDE DEF LookAgain, CacheInv
        <4> QED BY <1>1, <4>1, <4>2, <4>3, GotTyped
      <3>2. at' = [at EXCEPT ![c] = "release"] /\ read' = [read EXCEPT ![c] = {}]
        BY <1>0, <2>2 DEF Resolved
      <3>3. UNCHANGED <<remote, tree, fetchLock, recorded, pin, mayRecord, torn, crossed, budget>>
        OBVIOUS
      <3> HIDE DEF LookAgain
      <3> QED BY <3>1, <3>2, <3>3 DEF CacheTypeOK, Places
    <2>3. CASE ~Reusable(Here(c), reply)
      BY <1>1, <1>0, <2>3 DEF CacheTypeOK, Places
    <2> QED BY <2>2, <2>3
  <1>3. \A d \in Compiles : d # c => at'[d] = at[d] /\ pin'[d] = pin[d] /\ got'[d] = got[d] /\ torn'[d] = torn[d]
    BY DEF CacheTypeOK, Resolved
  <1>5. FetchersExclude'
    BY <1>1, <1>3 DEF CacheTypeOK, FetchersExclude, UnderLock, Here, Resolved
  <1>6. CommitsAreWhole' 
    BY <1>1 DEF CacheTypeOK, CommitsAreWhole, CommitsInHand
  <1>7. CommitsInHand'
    <2> SUFFICES ASSUME NEW d \in Compiles, Here(d)' \notin Tags
                 PROVE  /\ at'[d] \in {"fetch", "remove", "rename"} => tree'[Here(d)'] = {}
                        /\ at'[d] \in {"remove", "rename"} => got'[d][Here(d)'] = remote'[Here(d)']
                        /\ at'[d] \in {"release", "read"} => /\ got'[d][Here(d)'] = remote'[Here(d)']
                                                            /\ tree'[Here(d)'] = Whole(remote'[Here(d)'])
      BY DEF CommitsInHand, Whole
    <2>1. CASE d = c
      BY <1>1, <2>1, ReusableIsWhole, NotReusableIsGone DEF CacheTypeOK, CommitsInHand, Here, Resolved, ResolvedInHand
    <2>2. CASE d # c
      <3>1. Here(d)' = Here(d) /\ Here(d) \in Pins
        BY <1>3, <2>2, HereIsPin DEF Here
      <3> QED BY <1>1, <1>3, <2>2, <3>1 DEF CacheTypeOK, CommitsInHand, FetchersExclude, UnderLock
    <2> QED BY <2>1, <2>2
  <1>8. HashPinsReadWhole'
    BY <1>1, <1>3 DEF CacheTypeOK, HashPinsReadWhole
  <1>9. ComparedHolds'
    BY <1>3 DEF CacheTypeOK, ComparedHolds, Resolved
  <1>10. ResolvedInHand'
    BY <1>1, <1>3, ReusableIsWhole, NotReusableIsGone DEF CacheTypeOK, ResolvedInHand, Here, Resolved
  <1> QED BY <1>2, <1>5, <1>6, <1>7, <1>8, <1>9, <1>10

LEMMA FetchPinKeeps == ASSUME CacheInv, NEW c \in Compiles, FetchPin(c) PROVE CacheInv'
  <1> USE DEF CacheInv, FetchPin, Resolved, Go, Progress
  <1>1. Here(c) \in Pins
    BY HereIsPin
  <1>2. CacheTypeOK'
    <2>1. remote[Here(c)] \in Commits
      BY <1>1 DEF CacheTypeOK
    <2>2. CASE Resolved(c, remote[Here(c)], "remove")
      <3>1. got' \in [Compiles -> [Pins -> Commits \cup {Absent}]]
        BY <1>1, <2>1, <2>2, GotTyped
      <3> QED BY <2>2, <3>1 DEF CacheTypeOK, Places
    <2>3. CASE Go(c, "releaseFailed") /\ UNCHANGED <<got, read>>
      BY <2>3 DEF CacheTypeOK, Places
    <2> QED BY <2>2, <2>3
  <1>3. \A d \in Compiles : d # c => at'[d] = at[d] /\ pin'[d] = pin[d] /\ got'[d] = got[d] /\ torn'[d] = torn[d]
    BY DEF CacheTypeOK, Resolved
  <1>5. FetchersExclude'
    BY <1>1, <1>3 DEF CacheTypeOK, FetchersExclude, UnderLock, Here, Resolved
  <1>6. CommitsAreWhole' 
    BY <1>1 DEF CacheTypeOK, CommitsAreWhole, CommitsInHand
  <1>7. CommitsInHand'
    <2> SUFFICES ASSUME NEW d \in Compiles, Here(d)' \notin Tags
                 PROVE  /\ at'[d] \in {"fetch", "remove", "rename"} => tree'[Here(d)'] = {}
                        /\ at'[d] \in {"remove", "rename"} => got'[d][Here(d)'] = remote'[Here(d)']
                        /\ at'[d] \in {"release", "read"} => /\ got'[d][Here(d)'] = remote'[Here(d)']
                                                            /\ tree'[Here(d)'] = Whole(remote'[Here(d)'])
      BY DEF CommitsInHand, Whole
    <2>1. CASE d = c
      BY <1>1, <2>1 DEF CacheTypeOK, CommitsInHand, Here, Resolved, ResolvedInHand
    <2>2. CASE d # c
      <3>1. Here(d)' = Here(d) /\ Here(d) \in Pins
        BY <1>3, <2>2, HereIsPin DEF Here
      <3> QED BY <1>1, <1>3, <2>2, <3>1 DEF CacheTypeOK, CommitsInHand, FetchersExclude, UnderLock
    <2> QED BY <2>1, <2>2
  <1>8. HashPinsReadWhole'
    BY <1>1, <1>3 DEF CacheTypeOK, HashPinsReadWhole
  <1>9. ComparedHolds'
    BY <1>3 DEF CacheTypeOK, ComparedHolds, Resolved
  <1>10. ResolvedInHand'
    BY <1>1, <1>3 DEF CacheTypeOK, ResolvedInHand, Here, Resolved
  <1> QED BY <1>2, <1>5, <1>6, <1>7, <1>8, <1>9, <1>10

LEMMA RemoveEntryKeeps == ASSUME CacheInv, NEW c \in Compiles, RemoveEntry(c) PROVE CacheInv'
  <1> USE DEF CacheInv, RemoveEntry, Go, Progress
  <1>1. Here(c) \in Pins
    BY HereIsPin
  <1>2. CacheTypeOK'
    <2>1. tree' \in [Pins -> SUBSET ((Files \cup {Marker}) \X Commits)]
      <3>1. CASE tree[Here(c)] = {}
        BY <3>1 DEF CacheTypeOK
      <3>2. CASE tree[Here(c)] # {}
        <4>1. PICK e \in tree[Here(c)] : tree' = [tree EXCEPT ![Here(c)] = @ \ {e}]
          BY <3>2
        <4>2. tree[Here(c)] \ {e} \in SUBSET ((Files \cup {Marker}) \X Commits)
          BY <1>1 DEF CacheTypeOK
        <4> QED BY <4>1, <4>2 DEF CacheTypeOK
      <3> QED BY <3>1, <3>2
    <2> QED BY <2>1 DEF CacheTypeOK, Places
  <1>3. \A d \in Compiles : d # c => at'[d] = at[d] /\ pin'[d] = pin[d] /\ got'[d] = got[d] /\ torn'[d] = torn[d]
    BY DEF CacheTypeOK, Resolved
  <1>5. FetchersExclude'
    BY <1>1, <1>3 DEF CacheTypeOK, FetchersExclude, UnderLock, Here, Resolved
  <1>6. CommitsAreWhole' 
    BY <1>1 DEF CacheTypeOK, CommitsAreWhole, CommitsInHand
  <1>7. CommitsInHand'
    <2> SUFFICES ASSUME NEW d \in Compiles, Here(d)' \notin Tags
                 PROVE  /\ at'[d] \in {"fetch", "remove", "rename"} => tree'[Here(d)'] = {}
                        /\ at'[d] \in {"remove", "rename"} => got'[d][Here(d)'] = remote'[Here(d)']
                        /\ at'[d] \in {"release", "read"} => /\ got'[d][Here(d)'] = remote'[Here(d)']
                                                            /\ tree'[Here(d)'] = Whole(remote'[Here(d)'])
      BY DEF CommitsInHand, Whole
    <2>1. CASE d = c
      BY <1>1, <2>1 DEF CacheTypeOK, CommitsInHand, Here, Resolved, ResolvedInHand
    <2>2. CASE d # c
      <3>1. Here(d)' = Here(d) /\ Here(d) \in Pins
        BY <1>3, <2>2, HereIsPin DEF Here
      <3> QED BY <1>1, <1>3, <2>2, <3>1 DEF CacheTypeOK, CommitsInHand, FetchersExclude, UnderLock
    <2> QED BY <2>1, <2>2
  <1>8. HashPinsReadWhole'
    BY <1>1, <1>3 DEF CacheTypeOK, HashPinsReadWhole
  <1>9. ComparedHolds'
    BY <1>3 DEF CacheTypeOK, ComparedHolds, Resolved
  <1>10. ResolvedInHand'
    BY <1>1, <1>3 DEF CacheTypeOK, ResolvedInHand, Here, Resolved
  <1> QED BY <1>2, <1>5, <1>6, <1>7, <1>8, <1>9, <1>10

LEMMA PublishKeeps == ASSUME CacheInv, NEW c \in Compiles, Publish(c) PROVE CacheInv'
  <1> USE DEF CacheInv, Publish, Go, Progress
  <1>1. Here(c) \in Pins
    BY HereIsPin
  <1>2. CacheTypeOK'
    <2>1. CASE tree[Here(c)] = {}
      <3>1. Whole(got[c][Here(c)]) \in SUBSET ((Files \cup {Marker}) \X Commits)
        BY DEF ResolvedInHand, Whole
      <3>2. tree' \in [Pins -> SUBSET ((Files \cup {Marker}) \X Commits)]
        BY <2>1, <3>1 DEF CacheTypeOK
      <3> QED BY <2>1, <3>2 DEF CacheTypeOK, Places
    <2>2. CASE tree[Here(c)] # {}
      BY <2>2 DEF CacheTypeOK, Places
    <2> QED BY <2>1, <2>2
  <1>3. \A d \in Compiles : d # c => at'[d] = at[d] /\ pin'[d] = pin[d] /\ got'[d] = got[d] /\ torn'[d] = torn[d]
    BY DEF CacheTypeOK, Resolved
  <1>5. FetchersExclude'
    BY <1>1, <1>3 DEF CacheTypeOK, FetchersExclude, UnderLock, Here, Resolved
  <1>6. CommitsAreWhole' 
    <2>1. CASE tree[Here(c)] = {}
      <3>1. \A p \in Pins : tree'[p] = IF p = Here(c) THEN Whole(got[c][p]) ELSE tree[p]
        BY <1>1, <2>1 DEF CacheTypeOK
      <3>2. Here(c) \notin Tags => got[c][Here(c)] = remote[Here(c)]
        BY DEF CommitsInHand
      <3>3. \A p \in Pins \ Tags : tree'[p] = {} \/ tree'[p] = Whole(remote[p])
        BY <3>1, <3>2 DEF CommitsAreWhole
      <3> QED BY <3>3 DEF CommitsAreWhole, Whole
    <2>2. CASE tree[Here(c)] # {}
      BY <2>2 DEF CommitsAreWhole, Whole
    <2> QED BY <2>1, <2>2
  <1>7. CommitsInHand'
    <2> SUFFICES ASSUME NEW d \in Compiles, Here(d)' \notin Tags
                 PROVE  /\ at'[d] \in {"fetch", "remove", "rename"} => tree'[Here(d)'] = {}
                        /\ at'[d] \in {"remove", "rename"} => got'[d][Here(d)'] = remote'[Here(d)']
                        /\ at'[d] \in {"release", "read"} => /\ got'[d][Here(d)'] = remote'[Here(d)']
                                                            /\ tree'[Here(d)'] = Whole(remote'[Here(d)'])
      BY DEF CommitsInHand, Whole
    <2>1. CASE d = c
      BY <1>1, <2>1 DEF CacheTypeOK, CommitsInHand, Here, Resolved, ResolvedInHand
    <2>2. CASE d # c
      <3>1. Here(d)' = Here(d) /\ Here(d) \in Pins
        BY <1>3, <2>2, HereIsPin DEF Here
      <3> QED BY <1>1, <1>3, <2>2, <3>1 DEF CacheTypeOK, CommitsInHand, FetchersExclude, UnderLock
    <2> QED BY <2>1, <2>2
  <1>8. HashPinsReadWhole'
    BY <1>1, <1>3 DEF CacheTypeOK, HashPinsReadWhole
  <1>9. ComparedHolds'
    BY <1>3 DEF CacheTypeOK, ComparedHolds, Resolved
  <1>10. ResolvedInHand'
    BY <1>1, <1>3 DEF CacheTypeOK, ResolvedInHand, Here, Resolved
  <1> QED BY <1>2, <1>5, <1>6, <1>7, <1>8, <1>9, <1>10

LEMMA ReleaseKeeps == ASSUME CacheInv, NEW c \in Compiles, Release(c) PROVE CacheInv'
  <1> USE DEF CacheInv, Release, Fails, Go, Progress
  <1>1. Here(c) \in Pins
    BY HereIsPin
  <1>2. CacheTypeOK'
    BY <1>1 DEF CacheTypeOK, Places, ResolvedInHand
  <1>3. \A d \in Compiles : d # c => at'[d] = at[d] /\ pin'[d] = pin[d] /\ got'[d] = got[d] /\ torn'[d] = torn[d]
    BY DEF CacheTypeOK, Resolved
  <1>5. FetchersExclude'
    BY <1>1, <1>3 DEF CacheTypeOK, FetchersExclude, UnderLock, Here, Resolved
  <1>6. CommitsAreWhole' 
    BY <1>1 DEF CacheTypeOK, CommitsAreWhole, CommitsInHand
  <1>7. CommitsInHand'
    <2> SUFFICES ASSUME NEW d \in Compiles, Here(d)' \notin Tags
                 PROVE  /\ at'[d] \in {"fetch", "remove", "rename"} => tree'[Here(d)'] = {}
                        /\ at'[d] \in {"remove", "rename"} => got'[d][Here(d)'] = remote'[Here(d)']
                        /\ at'[d] \in {"release", "read"} => /\ got'[d][Here(d)'] = remote'[Here(d)']
                                                            /\ tree'[Here(d)'] = Whole(remote'[Here(d)'])
      BY DEF CommitsInHand, Whole
    <2>1. CASE d = c
      BY <1>1, <2>1 DEF CacheTypeOK, CommitsInHand, Here, Resolved, ResolvedInHand
    <2>2. CASE d # c
      <3>1. Here(d)' = Here(d) /\ Here(d) \in Pins
        BY <1>3, <2>2, HereIsPin DEF Here
      <3> QED BY <1>1, <1>3, <2>2, <3>1 DEF CacheTypeOK, CommitsInHand, FetchersExclude, UnderLock
    <2> QED BY <2>1, <2>2
  <1>8. HashPinsReadWhole'
    BY <1>1, <1>3 DEF CacheTypeOK, HashPinsReadWhole
  <1>9. ComparedHolds'
    BY <1>3 DEF CacheTypeOK, ComparedHolds, Resolved
  <1>10. ResolvedInHand'
    BY <1>1, <1>3 DEF CacheTypeOK, ResolvedInHand, Here, Resolved
  <1> QED BY <1>2, <1>5, <1>6, <1>7, <1>8, <1>9, <1>10

LEMMA ReadFileKeeps == ASSUME CacheInv, NEW c \in Compiles, ReadFile(c) PROVE CacheInv'
  <1> USE DEF CacheInv, ReadFile, Fails, Go, files
  <1>1. Here(c) \in Pins
    BY HereIsPin
  <1>2. CacheTypeOK'
    <2>1. PICK f \in Files \ read[c] :
             /\ \/ torn' = torn \/ torn' = [torn EXCEPT ![c] = @ \cup {Here(c)}]
             /\ \/ Go(c, "idle") /\ UNCHANGED pin
                \/ UNCHANGED <<at, pin>>
                \/ pin[c] < Len(Config) /\ Go(c, "resolve") /\ pin' = [pin EXCEPT ![c] = @ + 1]
                \/ Go(c, "compare") /\ UNCHANGED pin
      OBVIOUS
    <2>2. torn' \in [Compiles -> SUBSET Pins]
      BY <1>1, <2>1 DEF CacheTypeOK
    <2>3. at' \in [Compiles -> Places]
      <3>1. at' = at \/ \E w \in {"idle", "resolve", "compare"} : at' = [at EXCEPT ![c] = w]
        BY <2>1
      <3> QED BY <3>1 DEF CacheTypeOK, Places
    <2>4. pin' \in [Compiles -> DOMAIN Config]
      BY <2>1 DEF CacheTypeOK
    <2> QED BY <2>2, <2>3, <2>4 DEF CacheTypeOK
  <1>3. \A d \in Compiles : d # c => at'[d] = at[d] /\ pin'[d] = pin[d] /\ got'[d] = got[d] /\ torn'[d] = torn[d]
    BY DEF CacheTypeOK, Resolved
  <1>5. FetchersExclude'
    BY <1>1, <1>3 DEF CacheTypeOK, FetchersExclude, UnderLock, Here, Resolved
  <1>6. CommitsAreWhole' 
    BY <1>1 DEF CacheTypeOK, CommitsAreWhole, CommitsInHand
  <1>7. CommitsInHand'
    <2> SUFFICES ASSUME NEW d \in Compiles, Here(d)' \notin Tags
                 PROVE  /\ at'[d] \in {"fetch", "remove", "rename"} => tree'[Here(d)'] = {}
                        /\ at'[d] \in {"remove", "rename"} => got'[d][Here(d)'] = remote'[Here(d)']
                        /\ at'[d] \in {"release", "read"} => /\ got'[d][Here(d)'] = remote'[Here(d)']
                                                            /\ tree'[Here(d)'] = Whole(remote'[Here(d)'])
      BY DEF CommitsInHand, Whole
    <2>1. CASE d = c
      BY <1>1, <2>1 DEF CacheTypeOK, CommitsInHand, Here, Resolved, ResolvedInHand
    <2>2. CASE d # c
      <3>1. Here(d)' = Here(d) /\ Here(d) \in Pins
        BY <1>3, <2>2, HereIsPin DEF Here
      <3> QED BY <1>1, <1>3, <2>2, <3>1 DEF CacheTypeOK, CommitsInHand, FetchersExclude, UnderLock
    <2> QED BY <2>1, <2>2
  <1>8. HashPinsReadWhole'
    <2>1. PICK f \in Files \ read[c] :
             torn' = IF <<f, got[c][Here(c)]>> \in tree[Here(c)] THEN torn
                     ELSE [torn EXCEPT ![c] = @ \cup {Here(c)}]
      OBVIOUS
    <2>2. Here(c) \notin Tags => <<f, got[c][Here(c)]>> \in tree[Here(c)]
      BY DEF CommitsInHand, Whole
    <2> QED BY <1>3, <2>1, <2>2 DEF CacheTypeOK, HashPinsReadWhole
  <1>9. ComparedHolds'
    BY <1>3 DEF CacheTypeOK, ComparedHolds, Resolved
  <1>10. ResolvedInHand'
    BY <1>1, <1>3 DEF CacheTypeOK, ResolvedInHand, Here, Resolved
  <1> QED BY <1>2, <1>5, <1>6, <1>7, <1>8, <1>9, <1>10

LEMMA CompareKeeps == ASSUME CacheInv, NEW c \in Compiles, Compare(c) PROVE CacheInv'
  <1> USE DEF CacheInv, Compare, Fails, Go, files
  <1>1. Here(c) \in Pins
    BY HereIsPin
  <1>2. CacheTypeOK'
    BY <1>1 DEF CacheTypeOK, Places, ResolvedInHand
  <1>3. \A d \in Compiles : d # c => at'[d] = at[d] /\ pin'[d] = pin[d] /\ got'[d] = got[d] /\ torn'[d] = torn[d]
    BY DEF CacheTypeOK, Resolved
  <1>5. FetchersExclude'
    BY <1>1, <1>3 DEF CacheTypeOK, FetchersExclude, UnderLock, Here, Resolved
  <1>6. CommitsAreWhole' 
    BY <1>1 DEF CacheTypeOK, CommitsAreWhole, CommitsInHand
  <1>7. CommitsInHand'
    <2> SUFFICES ASSUME NEW d \in Compiles, Here(d)' \notin Tags
                 PROVE  /\ at'[d] \in {"fetch", "remove", "rename"} => tree'[Here(d)'] = {}
                        /\ at'[d] \in {"remove", "rename"} => got'[d][Here(d)'] = remote'[Here(d)']
                        /\ at'[d] \in {"release", "read"} => /\ got'[d][Here(d)'] = remote'[Here(d)']
                                                            /\ tree'[Here(d)'] = Whole(remote'[Here(d)'])
      BY DEF CommitsInHand, Whole
    <2>1. CASE d = c
      BY <1>1, <2>1 DEF CacheTypeOK, CommitsInHand, Here, Resolved, ResolvedInHand
    <2>2. CASE d # c
      <3>1. Here(d)' = Here(d) /\ Here(d) \in Pins
        BY <1>3, <2>2, HereIsPin DEF Here
      <3> QED BY <1>1, <1>3, <2>2, <3>1 DEF CacheTypeOK, CommitsInHand, FetchersExclude, UnderLock
    <2> QED BY <2>1, <2>2
  <1>8. HashPinsReadWhole'
    BY <1>1, <1>3 DEF CacheTypeOK, HashPinsReadWhole
  <1>9. ComparedHolds'
    BY <1>3 DEF CacheTypeOK, ComparedHolds, Resolved
  <1>10. ResolvedInHand'
    BY <1>1, <1>3 DEF CacheTypeOK, ResolvedInHand, Here, Resolved
  <1> QED BY <1>2, <1>5, <1>6, <1>7, <1>8, <1>9, <1>10

LEMMA RecordPinsKeeps == ASSUME CacheInv, NEW c \in Compiles, RecordPins(c) PROVE CacheInv'
  <1> USE DEF CacheInv, RecordPins, Go
  <1>1. Here(c) \in Pins
    BY HereIsPin
  <1>2. CacheTypeOK'
    BY <1>1 DEF CacheTypeOK, Places, ResolvedInHand
  <1>3. \A d \in Compiles : d # c => at'[d] = at[d] /\ pin'[d] = pin[d] /\ got'[d] = got[d] /\ torn'[d] = torn[d]
    BY DEF CacheTypeOK, Resolved
  <1>5. FetchersExclude'
    BY <1>1, <1>3 DEF CacheTypeOK, FetchersExclude, UnderLock, Here, Resolved
  <1>6. CommitsAreWhole' 
    BY <1>1 DEF CacheTypeOK, CommitsAreWhole, CommitsInHand
  <1>7. CommitsInHand'
    <2> SUFFICES ASSUME NEW d \in Compiles, Here(d)' \notin Tags
                 PROVE  /\ at'[d] \in {"fetch", "remove", "rename"} => tree'[Here(d)'] = {}
                        /\ at'[d] \in {"remove", "rename"} => got'[d][Here(d)'] = remote'[Here(d)']
                        /\ at'[d] \in {"release", "read"} => /\ got'[d][Here(d)'] = remote'[Here(d)']
                                                            /\ tree'[Here(d)'] = Whole(remote'[Here(d)'])
      BY DEF CommitsInHand, Whole
    <2>1. CASE d = c
      BY <1>1, <2>1 DEF CacheTypeOK, CommitsInHand, Here, Resolved, ResolvedInHand
    <2>2. CASE d # c
      <3>1. Here(d)' = Here(d) /\ Here(d) \in Pins
        BY <1>3, <2>2, HereIsPin DEF Here
      <3> QED BY <1>1, <1>3, <2>2, <3>1 DEF CacheTypeOK, CommitsInHand, FetchersExclude, UnderLock
    <2> QED BY <2>1, <2>2
  <1>8. HashPinsReadWhole'
    BY <1>1, <1>3 DEF CacheTypeOK, HashPinsReadWhole
  <1>9. ComparedHolds'
    BY <1>3 DEF CacheTypeOK, ComparedHolds, Resolved
  <1>10. ResolvedInHand'
    BY <1>1, <1>3 DEF CacheTypeOK, ResolvedInHand, Here, Resolved
  <1> QED BY <1>2, <1>5, <1>6, <1>7, <1>8, <1>9, <1>10

LEMMA KillKeeps == ASSUME CacheInv, NEW c \in Compiles, Kill(c) PROVE CacheInv'
  <1> USE DEF CacheInv, Kill, Go, Spend
  <1>1. Here(c) \in Pins
    BY HereIsPin
  <1>2. CacheTypeOK'
    BY <1>1 DEF CacheTypeOK, Places, ResolvedInHand
  <1>3. \A d \in Compiles : d # c => at'[d] = at[d] /\ pin'[d] = pin[d] /\ got'[d] = got[d] /\ torn'[d] = torn[d]
    BY DEF CacheTypeOK, Resolved
  <1>5. FetchersExclude'
    BY <1>1, <1>3 DEF CacheTypeOK, FetchersExclude, UnderLock, Here, Resolved
  <1>6. CommitsAreWhole' 
    BY <1>1 DEF CacheTypeOK, CommitsAreWhole, CommitsInHand
  <1>7. CommitsInHand'
    <2> SUFFICES ASSUME NEW d \in Compiles, Here(d)' \notin Tags
                 PROVE  /\ at'[d] \in {"fetch", "remove", "rename"} => tree'[Here(d)'] = {}
                        /\ at'[d] \in {"remove", "rename"} => got'[d][Here(d)'] = remote'[Here(d)']
                        /\ at'[d] \in {"release", "read"} => /\ got'[d][Here(d)'] = remote'[Here(d)']
                                                            /\ tree'[Here(d)'] = Whole(remote'[Here(d)'])
      BY DEF CommitsInHand, Whole
    <2>1. CASE d = c
      BY <1>1, <2>1 DEF CacheTypeOK, CommitsInHand, Here, Resolved, ResolvedInHand
    <2>2. CASE d # c
      <3>1. Here(d)' = Here(d) /\ Here(d) \in Pins
        BY <1>3, <2>2, HereIsPin DEF Here
      <3> QED BY <1>1, <1>3, <2>2, <3>1 DEF CacheTypeOK, CommitsInHand, FetchersExclude, UnderLock
    <2> QED BY <2>1, <2>2
  <1>8. HashPinsReadWhole'
    BY <1>1, <1>3 DEF CacheTypeOK, HashPinsReadWhole
  <1>9. ComparedHolds'
    BY <1>3 DEF CacheTypeOK, ComparedHolds, Resolved
  <1>10. ResolvedInHand'
    BY <1>1, <1>3 DEF CacheTypeOK, ResolvedInHand, Here, Resolved
  <1> QED BY <1>2, <1>5, <1>6, <1>7, <1>8, <1>9, <1>10

LEMMA BystanderKeeps ==
  ASSUME CacheInv, DeleteStaleLock \/ DeleteRecord \/ MoveTag
  PROVE  CacheInv'
  <1> USE DEF CacheInv
  <1>1. UNCHANGED <<tree, at, pin, got, torn, crossed>>
    BY DEF DeleteStaleLock, DeleteRecord, MoveTag
  <1>2. CacheTypeOK'
    <2>1. CASE DeleteStaleLock
      BY <2>1 DEF CacheTypeOK, DeleteStaleLock
    <2>2. CASE DeleteRecord
      BY <2>2 DEF CacheTypeOK, DeleteRecord
    <2>3. CASE MoveTag
      BY <2>3 DEF CacheTypeOK, MoveTag
    <2> QED BY <2>1, <2>2, <2>3
  <1>3. \A p \in Pins \ Tags : remote'[p] = remote[p]
    BY DEF CacheTypeOK, DeleteStaleLock, DeleteRecord, MoveTag
  <1>4. \A p \in Pins : fetchLock'[p] = fetchLock[p] \/ fetchLock[p] = "gone"
    BY DEF CacheTypeOK, DeleteStaleLock, DeleteRecord, MoveTag
  <1>5. \A p \in Pins : recorded'[p] \in {Absent, recorded[p]}
    BY DEF CacheTypeOK, DeleteStaleLock, DeleteRecord, MoveTag
  <1>6. \A c \in Compiles : Here(c)' = Here(c) /\ Here(c) \in Pins
    BY <1>1, HereIsPin DEF Here
  <1>7. FetchersExclude'
    BY <1>1, <1>4, <1>6 DEF FetchersExclude
  <1>8. CommitsAreWhole'
    BY <1>1, <1>3 DEF CommitsAreWhole, Whole
  <1>9. CommitsInHand'
    BY <1>1, <1>3, <1>6 DEF CommitsInHand, Whole
  <1>10. HashPinsReadWhole' /\ ComparedHolds' /\ ResolvedInHand'
    BY <1>1, <1>5, <1>6 DEF HashPinsReadWhole, ComparedHolds, ResolvedInHand
  <1> QED BY <1>2, <1>7, <1>8, <1>9, <1>10

LEMMA CacheInvNext == CacheInv /\ [CacheNext]_cacheVars => CacheInv'
  <1> SUFFICES ASSUME CacheInv, [CacheNext]_cacheVars PROVE CacheInv'
    OBVIOUS
  <1>1. ASSUME NEW c \in Compiles, CompileStep(c) PROVE CacheInv'
    BY <1>1, PeekKeeps, LinkLockKeeps, GiveUpKeeps, LookAgainKeeps, FetchPinKeeps, RemoveEntryKeeps,
       PublishKeeps, ReleaseKeeps, ReadFileKeeps, CompareKeeps, RecordPinsKeeps DEF CompileStep
  <1>2. CASE UNCHANGED cacheVars
    BY <1>2 DEF cacheVars, CacheInv, CacheTypeOK, FetchersExclude, CommitsAreWhole, CommitsInHand,
                Here, Whole, HashPinsReadWhole, ComparedHolds, ResolvedInHand
  <1> QED BY <1>1, <1>2, CompileKeeps, KillKeeps, BystanderKeeps DEF CacheNext

(***************************************************************************)
(* The inductive invariant of the cache: among its parts, that the fetches *)
(* of one pin exclude each other, over kills and stale locks.              *)
(***************************************************************************)
THEOREM CacheInvariant == CacheSpec => []CacheInv
  <1> QED BY CacheInvInit, CacheInvNext, PTL DEF CacheSpec

(***************************************************************************)
(* cache.go, fetch and lock: a checkout pinned to a commit is read whole.  *)
(***************************************************************************)
THEOREM CommitsReadWhole == CacheSpec => []HashPinsReadWhole
  <1>1. CacheInv => HashPinsReadWhole
    BY DEF CacheInv
  <1> QED BY <1>1, CacheInvariant, PTL

(***************************************************************************)
(* lockfile.go, Check and WriteLockfile: a recorded pin is only replaced   *)
(* by a command that another one overtook.                                 *)
(***************************************************************************)
THEOREM PinsHold == CacheSpec => RecordedPinsHold
  <1> DEFINE Held == \A p \in Pins : recorded[p] # Absent /\ recorded'[p] \notin {Absent, recorded[p]} =>
                       \E c \in crossed : at[c] = "record"
  <1>1. CacheInv /\ [CacheNext]_cacheVars => Held
    <2> SUFFICES ASSUME CacheInv, [CacheNext]_cacheVars, NEW p \in Pins, recorded[p] # Absent,
                        recorded'[p] \notin {Absent, recorded[p]}
                 PROVE  \E c \in crossed : at[c] = "record"
      OBVIOUS
    <2>1. ASSUME NEW c \in Compiles, RecordPins(c) PROVE c \in crossed /\ at[c] = "record"
      BY <2>1 DEF CacheInv, ComparedHolds, RecordPins
    <2>2. (\E c \in Compiles : RecordPins(c)) \/ DeleteRecord
      BY DEF CacheNext, CompileStep, cacheVars, Compile, Peek, LinkLock, GiveUp, LookAgain, FetchPin,
             RemoveEntry, Publish, Release, ReadFile, Compare, Kill, DeleteStaleLock, MoveTag,
             files, Progress
    <2>3. ~DeleteRecord
      BY DEF DeleteRecord, CacheInv, CacheTypeOK
    <2> QED BY <2>1, <2>2, <2>3
  <1>2. CacheInv /\ [CacheNext]_cacheVars => [Held]_cacheVars
    BY <1>1
  <1> QED BY <1>2, CacheInvariant, PTL DEF CacheSpec, RecordedPinsHold

-----------------------------------------------------------------------------
(***************************************************************************)
(* Plugin installation.  From the choice of a release to its record, the   *)
(* release is one that was offered by a source that covers its repository, *)
(* and from the yes on, the source is one that was said yes to; what is on *)
(* disk when it is summed is that release, unless somebody got between.    *)
(***************************************************************************)
Binaries == {None, ByHand} \cup [repo : Repos, version : Nat]
Entries == [version : Nat, source : Sources, sums : [Platforms -> Binaries]]
Lockfiles == [Roles -> Entries \cup {None}]
Offers == [source : Sources, repo : Repos, version : Nat, usable : BOOLEAN]
InstallPlaces == {"entry", "choose", "approve", "fetch", "sum", "record"}
Installs ==
  [at : InstallPlaces, dest : Directories, inProject : BOOLEAN, attended : BOOLEAN,
   roles : Seq(Roles) \ {<<>>}, untrusted : SUBSET Sources, found : SUBSET Offers,
   bare : BOOLEAN, saw : (SUBSET Sources) \cup Lockfiles, sum : Binaries]
Launches == [at : {"exec"}, dir : Directories, role : Roles]

InstallTypeOK ==
  /\ latest \in [Repos -> Nat]
  /\ answers \in [Repos -> Nat]
  /\ approved \subseteq Sources
  /\ consented \subseteq Sources
  /\ disk \in [Directories -> [Roles -> Binaries]]
  /\ lock \in Lockfiles
  /\ shell \in [Shells -> {Idle} \cup Installs \cup Launches]
  /\ stirred \subseteq Roles

Yes == consented \cup {Official}
IsRelease(b, chosen) == b = [repo |-> chosen.repo, version |-> chosen.version]
Vouched(b) == b \in {None, ByHand} \/ \E s \in Yes : Covers(s, b.repo)

OffersSound(c) ==
  shell[c].at \in InstallPlaces =>
    \A f \in shell[c].found : /\ Covers(f.source, f.repo)
                              /\ f.source \in Yes \cup shell[c].untrusted
ChoiceSound(c) ==
  shell[c].at \in {"approve", "fetch", "sum", "record"} =>
    ChosenOf(c) \in shell[c].found /\ ChosenOf(c).source \in Yes
SawConsented(c) == shell[c].at = "approve" => shell[c].saw \subseteq consented
SummedSound(c) ==
  /\ shell[c].at = "sum" => \/ Head(shell[c].roles) \in stirred
                            \/ IsRelease(disk[shell[c].dest][Head(shell[c].roles)], ChosenOf(c))
  /\ shell[c].at = "record" => /\ shell[c].saw \in Lockfiles
                               /\ \/ Head(shell[c].roles) \in stirred
                                  \/ shell[c].sum.version = ChosenOf(c).version
Found1(c) == shell[c].at = "exec" => disk[shell[c].dir][shell[c].role] # None

InHand(c) == OffersSound(c) /\ ChoiceSound(c) /\ SawConsented(c) /\ SummedSound(c) /\ Found1(c)
DiskVouched == \A d \in Directories, k \in Roles : Vouched(disk[d][k])

InstallInv ==
  /\ InstallTypeOK
  /\ approved \subseteq consented
  /\ \A c \in Shells : InHand(c)
  /\ DiskVouched
  /\ LockVouches
  /\ \A b \in ran : b # None /\ Vouched(b)

USE InstallAssumption

LEMMA SoleIsFound ==
  ASSUME NEW found, NEW role, Sole(found, role) # None
  PROVE  Sole(found, role) \in found
  <1> DEFINE usable == {f \in found : RoleOf[f.repo] = role /\ f.usable}
  <1>1. Cardinality(usable) = 1
    BY DEF Sole
  <1>2. usable # {}
    BY <1>1, OneIsThere
  <1> QED BY <1>1, <1>2 DEF Sole

LEMMA Busy ==
  ASSUME InstallTypeOK, NEW c \in Shells, shell[c].at \in InstallPlaces
  PROVE  shell[c] \in Installs
  <1>1. \A s \in Launches : s.at = "exec"
    BY DEF Launches
  <1>2. Idle.at = "idle"
    BY DEF Idle
  <1>3. shell[c] \in {Idle} \cup Installs \cup Launches
    BY DEF InstallTypeOK
  <1> QED BY <1>1, <1>2, <1>3 DEF InstallPlaces

LEMMA Launching ==
  ASSUME InstallTypeOK, NEW c \in Shells, shell[c].at = "exec"
  PROVE  shell[c].dir \in Directories /\ shell[c].role \in Roles
  <1>1. \A s \in Installs : s.at # "exec"
    BY DEF Installs, InstallPlaces
  <1>2. Idle.at = "idle"
    BY DEF Idle
  <1>3. shell[c] \in {Idle} \cup Installs \cup Launches
    BY DEF InstallTypeOK
  <1>4. shell[c] \in Launches
    BY <1>1, <1>2, <1>3
  <1> QED BY <1>4 DEF Launches

LEMMA AnswerTyped == ASSUME InstallTypeOK PROVE \A r \in Repos : Answer(r) \in Nat
  BY DEF InstallTypeOK, Answer

\* A search finds releases of repositories that its sources cover.
LEMMA FoundCovered ==
  ASSUME InstallTypeOK, NEW srcs \in SUBSET Sources, NEW failing
  PROVE  /\ Found(srcs, failing) \subseteq Offers
         /\ \A f \in Found(srcs, failing) : Covers(f.source, f.repo) /\ f.source \in srcs
  <1>1. SUFFICES ASSUME NEW f \in Found(srcs, failing)
                 PROVE  f \in Offers /\ Covers(f.source, f.repo) /\ f.source \in srcs
    OBVIOUS
  <1>2. PICK s \in srcs \ failing, r \in Repos :
           Covers(s, r) /\ f = [source |-> s, repo |-> r, version |-> Answer(r), usable |-> Answer(r) \in Usable[r]]
    BY DEF Found
  <1> QED BY <1>2, AnswerTyped DEF Offers

LEMMA SearchedTyped ==
  ASSUME InstallTypeOK, NEW b \in BOOLEAN
  PROVE  /\ Searched(approved, b) \subseteq Sources
         /\ Untrusted(approved, b) \subseteq Sources
         /\ Searched(approved, b) = approved \cup {Official} \cup Untrusted(approved, b)
  BY DEF InstallTypeOK, Searched, Untrusted, Sources, Owners

LEMMA RememberTyped ==
  ASSUME InstallTypeOK, NEW srcs, NEW failing, Remember(srcs, failing)
  PROVE  answers' \in [Repos -> Nat]
  BY AnswerTyped DEF Remember, InstallTypeOK

\* What follows the install of a role: nothing, or the next role with the same offers.
LEMMA AfterTyped ==
  ASSUME NEW s \in Installs, NEW failed \in BOOLEAN
  PROVE  \/ After(s, failed) = Idle
         \/ /\ After(s, failed) \in Installs
            /\ After(s, failed).at \in {"entry", "choose"}
            /\ After(s, failed).found = s.found
            /\ After(s, failed).untrusted = s.untrusted
  <1> SUFFICES ASSUME Len(s.roles) # 1, ~(failed /\ ~s.bare)
               PROVE  /\ After(s, failed) \in Installs
                      /\ After(s, failed).at \in {"entry", "choose"}
                      /\ After(s, failed).found = s.found
                      /\ After(s, failed).untrusted = s.untrusted
    BY DEF After
  <1>1. Tail(s.roles) \in Seq(Roles) \ {<<>>}
    <2>1. s.roles \in Seq(Roles) /\ s.roles # <<>> /\ Len(s.roles) # 1
      BY DEF Installs
    <2> QED BY <2>1, TailTyped
  <1> DEFINE t == [s EXCEPT !.roles = Tail(@), !.at = IF s.bare THEN "entry" ELSE "choose",
                            !.saw = {}, !.sum = None]
  <1>2. t \in Installs /\ t.at \in {"entry", "choose"} /\ t.found = s.found /\ t.untrusted = s.untrusted
    BY <1>1 DEF Installs, InstallPlaces, Binaries
  <1> QED BY <1>2 DEF After

\* Whoever stands still keeps what it has in hand, while consents and stirred roles grow
\* and the disk does not change under it unnoticed.
LEMMA OthersKeep ==
  ASSUME NEW c \in Shells, InHand(c), shell'[c] = shell[c],
         consented \subseteq consented', stirred \subseteq stirred',
         shell[c].at = "sum" =>
            \/ Head(shell[c].roles) \in stirred'
            \/ disk'[shell[c].dest][Head(shell[c].roles)] = disk[shell[c].dest][Head(shell[c].roles)],
         shell[c].at = "exec" => disk'[shell[c].dir][shell[c].role] # None
  PROVE  InHand(c)'
  <1>1. ChosenOf(c)' = ChosenOf(c)
    BY DEF ChosenOf, Sole
  <1> QED BY <1>1 DEF InHand, OffersSound, ChoiceSound, SawConsented, SummedSound, Found1, Yes, IsRelease, Covers

\* Whoever begins, or goes on to the next role, needs only sound offers.
LEMMA FreshInHand ==
  ASSUME NEW c \in Shells, shell'[c].at \in {"idle", "entry", "choose"},
         shell'[c].at # "idle" =>
            \A f \in shell'[c].found : /\ Covers(f.source, f.repo)
                                       /\ f.source \in consented' \cup {Official} \cup shell'[c].untrusted
  PROVE  InHand(c)'
  <1>1. shell'[c].at \in InstallPlaces => shell'[c].at \in {"entry", "choose"}
    BY DEF InstallPlaces
  <1>2. OffersSound(c)'
    BY <1>1 DEF OffersSound, Yes, Covers
  <1>3. ChoiceSound(c)' /\ SawConsented(c)' /\ SummedSound(c)' /\ Found1(c)'
    BY DEF ChoiceSound, SawConsented, SummedSound, Found1
  <1> QED BY <1>2, <1>3 DEF InHand

LEMMA AfterInHand ==
  ASSUME InstallInv, NEW c \in Shells, shell[c] \in Installs, NEW failed \in BOOLEAN,
         Become(c, After(shell[c], failed)), consented \subseteq consented'
  PROVE  InHand(c)' /\ shell'[c] \in {Idle} \cup Installs
  <1>1. shell'[c] = After(shell[c], failed)
    BY DEF Become, InstallInv, InstallTypeOK
  <1>2. OffersSound(c) /\ shell[c].at \in InstallPlaces
    BY DEF InstallInv, InHand, Installs
  <1>3. Idle.at = "idle"
    BY DEF Idle
  <1>4. shell'[c].at \in {"idle", "entry", "choose"}
    BY <1>1, <1>3, AfterTyped
  <1>5. shell'[c].at # "idle" => shell'[c].found = shell[c].found /\ shell'[c].untrusted = shell[c].untrusted
    BY <1>1, <1>3, AfterTyped
  <1>6. InHand(c)'
    BY <1>2, <1>4, <1>5, FreshInHand DEF OffersSound, Yes
  <1> QED BY <1>1, <1>6, AfterTyped

\* A step that only moves shells and lets answers, approvals and consents grow.
LEMMA QuietKeeps ==
  ASSUME InstallInv, InstallTypeOK', UNCHANGED <<disk, lock, ran, stirred>>,
         consented \subseteq consented', approved' \subseteq consented',
         \A c \in Shells : shell'[c] = shell[c] \/ InHand(c)'
  PROVE  InstallInv'
  <1> USE DEF InstallInv
  <1>1. \A c \in Shells : InHand(c)'
    BY OthersKeep DEF InHand, Found1
  <1>2. \A b : Vouched(b) => Vouched(b)'
    BY DEF Vouched, Yes, Covers
  <1>3. DiskVouched' /\ \A b \in ran' : b # None /\ Vouched(b)'
    BY <1>2 DEF DiskVouched
  <1>4. LockVouches'
    BY DEF LockVouches
  <1> QED BY <1>1, <1>3, <1>4

-----------------------------------------------------------------------------
LEMMA InstallInvInit == InstallInit => InstallInv
  <1> SUFFICES ASSUME InstallInit PROVE InstallInv
    OBVIOUS
  <1>1. InstallTypeOK
    BY DEF InstallInit, InstallTypeOK, Binaries, Lockfiles
  <1>2. \A c \in Shells : shell[c].at = "idle"
    BY DEF InstallInit, Idle
  <1>3. \A c \in Shells : InHand(c)
    BY <1>2 DEF InHand, OffersSound, ChoiceSound, SawConsented, SummedSound, Found1, InstallPlaces
  <1>4. DiskVouched /\ LockVouches
    BY DEF InstallInit, DiskVouched, Vouched, LockVouches
  <1> QED BY <1>1, <1>3, <1>4 DEF InstallInit, InstallInv

LEMMA RolesTyped ==
  ASSUME NEW kind \in Roles \cup {None}, NEW b \in BOOLEAN, NEW found \in SUBSET Offers
  PROVE  RolesToInstall(kind, b, found) \in Seq(Roles)
  <1> DEFINE published == {RoleOf[f.repo] : f \in found}
  <1>1. published \subseteq Roles
    BY DEF Offers
  <1>2. CASE found = {}
    BY <1>2 DEF RolesToInstall
  <1>3. CASE found # {} /\ kind # None
    BY <1>3 DEF RolesToInstall
  <1>4. CASE found # {} /\ kind = None /\ b /\ Declared # <<>>
    BY <1>4 DEF RolesToInstall
  <1>5. CASE found # {} /\ kind = None /\ ~(b /\ Declared # <<>>)
    <2>1. (CHOOSE k \in published : TRUE) \in Roles
      BY <1>1, <1>5
    <2>2. \/ RolesToInstall(kind, b, found) = <<>>
          \/ RolesToInstall(kind, b, found) = <<CHOOSE k \in published : TRUE>>
      BY <1>5 DEF RolesToInstall
    <2>3. <<CHOOSE k \in published : TRUE>> \in Seq(Roles) /\ <<>> \in Seq(Roles)
      BY <2>1, OneElement
    <2> QED BY <2>2, <2>3
  <1> QED BY <1>2, <1>3, <1>4, <1>5

LEMMA InstallKeeps == ASSUME InstallInv, NEW c \in Shells, Install(c) PROVE InstallInv'
  <1> USE DEF InstallInv
  <1>1. PICK call \in Invocations, failing \in Failing :
          LET srcs == Searched(approved, call.inProject)
              found == Found(srcs, failing)
              roles == RolesToInstall(call.kind, call.inProject, found) IN
          /\ Remember(srcs, failing)
          /\ Become(c, IF roles = <<>> THEN Idle
                       ELSE Installing("choose", call.dest, call.inProject, call.attended, roles,
                                       Untrusted(approved, call.inProject), found, FALSE))
    BY DEF Install
  <1> DEFINE srcs == Searched(approved, call.inProject)
             found == Found(srcs, failing)
             roles == RolesToInstall(call.kind, call.inProject, found)
             new == Installing("choose", call.dest, call.inProject, call.attended, roles,
                               Untrusted(approved, call.inProject), found, FALSE)
  <1>2. /\ call.inProject \in BOOLEAN /\ call.attended \in BOOLEAN
        /\ call.kind \in Roles \cup {None} /\ call.dest \in Directories
    OBVIOUS
  <1>3. /\ srcs \subseteq Sources /\ Untrusted(approved, call.inProject) \subseteq Sources
        /\ srcs = approved \cup {Official} \cup Untrusted(approved, call.inProject)
    BY <1>2, SearchedTyped
  <1>4. found \subseteq Offers /\ \A f \in found : Covers(f.source, f.repo) /\ f.source \in srcs
    BY <1>3, FoundCovered
  <1>5. roles \in Seq(Roles)
    BY <1>2, <1>4, RolesTyped
  <1>6. roles # <<>> => new \in Installs /\ new.at = "choose" /\ new.found = found
                        /\ new.untrusted = Untrusted(approved, call.inProject)
    BY <1>2, <1>3, <1>4, <1>5 DEF Installing, Installs, InstallPlaces, Binaries
  <1>7. shell'[c] = (IF roles = <<>> THEN Idle ELSE new)
    BY <1>1 DEF Become, InstallTypeOK
  <1>8. answers' \in [Repos -> Nat]
    BY <1>1, RememberTyped
  <1>9. UNCHANGED <<latest, approved, disk, lock, consented, ran, stirred>>
    BY DEF Install
  <1>10. shell' \in [Shells -> {Idle} \cup Installs \cup Launches]
    BY <1>1, <1>6 DEF Become, InstallTypeOK
  <1>11. InstallTypeOK'
    BY <1>8, <1>9, <1>10 DEF InstallTypeOK
  <1>12. InHand(c)'
    <2>1. CASE roles = <<>>
      <3>1. shell'[c].at = "idle"
        BY <1>7, <2>1 DEF Idle
      <3> QED BY <3>1, FreshInHand
    <2>2. CASE roles # <<>>
      <3>1. /\ shell'[c].at = "choose" /\ shell'[c].found = found
            /\ shell'[c].untrusted = Untrusted(approved, call.inProject)
        BY <1>6, <1>7, <2>2
      <3>2. \A f \in shell'[c].found :
               Covers(f.source, f.repo) /\ f.source \in consented' \cup {Official} \cup shell'[c].untrusted
        <4>1. approved \subseteq consented'
          BY <1>9
        <4> HIDE DEF found, srcs, InstallInv
        <4> TAKE f \in shell'[c].found
        <4>2. f \in found
          BY <3>1
        <4>3. Covers(f.source, f.repo) /\ f.source \in srcs
          BY <1>4, <4>2
        <4>4. srcs = approved \cup {Official} \cup shell'[c].untrusted
          BY <1>3, <3>1
        <4> QED BY <4>1, <4>3, <4>4
      <3> QED BY <3>1, <3>2, FreshInHand
    <2> QED BY <2>1, <2>2
  <1>13. \A d \in Shells : d # c => shell'[d] = shell[d]
    BY <1>1 DEF Become, InstallTypeOK
  <1> QED BY <1>9, <1>11, <1>12, <1>13, QuietKeeps

LEMMA InstallDeclaredKeeps == ASSUME InstallInv, NEW c \in Shells, InstallDeclared(c) PROVE InstallInv'
  <1> USE DEF InstallInv
  <1>1. PICK call \in Invocations :
          Become(c, Installing("entry", call.dest, TRUE, call.attended, Declared, {}, {}, TRUE))
    BY DEF InstallDeclared
  <1> DEFINE new == Installing("entry", call.dest, TRUE, call.attended, Declared, {}, {}, TRUE)
  <1>2. new \in Installs /\ new.at = "entry" /\ new.found = {}
    BY DEF InstallDeclared, Installing, Installs, InstallPlaces, Binaries
  <1>3. shell'[c] = new /\ \A d \in Shells : d # c => shell'[d] = shell[d]
    BY <1>1 DEF Become, InstallTypeOK
  <1>4. UNCHANGED <<latest, answers, approved, disk, lock, consented, ran, stirred>>
    BY DEF InstallDeclared
  <1>5. InstallTypeOK'
    BY <1>1, <1>2, <1>4 DEF Become, InstallTypeOK
  <1>6. InHand(c)'
    BY <1>2, <1>3, FreshInHand
  <1> QED BY <1>3, <1>4, <1>5, <1>6, QuietKeeps

LEMMA EntryKeeps == ASSUME InstallInv, NEW c \in Shells, Entry(c) PROVE InstallInv'
  <1> USE DEF InstallInv
  <1>1. shell[c] \in Installs /\ UNCHANGED <<latest, approved, disk, lock, consented, ran, stirred>>
    BY Busy DEF Entry, InstallPlaces
  <1>2. CASE Become(c, After(shell[c], FALSE)) /\ UNCHANGED answers
    <2>1. InHand(c)' /\ shell'[c] \in {Idle} \cup Installs
      BY <1>1, <1>2, AfterInHand
    <2>2. InstallTypeOK' /\ \A d \in Shells : d # c => shell'[d] = shell[d]
      BY <1>1, <1>2, <2>1 DEF InstallTypeOK, Become
    <2> QED BY <1>1, <2>1, <2>2, QuietKeeps
  <1>3. ASSUME NEW failing \in Failing, Remember(Searched(approved, TRUE), failing),
               Become(c, [shell[c] EXCEPT !.at = "choose", !.found = Found(Searched(approved, TRUE), failing),
                                          !.untrusted = Untrusted(approved, TRUE)])
        PROVE  InstallInv'
    <2> DEFINE found == Found(Searched(approved, TRUE), failing)
               new == [shell[c] EXCEPT !.at = "choose", !.found = found, !.untrusted = Untrusted(approved, TRUE)]
    <2>1. /\ Searched(approved, TRUE) \subseteq Sources /\ Untrusted(approved, TRUE) \subseteq Sources
          /\ Searched(approved, TRUE) = approved \cup {Official} \cup Untrusted(approved, TRUE)
      BY SearchedTyped
    <2>2. found \subseteq Offers /\ \A f \in found : Covers(f.source, f.repo) /\ f.source \in Searched(approved, TRUE)
      BY <2>1, FoundCovered
    <2>3. new \in Installs /\ new.at = "choose" /\ new.found = found /\ new.untrusted = Untrusted(approved, TRUE)
      BY <1>1, <2>1, <2>2 DEF Installs, InstallPlaces
    <2>4. shell'[c] = new /\ \A d \in Shells : d # c => shell'[d] = shell[d]
      BY <1>3 DEF Become, InstallTypeOK
    <2>5. answers' \in [Repos -> Nat]
      BY <1>3, RememberTyped
    <2>6. InstallTypeOK'
      BY <1>1, <1>3, <2>3, <2>5 DEF Become, InstallTypeOK
    <2>7. InHand(c)'
      <3>1. /\ shell'[c].at = "choose" /\ shell'[c].found = found
            /\ shell'[c].untrusted = Untrusted(approved, TRUE)
        BY <2>3, <2>4
      <3>2. \A f \in shell'[c].found :
               Covers(f.source, f.repo) /\ f.source \in consented' \cup {Official} \cup shell'[c].untrusted
        <4>1. approved \subseteq consented'
          BY <1>1
        <4> QED BY <2>1, <2>2, <3>1, <4>1
      <3> QED BY <3>1, <3>2, FreshInHand
    <2> QED BY <1>1, <2>4, <2>6, <2>7, QuietKeeps
  <1> QED BY <1>2, <1>3 DEF Entry

LEMMA ChooseKeeps == ASSUME InstallInv, NEW c \in Shells, Choose(c) PROVE InstallInv'
  <1> USE DEF InstallInv
  <1>1. /\ shell[c] \in Installs /\ shell[c].at = "choose"
        /\ UNCHANGED <<latest, answers, approved, disk, lock, ran, stirred>>
    BY Busy DEF Choose, InstallPlaces
  <1>2. OffersSound(c)
    BY DEF InHand
  <1>3. ChosenOf(c) # None => ChosenOf(c) \in shell[c].found
    BY SoleIsFound DEF ChosenOf
  <1>4. \A d \in Shells : Become(c, shell'[c]) /\ d # c => shell'[d] = shell[d]
    BY DEF Become, InstallTypeOK
  <1>5. CASE ChosenOf(c) # None /\ ~NeedsYes(shell[c], ChosenOf(c)) /\ Become(c, [shell[c] EXCEPT !.at = "fetch"])
             /\ UNCHANGED consented
    <2> DEFINE new == [shell[c] EXCEPT !.at = "fetch"]
    <2>1. /\ new \in Installs /\ new.at = "fetch" /\ new.found = shell[c].found
          /\ new.untrusted = shell[c].untrusted /\ new.roles = shell[c].roles
      BY <1>1 DEF Installs, InstallPlaces
    <2>2. shell'[c] = new /\ \A d \in Shells : d # c => shell'[d] = shell[d]
      BY <1>5 DEF Become, InstallTypeOK
    <2>3. InstallTypeOK'
      BY <1>1, <1>5, <2>1 DEF Become, InstallTypeOK
    <2>4. ChosenOf(c)' = ChosenOf(c)
      BY <2>1, <2>2 DEF ChosenOf, Sole
    <2>5. OffersSound(c)' /\ SawConsented(c)' /\ SummedSound(c)' /\ Found1(c)'
      BY <1>1, <1>2, <1>5, <2>1, <2>2 DEF OffersSound, SawConsented, SummedSound, Found1, InstallPlaces, Yes, Covers
    <2>6. ChosenOf(c) \in shell[c].found /\ ChosenOf(c).source \in Yes
      BY <1>1, <1>2, <1>3, <1>5 DEF OffersSound, NeedsYes, InstallPlaces
    <2>7. ChoiceSound(c)'
      BY <1>5, <2>1, <2>2, <2>4, <2>6 DEF ChoiceSound, Yes
    <2>8. InHand(c)'
      BY <2>5, <2>7 DEF InHand
    <2> QED BY <1>1, <1>5, <2>2, <2>3, <2>8, QuietKeeps
  <1>6. CASE /\ ChosenOf(c) # None /\ consented' = consented \cup {ChosenOf(c).source}
             /\ Become(c, [shell[c] EXCEPT !.at = "approve", !.saw = approved])
    <2> DEFINE new == [shell[c] EXCEPT !.at = "approve", !.saw = approved]
    <2>1. /\ new \in Installs /\ new.at = "approve" /\ new.found = shell[c].found /\ new.saw = approved
          /\ new.untrusted = shell[c].untrusted /\ new.roles = shell[c].roles
      BY <1>1 DEF Installs, InstallPlaces, InstallTypeOK
    <2>2. shell'[c] = new /\ \A d \in Shells : d # c => shell'[d] = shell[d]
      BY <1>6 DEF Become, InstallTypeOK
    <2>3. ChosenOf(c).source \in Sources
      BY <1>1, <1>3, <1>6 DEF Installs, Offers
    <2>4. InstallTypeOK'
      BY <1>1, <1>6, <2>1, <2>3 DEF Become, InstallTypeOK
    <2>5. ChosenOf(c)' = ChosenOf(c)
      BY <2>1, <2>2 DEF ChosenOf, Sole
    <2>6. OffersSound(c)' /\ SawConsented(c)' /\ SummedSound(c)' /\ Found1(c)'
      BY <1>1, <1>2, <1>6, <2>1, <2>2 DEF OffersSound, SawConsented, SummedSound, Found1, InstallPlaces, Yes, Covers
    <2>7. ChoiceSound(c)'
      BY <1>3, <1>6, <2>1, <2>2, <2>5 DEF ChoiceSound, Yes
    <2>8. InHand(c)'
      BY <2>6, <2>7 DEF InHand
    <2> QED BY <1>1, <1>6, <2>2, <2>4, <2>8, QuietKeeps
  <1>7. CASE Become(c, After(shell[c], TRUE)) /\ UNCHANGED consented
    <2>1. InHand(c)' /\ shell'[c] \in {Idle} \cup Installs
      BY <1>1, <1>7, AfterInHand
    <2>2. InstallTypeOK' /\ \A d \in Shells : d # c => shell'[d] = shell[d]
      BY <1>1, <1>7, <2>1 DEF InstallTypeOK, Become
    <2> QED BY <1>1, <1>7, <2>1, <2>2, QuietKeeps
  <1> QED BY <1>1, <1>5, <1>6, <1>7 DEF Choose, ChosenOf

LEMMA ApproveKeeps == ASSUME InstallInv, NEW c \in Shells, Approve(c) PROVE InstallInv'
  <1> USE DEF InstallInv
  <1>1. /\ shell[c] \in Installs /\ shell[c].at = "approve"
        /\ UNCHANGED <<latest, answers, disk, lock, consented, ran, stirred>>
    BY Busy DEF Approve, InstallPlaces
  <1>2. OffersSound(c) /\ ChoiceSound(c) /\ SawConsented(c)
    BY DEF InHand
  <1> DEFINE new == [shell[c] EXCEPT !.at = "fetch", !.saw = {}]
  <1>3. /\ new \in Installs /\ new.at = "fetch" /\ new.found = shell[c].found
        /\ new.untrusted = shell[c].untrusted /\ new.roles = shell[c].roles
    BY <1>1 DEF Installs, InstallPlaces
  <1>4. shell'[c] = new /\ \A d \in Shells : d # c => shell'[d] = shell[d]
    BY <1>1 DEF Approve, Become, InstallTypeOK
  <1>5. ChosenOf(c) \in shell[c].found /\ ChosenOf(c).source \in Yes
    BY <1>1, <1>2 DEF ChoiceSound
  <1>6. ChosenOf(c).source \in Sources
    BY <1>1, <1>5 DEF Installs, Offers
  <1>7. approved' = approved \/ approved' = shell[c].saw \cup {ChosenOf(c).source}
    BY DEF Approve
  <1>8. approved' \subseteq consented'
    <2>1. CASE approved' = approved
      BY <1>1, <2>1
    <2>2. CASE approved' = shell[c].saw \cup {ChosenOf(c).source} /\ ~TrustedBy(shell[c].saw, ChosenOf(c).source)
      <3>1. ChosenOf(c).source # Official
        BY <2>2 DEF TrustedBy, Covers
      <3> QED BY <1>1, <1>2, <1>5, <2>2, <3>1 DEF SawConsented, Yes
    <2> QED BY <2>1, <2>2 DEF Approve
  <1>9. InstallTypeOK'
    BY <1>1, <1>3, <1>8 DEF Approve, Become, InstallTypeOK
  <1>10. ChosenOf(c)' = ChosenOf(c)
    BY <1>3, <1>4 DEF ChosenOf, Sole
  <1>11. OffersSound(c)' /\ SawConsented(c)' /\ SummedSound(c)' /\ Found1(c)'
    BY <1>1, <1>2, <1>3, <1>4 DEF OffersSound, SawConsented, SummedSound, Found1, InstallPlaces, Yes, Covers
  <1>12. ChoiceSound(c)'
    BY <1>1, <1>3, <1>4, <1>5, <1>10 DEF ChoiceSound, Yes
  <1>13. InHand(c)'
    BY <1>11, <1>12 DEF InHand
  <1> QED BY <1>1, <1>4, <1>8, <1>9, <1>13, QuietKeeps

\* A binary of some release, from a source that was said yes to, lands.
LEMMA FetchKeeps == ASSUME InstallInv, NEW c \in Shells, Fetch(c) PROVE InstallInv'
  <1> USE DEF InstallInv
  <1>1. /\ shell[c] \in Installs /\ shell[c].at = "fetch"
        /\ UNCHANGED <<latest, answers, approved, lock, consented, ran>>
    BY Busy DEF Fetch, InstallPlaces
  <1>2. OffersSound(c) /\ ChoiceSound(c)
    BY DEF InHand
  <1>3. CASE Become(c, After(shell[c], TRUE)) /\ UNCHANGED <<disk, stirred>>
    <2>1. InHand(c)' /\ shell'[c] \in {Idle} \cup Installs
      BY <1>1, <1>3, AfterInHand
    <2>2. InstallTypeOK' /\ \A d \in Shells : d # c => shell'[d] = shell[d]
      BY <1>1, <1>3, <2>1 DEF InstallTypeOK, Become
    <2> QED BY <1>1, <1>3, <2>1, <2>2, QuietKeeps
  <1>4. CASE ~(Become(c, After(shell[c], TRUE)) /\ UNCHANGED <<disk, stirred>>)
    <2> DEFINE role == Head(shell[c].roles)
               bin == [repo |-> ChosenOf(c).repo, version |-> ChosenOf(c).version]
               new == [shell[c] EXCEPT !.at = "sum"]
    <2>1. /\ disk' = [disk EXCEPT ![shell[c].dest][role] = bin]
          /\ Become(c, new)
          /\ stirred' = stirred \cup ({role} \cap
               {k \in Roles : \E d \in Shells \ {c} : shell[d].at = "sum" /\ shell[d].dest = shell[c].dest
                                                      /\ Head(shell[d].roles) = k})
      BY <1>4 DEF Fetch
    <2>2. role \in Roles /\ shell[c].dest \in Directories
      BY <1>1, HeadTailProperties DEF Installs
    <2>3. ChosenOf(c) \in Offers /\ Covers(ChosenOf(c).source, ChosenOf(c).repo) /\ ChosenOf(c).source \in Yes
      BY <1>1, <1>2 DEF ChoiceSound, OffersSound, InstallPlaces, Installs
    <2>4. bin \in Binaries /\ bin # None
      <3>1. ChosenOf(c).repo \in Repos /\ ChosenOf(c).version \in Nat
        BY <2>3 DEF Offers
      <3> QED BY <3>1 DEF Binaries
    <2>5. Vouched(bin)
      BY <2>3 DEF Vouched, Yes
    <2>6. /\ new \in Installs /\ new.at = "sum" /\ new.found = shell[c].found /\ new.dest = shell[c].dest
          /\ new.untrusted = shell[c].untrusted /\ new.roles = shell[c].roles
      BY <1>1 DEF Installs, InstallPlaces
    <2>7. shell'[c] = new /\ \A d \in Shells : d # c => shell'[d] = shell[d]
      BY <2>1 DEF Become, InstallTypeOK
    <2>8. \A dir \in Directories, k \in Roles :
             disk'[dir][k] = IF dir = shell[c].dest /\ k = role THEN bin ELSE disk[dir][k]
      BY <2>1, <2>2 DEF InstallTypeOK
    <2>9. InstallTypeOK'
      BY <1>1, <2>1, <2>2, <2>4, <2>6 DEF Become, InstallTypeOK
    <2>10. ChosenOf(c)' = ChosenOf(c)
      BY <2>6, <2>7 DEF ChosenOf, Sole
    <2>11. OffersSound(c)' /\ SawConsented(c)' /\ Found1(c)' /\ ChoiceSound(c)'
      BY <1>1, <1>2, <2>6, <2>7, <2>10 DEF OffersSound, SawConsented, Found1, ChoiceSound, InstallPlaces, Yes, Covers
    <2>12. SummedSound(c)'
      BY <2>2, <2>6, <2>7, <2>8, <2>10 DEF SummedSound, IsRelease
    <2>13. ASSUME NEW d \in Shells, d # c PROVE InHand(d)'
      <3>1. InHand(d) /\ shell'[d] = shell[d]
        BY <2>7, <2>13
      <3>2. ASSUME shell[d].at = "sum", Head(shell[d].roles) \notin stirred'
            PROVE  disk'[shell[d].dest][Head(shell[d].roles)] = disk[shell[d].dest][Head(shell[d].roles)]
        <4>1. shell[d] \in Installs
          BY <3>2, Busy DEF InstallPlaces
        <4>2. Head(shell[d].roles) \in Roles /\ shell[d].dest \in Directories
          BY <4>1, HeadTailProperties DEF Installs
        <4>3. ~(shell[d].dest = shell[c].dest /\ Head(shell[d].roles) = role)
          BY <2>1, <2>2, <2>13, <3>2
        <4> QED BY <2>8, <4>2, <4>3
      <3>3. ASSUME shell[d].at = "exec" PROVE disk'[shell[d].dir][shell[d].role] # None
        <4>1. shell[d].dir \in Directories /\ shell[d].role \in Roles
          BY <3>3, Launching
        <4>2. disk[shell[d].dir][shell[d].role] # None
          BY <3>1, <3>3 DEF InHand, Found1
        <4> HIDE DEF InstallInv, bin, role, new
        <4> QED BY <2>4, <2>8, <4>1, <4>2
      <3> QED BY <1>1, <2>1, <3>1, <3>2, <3>3, OthersKeep
    <2>14. DiskVouched'
      <3>1. \A b : Vouched(b) => Vouched(b)'
        BY <1>1 DEF Vouched, Yes, Covers
      <3> QED BY <2>5, <2>8, <3>1 DEF DiskVouched
    <2>15. LockVouches'
      BY <1>1, <2>1 DEF LockVouches
    <2>16. \A b \in ran' : b # None /\ Vouched(b)'
      BY <1>1 DEF Vouched, Yes, Covers
    <2> QED BY <1>1, <2>9, <2>11, <2>12, <2>13, <2>14, <2>15, <2>16 DEF InHand
  <1> QED BY <1>3, <1>4

LEMMA SumKeeps == ASSUME InstallInv, NEW c \in Shells, Sum(c) PROVE InstallInv'
  <1> USE DEF InstallInv
  <1>1. /\ shell[c] \in Installs /\ shell[c].at = "sum"
        /\ UNCHANGED <<latest, answers, approved, disk, lock, consented, ran, stirred>>
    BY Busy DEF Sum, InstallPlaces
  <1>2. OffersSound(c) /\ ChoiceSound(c) /\ SummedSound(c)
    BY DEF InHand
  <1>3. CASE ~shell[c].inProject
    <2>0. Become(c, After(shell[c], FALSE))
      BY <1>3 DEF Sum
    <2>1. InHand(c)' /\ shell'[c] \in {Idle} \cup Installs
      BY <1>1, <2>0, AfterInHand
    <2>2. InstallTypeOK' /\ \A d \in Shells : d # c => shell'[d] = shell[d]
      BY <1>1, <2>0, <2>1 DEF InstallTypeOK, Become
    <2> QED BY <1>1, <2>1, <2>2, QuietKeeps
  <1>4. CASE shell[c].inProject
    <2> DEFINE bin == disk[shell[c].dest][Head(shell[c].roles)]
               new == [shell[c] EXCEPT !.at = "record", !.sum = bin, !.saw = lock]
    <2>1. Head(shell[c].roles) \in Roles /\ shell[c].dest \in Directories
      BY <1>1, HeadTailProperties DEF Installs
    <2>2. bin \in Binaries /\ lock \in Lockfiles
      BY <2>1 DEF InstallTypeOK
    <2>3. /\ new \in Installs /\ new.at = "record" /\ new.found = shell[c].found /\ new.sum = bin
          /\ new.saw = lock /\ new.untrusted = shell[c].untrusted /\ new.roles = shell[c].roles
      BY <1>1, <2>2 DEF Installs, InstallPlaces
    <2>4. Become(c, new)
      BY <1>4 DEF Sum
    <2>5. shell'[c] = new /\ \A d \in Shells : d # c => shell'[d] = shell[d]
      BY <2>4 DEF Become, InstallTypeOK
    <2>6. InstallTypeOK'
      BY <1>1, <2>3, <2>4 DEF Become, InstallTypeOK
    <2>7. ChosenOf(c)' = ChosenOf(c)
      BY <2>3, <2>5 DEF ChosenOf, Sole
    <2>8. OffersSound(c)' /\ SawConsented(c)' /\ Found1(c)' /\ ChoiceSound(c)'
      BY <1>1, <1>2, <2>3, <2>5, <2>7 DEF OffersSound, SawConsented, Found1, ChoiceSound, InstallPlaces, Yes, Covers
    <2>9. SummedSound(c)'
      BY <1>1, <1>2, <2>2, <2>3, <2>5, <2>7 DEF SummedSound, IsRelease
    <2> QED BY <1>1, <2>5, <2>6, <2>8, <2>9, QuietKeeps DEF InHand
  <1> QED BY <1>3, <1>4

\* An entry that is written vouches for its checksums if the sum is of the version.
LEMMA RecordedVouches ==
  ASSUME NEW entries \in Lockfiles, NEW key \in Roles, NEW chosen, chosen.version \in Nat,
         chosen.source \in Sources, NEW platform \in Platforms, NEW sum \in Binaries
  PROVE  /\ Recorded(entries, key, chosen, platform, sum) \in Lockfiles
         /\ \A k \in Roles \ {key} : Recorded(entries, key, chosen, platform, sum)[k] = entries[k]
         /\ Recorded(entries, key, chosen, platform, sum)[key].version = chosen.version
         /\ Recorded(entries, key, chosen, platform, sum)[key].sums[platform] = sum
         /\ \A p \in Platforms \ {platform} :
              \/ Recorded(entries, key, chosen, platform, sum)[key].sums[p] = None
              \/ /\ entries[key] # None /\ entries[key].version = chosen.version
                 /\ Recorded(entries, key, chosen, platform, sum)[key].sums[p] = entries[key].sums[p]
  <1> DEFINE old == entries[key]
             kept == IF old # None /\ old.version = chosen.version THEN old.sums ELSE [p \in Platforms |-> None]
             entry == [version |-> chosen.version, source |-> chosen.source, sums |-> [kept EXCEPT ![platform] = sum]]
  <1>1. kept \in [Platforms -> Binaries]
    BY DEF Lockfiles, Entries, Binaries
  <1>2. entry \in Entries
    BY <1>1 DEF Entries
  <1>3. Recorded(entries, key, chosen, platform, sum) = [entries EXCEPT ![key] = entry]
    BY DEF Recorded
  <1>4. entry.version = chosen.version /\ entry.sums[platform] = sum
        /\ \A p \in Platforms \ {platform} : entry.sums[p] = kept[p]
    BY <1>1
  <1>5. \A p \in Platforms : kept[p] = None \/ (old # None /\ old.version = chosen.version /\ kept[p] = old.sums[p])
    OBVIOUS
  <1> HIDE DEF kept, entry
  <1> QED BY <1>2, <1>3, <1>4, <1>5 DEF Lockfiles

LEMMA RecordKeeps == ASSUME InstallInv, NEW c \in Shells, Record(c) PROVE InstallInv'
  <1> USE DEF InstallInv
  <1>1. /\ shell[c] \in Installs /\ shell[c].at = "record"
        /\ Become(c, After(shell[c], FALSE))
        /\ UNCHANGED <<latest, answers, approved, disk, consented, ran>>
    BY Busy DEF Record, InstallPlaces
  <1>2. ChoiceSound(c) /\ SummedSound(c)
    BY DEF InHand
  <1> DEFINE role == Head(shell[c].roles)
  <1>3. role \in Roles
    BY <1>1, HeadTailProperties DEF Installs
  <1>4. ChosenOf(c) \in Offers
    BY <1>1, <1>2 DEF ChoiceSound, Installs
  <1>5. shell[c].saw \in Lockfiles /\ shell[c].sum \in Binaries
    BY <1>1, <1>2 DEF SummedSound, Installs
  <1>6. ChosenOf(c).version \in Nat /\ ChosenOf(c).source \in Sources
    BY <1>4 DEF Offers
  <1>7. "here" \in Platforms /\ \A p \in Platforms : p = "here" \/ p \in Platforms \ {"here"}
    BY DEF Platforms
  <1>8. lock' = Recorded(shell[c].saw, role, ChosenOf(c), "here", shell[c].sum)
    BY DEF Record
  <1>9. /\ lock' \in Lockfiles
        /\ \A k \in Roles \ {role} : lock'[k] = shell[c].saw[k]
        /\ lock'[role].version = ChosenOf(c).version
        /\ lock'[role].sums["here"] = shell[c].sum
        /\ \A p \in Platforms \ {"here"} :
             \/ lock'[role].sums[p] = None
             \/ /\ shell[c].saw[role] # None /\ shell[c].saw[role].version = ChosenOf(c).version
                /\ lock'[role].sums[p] = shell[c].saw[role].sums[p]
    <2> HIDE DEF InstallInv
    <2> DEFINE saw == shell[c].saw
               ch == ChosenOf(c)
               sum == shell[c].sum
    <2>1. saw \in Lockfiles /\ ch.version \in Nat /\ ch.source \in Sources /\ sum \in Binaries
      BY <1>5, <1>6
    <2> HIDE DEF saw, ch, sum, role
    <2>2. /\ Recorded(saw, role, ch, "here", sum) \in Lockfiles
          /\ \A k \in Roles \ {role} : Recorded(saw, role, ch, "here", sum)[k] = saw[k]
          /\ Recorded(saw, role, ch, "here", sum)[role].version = ch.version
          /\ Recorded(saw, role, ch, "here", sum)[role].sums["here"] = sum
          /\ \A p \in Platforms \ {"here"} :
               \/ Recorded(saw, role, ch, "here", sum)[role].sums[p] = None
               \/ /\ saw[role] # None /\ saw[role].version = ch.version
                  /\ Recorded(saw, role, ch, "here", sum)[role].sums[p] = saw[role].sums[p]
      BY <1>3, <1>7, <2>1, RecordedVouches
    <2> QED BY <1>8, <2>2 DEF saw, ch, sum
  <1>10. LockVouches'
    <2>1. CASE shell[c].saw = lock /\ stirred' = stirred
      <3>1. ASSUME NEW k \in Roles \ stirred, lock'[k] # None, NEW p \in Platforms, lock'[k].sums[p] # None
            PROVE  lock'[k].sums[p].version = lock'[k].version
        <4>1. CASE k # role
          BY <1>9, <2>1, <3>1, <4>1 DEF LockVouches
        <4>2. CASE k = role /\ p = "here"
          BY <1>1, <1>2, <1>9, <3>1, <4>2 DEF SummedSound
        <4>3. CASE k = role /\ p # "here"
          BY <1>9, <2>1, <3>1, <4>3 DEF LockVouches
        <4> QED BY <4>1, <4>2, <4>3
      <3> QED BY <2>1, <3>1 DEF LockVouches
    <2>2. CASE stirred' = Roles
      BY <2>2 DEF LockVouches
    <2> QED BY <2>1, <2>2 DEF Record
  <1>11. stirred \subseteq stirred' /\ stirred' \subseteq Roles
    BY DEF Record, InstallTypeOK
  <1>12. InHand(c)' /\ shell'[c] \in {Idle} \cup Installs
    BY <1>1, AfterInHand
  <1>13. InstallTypeOK' /\ \A d \in Shells : d # c => shell'[d] = shell[d]
    BY <1>1, <1>9, <1>11, <1>12 DEF InstallTypeOK, Become
  <1>14. \A d \in Shells : InHand(d)'
    <2> SUFFICES ASSUME NEW d \in Shells, d # c PROVE InHand(d)'
      BY <1>12
    <2> QED BY <1>1, <1>11, <1>13, OthersKeep DEF InHand, Found1
  <1>15. DiskVouched' /\ \A b \in ran' : b # None /\ Vouched(b)'
    BY <1>1 DEF DiskVouched, Vouched, Yes, Covers
  <1> QED BY <1>1, <1>10, <1>13, <1>14, <1>15

\* Find: where something is found, there is something.
LEMMA FindFinds ==
  ASSUME NEW role \in Roles, FoundIn(role) # None
  PROVE  FoundIn(role) \in Directories /\ disk[FoundIn(role)][role] # None
  <1> DEFINE holding == {i \in DOMAIN Dirs : disk[Dirs[i]][role] # None}
  <1>1. holding # {}
    BY DEF FoundIn
  <1>2. holding \in SUBSET Nat
    OBVIOUS
  <1>3. \E n \in holding : \A m \in holding : n <= m
    BY <1>1, <1>2, LeastNat
  <1> DEFINE first == CHOOSE i \in holding : \A j \in holding : i <= j
  <1>4. first \in holding
    BY <1>3
  <1>5. FoundIn(role) = Dirs[first]
    BY <1>1 DEF FoundIn
  <1> QED BY <1>4, <1>5 DEF Directories

LEMMA LaunchKeeps == ASSUME InstallInv, NEW c \in Shells, Launch(c) PROVE InstallInv'
  <1> USE DEF InstallInv
  <1>1. PICK k \in Roles : FoundIn(k) # None /\ Become(c, [at |-> "exec", dir |-> FoundIn(k), role |-> k])
    BY DEF Launch
  <1>2. FoundIn(k) \in Directories /\ disk[FoundIn(k)][k] # None
    BY <1>1, FindFinds
  <1> DEFINE new == [at |-> "exec", dir |-> FoundIn(k), role |-> k]
  <1>3. new \in Launches
    BY <1>2 DEF Launches
  <1>4. shell'[c] = new /\ \A d \in Shells : d # c => shell'[d] = shell[d]
    BY <1>1 DEF Become, InstallTypeOK
  <1>5. UNCHANGED <<latest, answers, approved, disk, lock, consented, ran, stirred>>
    BY DEF Launch
  <1>6. InstallTypeOK'
    BY <1>1, <1>3, <1>5 DEF Become, InstallTypeOK
  <1>7. InHand(c)'
    BY <1>2, <1>4, <1>5 DEF InHand, OffersSound, ChoiceSound, SawConsented, SummedSound, Found1, InstallPlaces
  <1> QED BY <1>4, <1>5, <1>6, <1>7, QuietKeeps

\* What is executed is what lies there by then, which is vouched for like all the disk.
LEMMA ExecKeeps == ASSUME InstallInv, NEW c \in Shells, Exec(c) PROVE InstallInv'
  <1> USE DEF InstallInv
  <1>1. /\ shell[c].at = "exec" /\ Become(c, Idle)
        /\ ran' = ran \cup {disk[shell[c].dir][shell[c].role]}
        /\ UNCHANGED <<latest, answers, approved, disk, lock, consented, stirred>>
    BY DEF Exec
  <1>2. shell'[c] = Idle /\ \A d \in Shells : d # c => shell'[d] = shell[d]
    BY <1>1 DEF Become, InstallTypeOK
  <1>3. InstallTypeOK'
    BY <1>1 DEF Become, InstallTypeOK
  <1>4. shell[c].dir \in Directories /\ shell[c].role \in Roles
    BY <1>1, Launching
  <1>5. disk[shell[c].dir][shell[c].role] # None /\ Vouched(disk[shell[c].dir][shell[c].role])
    BY <1>1, <1>4 DEF InHand, Found1, DiskVouched
  <1>6. \A b : Vouched(b) <=> Vouched(b)'
    BY <1>1 DEF Vouched, Yes, Covers
  <1>7. \A b \in ran' : b # None /\ Vouched(b)'
    BY <1>1, <1>5, <1>6
  <1>8. shell'[c].at = "idle"
    BY <1>2 DEF Idle
  <1>9. InHand(c)'
    BY <1>8, FreshInHand
  <1>10. \A d \in Shells : InHand(d)'
    <2> SUFFICES ASSUME NEW d \in Shells, d # c PROVE InHand(d)'
      BY <1>9
    <2> QED BY <1>1, <1>2, OthersKeep DEF InHand, Found1
  <1>11. DiskVouched' /\ LockVouches'
    BY <1>1, <1>6 DEF DiskVouched, LockVouches
  <1> QED BY <1>1, <1>3, <1>7, <1>10, <1>11

LEMMA HandPlaceKeeps == ASSUME InstallInv, HandPlace PROVE InstallInv'
  <1> USE DEF InstallInv
  <1>1. PICK dir \in Directories, k \in Roles :
          /\ disk' = [disk EXCEPT ![dir][k] = ByHand]
          /\ stirred' = IF \E c \in Shells : shell[c].at = "sum" THEN stirred \cup {k} ELSE stirred
    BY DEF HandPlace, InstallTypeOK
  <1>2. UNCHANGED <<latest, answers, approved, lock, shell, consented, ran>>
    BY DEF HandPlace
  <1>3. ByHand \in Binaries /\ ByHand # None
    BY DEF ByHand, Binaries
  <1>4. \A e \in Directories, j \in Roles :
          disk'[e][j] = IF e = dir /\ j = k THEN ByHand ELSE disk[e][j]
    BY <1>1 DEF InstallTypeOK
  <1>5. InstallTypeOK'
    BY <1>1, <1>2, <1>3 DEF InstallTypeOK
  <1>6. \A c \in Shells : InHand(c)'
    <2> SUFFICES ASSUME NEW c \in Shells PROVE InHand(c)'
      OBVIOUS
    <2>1. ASSUME shell[c].at = "sum", Head(shell[c].roles) \notin stirred'
          PROVE  disk'[shell[c].dest][Head(shell[c].roles)] = disk[shell[c].dest][Head(shell[c].roles)]
      <3>1. shell[c] \in Installs
        BY <2>1, Busy DEF InstallPlaces
      <3>2. Head(shell[c].roles) \in Roles /\ shell[c].dest \in Directories
        BY <3>1, HeadTailProperties DEF Installs
      <3> QED BY <1>1, <1>4, <2>1, <3>2
    <2>2. ASSUME shell[c].at = "exec" PROVE disk'[shell[c].dir][shell[c].role] # None
      <3>1. shell[c].dir \in Directories /\ shell[c].role \in Roles
        BY <2>2, Launching
      <3>2. disk[shell[c].dir][shell[c].role] # None
        BY <2>2 DEF InHand, Found1
      <3> QED BY <1>3, <1>4, <3>1, <3>2
    <2> QED BY <1>1, <1>2, <2>1, <2>2, OthersKeep
  <1>7. \A b : Vouched(b) <=> Vouched(b)'
    BY <1>2 DEF Vouched, Yes, Covers
  <1>8. DiskVouched'
    BY <1>4, <1>7 DEF DiskVouched, Vouched
  <1>9. LockVouches'
    BY <1>1, <1>2 DEF LockVouches
  <1> QED BY <1>2, <1>5, <1>6, <1>7, <1>8, <1>9

LEMMA PullKeeps == ASSUME InstallInv, Pull PROVE InstallInv'
  <1> USE DEF InstallInv
  <1>1. PICK r \in Repos :
          lock' = Recorded(lock, RoleOf[r], [version |-> latest[r], source |-> OwnerOf[r]],
                           "there", [repo |-> r, version |-> latest[r]])
    BY DEF Pull
  <1>2. UNCHANGED <<latest, answers, approved, disk, shell, consented, ran, stirred>>
    BY DEF Pull
  <1> DEFINE chosen == [version |-> latest[r], source |-> OwnerOf[r]]
             bin == [repo |-> r, version |-> latest[r]]
             role == RoleOf[r]
  <1>3. chosen.version \in Nat /\ chosen.source \in Sources /\ bin \in Binaries /\ bin.version = chosen.version
    BY DEF InstallTypeOK, Binaries, Sources, Owners
  <1>4. role \in Roles /\ lock \in Lockfiles /\ "there" \in Platforms
    BY DEF InstallTypeOK, Platforms
  <1>5. lock' = Recorded(lock, role, chosen, "there", bin)
    BY <1>1
  <1>6. /\ lock' \in Lockfiles
        /\ \A k \in Roles \ {role} : lock'[k] = lock[k]
        /\ lock'[role].version = chosen.version
        /\ lock'[role].sums["there"] = bin
        /\ \A p \in Platforms \ {"there"} :
             \/ lock'[role].sums[p] = None
             \/ /\ lock[role] # None /\ lock[role].version = chosen.version
                /\ lock'[role].sums[p] = lock[role].sums[p]
    <2> HIDE DEF InstallInv, chosen, bin, role
    <2> QED BY <1>3, <1>4, <1>5, RecordedVouches
  <1>7. InstallTypeOK'
    BY <1>2, <1>6 DEF InstallTypeOK
  <1>8. LockVouches'
    <2> HIDE DEF chosen, bin, role
    <2>1. ASSUME NEW k \in Roles \ stirred, lock'[k] # None, NEW p \in Platforms, lock'[k].sums[p] # None
          PROVE  lock'[k].sums[p].version = lock'[k].version
      <3>1. CASE k # role
        BY <1>6, <2>1, <3>1 DEF LockVouches
      <3>2. CASE k = role /\ p = "there"
        BY <1>3, <1>6, <2>1, <3>2
      <3>3. CASE k = role /\ p # "there"
        BY <1>6, <2>1, <3>3 DEF LockVouches
      <3> QED BY <3>1, <3>2, <3>3
    <2> QED BY <1>2, <2>1 DEF LockVouches
  <1>9. \A c \in Shells : InHand(c)'
    BY <1>2, OthersKeep DEF InHand, Found1
  <1>10. DiskVouched' /\ \A b \in ran' : b # None /\ Vouched(b)'
    BY <1>2 DEF DiskVouched, Vouched, Yes, Covers
  <1> QED BY <1>2, <1>7, <1>8, <1>9, <1>10

LEMMA InstallInvNext == InstallInv /\ [InstallNext]_installVars => InstallInv'
  <1> SUFFICES ASSUME InstallInv, [InstallNext]_installVars PROVE InstallInv'
    OBVIOUS
  <1>1. CASE Publishes
    BY <1>1, QuietKeeps DEF Publishes, InstallInv, InstallTypeOK
  <1>2. CASE HourPasses
    BY <1>2, QuietKeeps DEF HourPasses, InstallInv, InstallTypeOK
  <1>3. CASE UNCHANGED installVars
    BY <1>3, QuietKeeps DEF installVars, InstallInv, InstallTypeOK
  <1> QED BY <1>1, <1>2, <1>3, InstallKeeps, InstallDeclaredKeeps, EntryKeeps, ChooseKeeps, ApproveKeeps,
             FetchKeeps, SumKeeps, RecordKeeps, LaunchKeeps, ExecKeeps, HandPlaceKeeps, PullKeeps
             DEF InstallNext

(***************************************************************************)
(* The inductive invariant of plugin installation.                         *)
(***************************************************************************)
THEOREM InstallInvariant == InstallSpec => []InstallInv
  <1> QED BY InstallInvInit, InstallInvNext, PTL DEF InstallSpec

(***************************************************************************)
(* recordInstall: a lock file entry's checksums are all of the version the *)
(* entry names, whatever was installed over what.                          *)
(***************************************************************************)
THEOREM LockEntriesVouch == InstallSpec => []LockVouches
  <1>1. InstallInv => LockVouches
    BY DEF InstallInv
  <1> QED BY <1>1, InstallInvariant, PTL

(***************************************************************************)
(* ensureTrusted and checkLock: what is executed was put there by hand or  *)
(* came from a source that a person approved.                              *)
(***************************************************************************)
THEOREM OnlyApprovedRuns == InstallSpec => []RunsOnlyApproved
  <1>1. InstallInv => RunsOnlyApproved
    BY DEF InstallInv, RunsOnlyApproved, Vouched, Yes
  <1> QED BY <1>1, InstallInvariant, PTL
=============================================================================
