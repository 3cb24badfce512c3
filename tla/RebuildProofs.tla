---------------------------- MODULE RebuildProofs ----------------------------
(***************************************************************************)
(* What the tables of Rebuild are, for every finite landing bucket: Silver *)
(* holds an entity once for each time, a history says at each time what    *)
(* the sources said, a dimension has one version of it valid then, and a   *)
(* session finds that version; features look back only, copies ingested    *)
(* again change nothing, the rollups add up to the sessions, and the       *)
(* history says what the recurring deliveries said.                        *)
(***************************************************************************)
EXTENDS Rebuild, FiniteSetTheorems, TLAPS, WellFoundedInduction

-----------------------------------------------------------------------------
(* Greatest and least elements *)

\* A finite set that is totally preordered has a greatest element: otherwise take
\* a smallest set without one.
LEMMA Greatest ==
  ASSUME NEW A, IsFiniteSet(A), A # {}, NEW R,
         \A x, y \in A : <<x, y>> \in R \/ <<y, x>> \in R,
         \A x, y, z \in A : <<x, y>> \in R /\ <<y, z>> \in R => <<x, z>> \in R
  PROVE  \E x \in A : \A y \in A : <<y, x>> \in R
<1> DEFINE Top(B) == \E x \in B : \A y \in B : <<y, x>> \in R
           Bad    == {B \in SUBSET A : B # {} /\ ~Top(B)}
<1> SUFFICES ASSUME Bad # {} PROVE FALSE
  OBVIOUS
<1>1. Bad \subseteq FiniteSubsetsOf(A)
  BY FS_FiniteSubsetsOfFinite
<1>2. IsWellFoundedOn(StrictSubsetOrdering(A), FiniteSubsetsOf(A))
  BY FS_StrictSubsetOrderingWellFounded
<1>3. PICK B \in Bad : \A C \in Bad : <<C, B>> \notin StrictSubsetOrdering(A)
  <2> HIDE DEF Bad
  <2> QED BY <1>1, <1>2, WFMin
<1>4. PICK b \in B : TRUE
  OBVIOUS
<1>5. CASE B \ {b} = {}
  <2>1. \A y \in B : <<y, b>> \in R
    BY <1>4, <1>5
  <2> QED BY <1>4, <2>1
<1>6. CASE B \ {b} # {}
  <2> DEFINE C == B \ {b}
  <2>0. B \in SUBSET A /\ C \in SUBSET A /\ C \subseteq B /\ C # B
    BY <1>4
  <2>1. C \notin Bad
    <3>1. <<C, B>> \in StrictSubsetOrdering(A)
      BY <2>0 DEF StrictSubsetOrdering
    <3> QED BY <1>3, <3>1
  <2>2. PICK m \in B \ {b} : \A y \in B \ {b} : <<y, m>> \in R
    BY <1>6, <2>1
  <2>3. b \in A /\ m \in A /\ \A y \in B : y \in A
    BY <1>4, <2>2
  <2>4. CASE <<b, m>> \in R
    <3>1. \A y \in B : <<y, m>> \in R
      BY <2>2, <2>4
    <3> QED BY <2>2, <3>1
  <2>5. CASE <<b, m>> \notin R
    <3>1. <<m, b>> \in R /\ <<b, b>> \in R
      BY <2>3, <2>5
    <3>2. ASSUME NEW y \in B PROVE <<y, b>> \in R
      BY <2>2, <2>3, <3>1
    <3> QED BY <1>4, <3>2
  <2> QED BY <2>4, <2>5
<1> QED BY <1>5, <1>6

\* What Min returns of a finite set of naturals: its least element.
LEMMA MinIs ==
  ASSUME NEW S, IsFiniteSet(S), S # {}, \A x \in S : x \in Nat
  PROVE  Min(S) \in S /\ \A y \in S : Min(S) <= y
<1> DEFINE R == {p \in S \X S : p[2] <= p[1]}
<1>1. \A x, y \in S : <<x, y>> \in R <=> y <= x
  OBVIOUS
<1>2. (\A x, y \in S : x <= y \/ y <= x) /\ \A x, y, z \in S : y <= x /\ z <= y => z <= x
  OBVIOUS
<1> HIDE DEF R
<1>3. \E x \in S : \A y \in S : <<y, x>> \in R
  BY <1>1, <1>2, Greatest
<1>4. \E x \in S : \A y \in S : x =< y
  BY <1>1, <1>3
<1> QED BY <1>4 DEF Min

\* What Max returns of one: its greatest element.
LEMMA MaxIs ==
  ASSUME NEW S, IsFiniteSet(S), S # {}, \A x \in S : x \in Nat
  PROVE  Max(S) \in S /\ \A y \in S : y <= Max(S)
<1> DEFINE R == {p \in S \X S : p[1] <= p[2]}
<1>1. \A x, y \in S : <<x, y>> \in R <=> x <= y
  OBVIOUS
<1>2. (\A x, y \in S : x <= y \/ y <= x) /\ \A x, y, z \in S : x <= y /\ y <= z => x <= z
  OBVIOUS
<1> HIDE DEF R
<1>3. \E x \in S : \A y \in S : <<y, x>> \in R
  BY <1>1, <1>2, Greatest
<1>4. \E x \in S : \A y \in S : x >= y
  BY <1>1, <1>3
<1> QED BY <1>4 DEF Max

-----------------------------------------------------------------------------
(* Deduplication *)

Numbered(r) == r.schema \in Nat /\ r.ingested \in Nat /\ r.source \in Nat

\* Of finitely many rows one is superseded by no other.
LEMMA NewestIs ==
  ASSUME NEW A, IsFiniteSet(A), A # {}, \A r \in A : Numbered(r)
  PROVE  Newest(A) \in A /\ \A o \in A \ {Newest(A)} : ~Supersedes(o, Newest(A))
<1> DEFINE R == {p \in A \X A : ~Supersedes(p[1], p[2])}
<1>1. \A x, y \in A : <<x, y>> \in R <=> ~Supersedes(x, y)
  OBVIOUS
<1>2. \A x, y \in A : ~Supersedes(x, y) \/ ~Supersedes(y, x)
  BY DEF Numbered, Supersedes
<1>3. \A x, y, z \in A : ~Supersedes(x, y) /\ ~Supersedes(y, z) => ~Supersedes(x, z)
  BY DEF Numbered, Supersedes
<1> HIDE DEF R
<1>4. \E x \in A : \A y \in A : <<y, x>> \in R
  <2>1. \A x, y \in A : <<x, y>> \in R \/ <<y, x>> \in R
    BY <1>1, <1>2
  <2>2. \A x, y, z \in A : <<x, y>> \in R /\ <<y, z>> \in R => <<x, z>> \in R
    BY <1>1, <1>3
  <2> QED BY <2>1, <2>2, Greatest
<1>5. \E x \in A : \A o \in A \ {x} : ~Supersedes(o, x)
  BY <1>1, <1>4
<1> QED BY <1>5 DEF Newest

\* Deduplication keeps one row of each key, which no row of the key supersedes.
LEMMA Deduplicated ==
  ASSUME NEW A, IsFiniteSet(A), \A r \in A : Numbered(r)
  PROVE  /\ \A d \in Deduplicate(A) : d \in A
         /\ \A d \in Deduplicate(A) : \A o \in A :
              BusinessKey(o) = BusinessKey(d) /\ o # d => ~Supersedes(o, d)
         /\ \A r \in A : \E d \in Deduplicate(A) : BusinessKey(d) = BusinessKey(r)
         /\ \A d, e \in Deduplicate(A) : BusinessKey(d) = BusinessKey(e) => d = e
<1> DEFINE Of(k) == {o \in A : BusinessKey(o) = k}
           keys  == {BusinessKey(r) : r \in A}
<1>1. Deduplicate(A) = {Newest(Of(k)) : k \in keys}
  BY DEF Deduplicate
<1>2. ASSUME NEW k \in keys
      PROVE  /\ Newest(Of(k)) \in A /\ BusinessKey(Newest(Of(k))) = k
             /\ \A o \in A : BusinessKey(o) = k /\ o # Newest(Of(k)) =>
                  ~Supersedes(o, Newest(Of(k)))
  <2>1. IsFiniteSet(Of(k))
    BY FS_Subset
  <2>2. Of(k) # {} /\ \A r \in Of(k) : Numbered(r)
    OBVIOUS
  <2>3. \A o : o \in Of(k) <=> o \in A /\ BusinessKey(o) = k
    OBVIOUS
  <2> HIDE DEF Of
  <2>4. Newest(Of(k)) \in Of(k) /\ \A o \in Of(k) \ {Newest(Of(k))} : ~Supersedes(o, Newest(Of(k)))
    BY <2>1, <2>2, NewestIs
  <2> QED BY <2>3, <2>4
<1>3. \A r \in A : BusinessKey(r) \in keys
  OBVIOUS
<1> HIDE DEF Of, keys
<1>4. \A d \in Deduplicate(A) : \E k \in keys : d = Newest(Of(k))
  BY <1>1
<1>5. \A k \in keys : Newest(Of(k)) \in Deduplicate(A)
  BY <1>1
<1> QED BY <1>2, <1>3, <1>4, <1>5

-----------------------------------------------------------------------------
(* Dimensions *)

\* Versions of a history, at different times of their key.
IsHistory(H) ==
  /\ \A v \in H : v.at \in 0 .. LastTime
  /\ \A v, o \in H : v.key = o.key /\ v.at = o.at => v = o

\* Times are finitely many naturals.
LEMMA TimesBelow ==
  ASSUME NEW S, \A x \in S : x \in 0 .. LastTime
  PROVE  IsFiniteSet(S) /\ \A x \in S : x \in Nat
<1>1. LastTime \in Nat
  BY LandingsAssumption
<1>2. IsFiniteSet(0 .. LastTime)
  BY <1>1, FS_Interval
<1> QED BY <1>1, <1>2, FS_Subset

\* The version a history has at a time of a key it knows by then.
LEMMA LatestIs ==
  ASSUME NEW A, A # {}, \A v \in A : v.at \in 0 .. LastTime
  PROVE  Latest(A) \in A /\ \A o \in A : o.at <= Latest(A).at
<1> DEFINE T == {v.at : v \in A}
<1>1. \A x \in T : x \in 0 .. LastTime
  OBVIOUS
<1>2. T # {} /\ (\A x \in T : \E v \in A : v.at = x) /\ \A v \in A : v.at \in T
  OBVIOUS
<1> HIDE DEF T
<1>3. Max(T) \in T /\ \A x \in T : x <= Max(T)
  BY <1>1, <1>2, TimesBelow, MaxIs
<1>4. \E v \in A : \A o \in A : o.at <= v.at
  BY <1>2, <1>3
<1> QED BY <1>4 DEF Latest

\* Likewise the first one.
LEMMA FirstOf ==
  ASSUME NEW A, A # {}, \A v \in A : v.at \in 0 .. LastTime
  PROVE  \E v \in A : \A o \in A : v.at <= o.at
<1> DEFINE T == {v.at : v \in A}
<1>1. \A x \in T : x \in 0 .. LastTime
  OBVIOUS
<1>2. T # {} /\ (\A x \in T : \E v \in A : v.at = x) /\ \A v \in A : v.at \in T
  OBVIOUS
<1> HIDE DEF T
<1>3. Min(T) \in T /\ \A x \in T : Min(T) <= x
  BY <1>1, <1>2, TimesBelow, MinIs
<1> QED BY <1>2, <1>3

\* A dimension row is made of a version.  It starts with the version, or the first
\* one of a key with the first play before it, and ends where the next one starts.
LEMMA DimensionRows ==
  ASSUME NEW H, IsHistory(H), NEW plays, \A p \in plays : p.at \in 0 .. LastTime
  PROVE  \E Row \in [H -> Dimension(H, plays)] :
           /\ Dimension(H, plays) = {Row[v] : v \in H}
           /\ \A v \in H :
                /\ Row[v].key = v.key /\ Row[v].state = v.state
                /\ Row[v].from \in Nat /\ Row[v].from <= v.at
                /\ Row[v].from = v.at \/ \A o \in H : o.key = v.key => v.at <= o.at
                /\ (\A o \in H : o.key = v.key => v.at <= o.at) =>
                     \A p \in plays : p.key = v.key => Row[v].from <= p.at
                /\ Row[v].to \in Nat
                /\ \/ Row[v].to = EndOfTime
                   \/ \E o \in H : o.key = v.key /\ o.at > v.at /\ Row[v].to = o.at
                /\ \A o \in H : o.key = v.key /\ o.at > v.at => Row[v].to <= o.at
<1> DEFINE Later(v) == {o.at : o \in {x \in H : x.key = v.key /\ x.at > v.at}}
           First(v) == \A o \in H : o.key = v.key => v.at <= o.at
           Starts(v) == {v.at} \cup {p.at : p \in {x \in plays : x.key = v.key}}
           From(v)  == IF First(v) THEN Min(Starts(v)) ELSE v.at
           To(v)    == IF Later(v) = {} THEN EndOfTime ELSE Min(Later(v))
           Row      == [v \in H |-> [key |-> v.key, state |-> v.state, from |-> From(v),
                                     to |-> To(v), created |-> v.created]]
<1>1. Dimension(H, plays) = {Row[v] : v \in H}
  BY DEF Dimension
<1>2. ASSUME NEW v \in H
      PROVE  /\ From(v) \in Nat /\ From(v) <= v.at
             /\ From(v) = v.at \/ First(v)
             /\ First(v) => \A p \in plays : p.key = v.key => From(v) <= p.at
  <2>1. v.at \in Nat /\ v.at \in 0 .. LastTime
    BY LandingsAssumption DEF IsHistory
  <2>2. \A x \in Starts(v) : x \in 0 .. LastTime
    BY <2>1
  <2>3. v.at \in Starts(v) /\ \A p \in plays : p.key = v.key => p.at \in Starts(v)
    OBVIOUS
  <2> HIDE DEF Starts
  <2>4. Min(Starts(v)) \in Starts(v) /\ \A y \in Starts(v) : Min(Starts(v)) <= y
    BY <2>2, <2>3, TimesBelow, MinIs
  <2>5. Min(Starts(v)) \in Nat
    BY <2>2, <2>4, TimesBelow
  <2> HIDE DEF First
  <2> QED BY <2>1, <2>3, <2>4, <2>5
<1>3. ASSUME NEW v \in H
      PROVE  /\ To(v) \in Nat
             /\ To(v) = EndOfTime \/ \E o \in H : o.key = v.key /\ o.at > v.at /\ To(v) = o.at
             /\ \A o \in H : o.key = v.key /\ o.at > v.at => To(v) <= o.at
  <2>1. \A x \in Later(v) : x \in 0 .. LastTime
    BY DEF IsHistory
  <2>2. /\ \A o \in H : o.key = v.key /\ o.at > v.at => o.at \in Later(v)
        /\ \A x \in Later(v) : \E o \in H : o.key = v.key /\ o.at > v.at /\ x = o.at
    OBVIOUS
  <2> HIDE DEF Later
  <2>3. Later(v) # {} => Min(Later(v)) \in Later(v) /\ \A y \in Later(v) : Min(Later(v)) <= y
    BY <2>1, TimesBelow, MinIs
  <2>4. EndOfTime \in Nat /\ \A x \in Later(v) : x \in Nat
    BY <2>1, TimesBelow, ClockAssumption
  <2> QED BY <2>2, <2>3, <2>4
<1>4. \A v \in H : /\ Row[v].key = v.key /\ Row[v].state = v.state
                   /\ Row[v].from = From(v) /\ Row[v].to = To(v)
  OBVIOUS
<1>5. Row \in [H -> Dimension(H, plays)]
  BY <1>1
<1> HIDE DEF From, To, Row
<1> QED BY <1>1, <1>2, <1>3, <1>4, <1>5

\* Exactly one version of a key is valid at each time from its first version or its
\* first play on: the one the history has at that time, if it has one.
LEMMA OneIsValid ==
  ASSUME NEW H, IsHistory(H), NEW plays, \A p \in plays : p.at \in 0 .. LastTime,
         NEW k, \E o \in H : o.key = k,
         NEW t \in 0 .. LastTime,
         AsOf(H, k, t) # {} \/ \E p \in plays : p.key = k /\ p.at <= t
  PROVE  \E v \in Dimension(H, plays) :
           /\ ValidAt(Dimension(H, plays), k, t) = {v} /\ v.key = k
           /\ AsOf(H, k, t) # {} => v.state = Latest(AsOf(H, k, t)).state
<1> DEFINE D == Dimension(H, plays)
<1>1. PICK Row \in [H -> D] :
           /\ D = {Row[v] : v \in H}
           /\ \A v \in H :
                /\ Row[v].key = v.key /\ Row[v].state = v.state
                /\ Row[v].from \in Nat /\ Row[v].from <= v.at
                /\ Row[v].from = v.at \/ \A o \in H : o.key = v.key => v.at <= o.at
                /\ (\A o \in H : o.key = v.key => v.at <= o.at) =>
                     \A p \in plays : p.key = v.key => Row[v].from <= p.at
                /\ Row[v].to \in Nat
                /\ \/ Row[v].to = EndOfTime
                   \/ \E o \in H : o.key = v.key /\ o.at > v.at /\ Row[v].to = o.at
                /\ \A o \in H : o.key = v.key /\ o.at > v.at => Row[v].to <= o.at
  BY DimensionRows
<1>2. \A v \in H : v.at \in Nat /\ v.at \in 0 .. LastTime
  BY LandingsAssumption DEF IsHistory
<1>3. t \in Nat /\ EndOfTime \in Nat /\ t < EndOfTime
  BY LandingsAssumption, ClockAssumption
<1>4. \E c \in H : /\ c.key = k
                   /\ AsOf(H, k, t) # {} => /\ c = Latest(AsOf(H, k, t)) /\ c.at <= t
                                            /\ \A o \in H : o.key = k /\ o.at <= t => o.at <= c.at
                   /\ AsOf(H, k, t) = {} => \A o \in H : o.key = k => c.at <= o.at
  <2>1. CASE AsOf(H, k, t) # {}
    <3>1. /\ Latest(AsOf(H, k, t)) \in AsOf(H, k, t)
          /\ \A o \in AsOf(H, k, t) : o.at <= Latest(AsOf(H, k, t)).at
      BY <1>2, <2>1, LatestIs DEF AsOf
    <3> QED BY <2>1, <3>1 DEF AsOf
  <2>2. CASE AsOf(H, k, t) = {}
    <3> DEFINE A == {o \in H : o.key = k}
    <3>1. \E c \in A : \A o \in A : c.at <= o.at
      BY <1>2, FirstOf
    <3> QED BY <2>2, <3>1
  <2> QED BY <2>1, <2>2
<1>5. PICK c \in H : /\ c.key = k
                     /\ AsOf(H, k, t) # {} => /\ c = Latest(AsOf(H, k, t)) /\ c.at <= t
                                              /\ \A o \in H : o.key = k /\ o.at <= t => o.at <= c.at
                     /\ AsOf(H, k, t) = {} => \A o \in H : o.key = k => c.at <= o.at
  BY <1>4
<1>6. AsOf(H, k, t) = {} => \A o \in H : o.key = k => o.at > t
  BY <1>2, <1>3 DEF AsOf
<1>7. Row[c].from <= t
  <2>1. CASE AsOf(H, k, t) # {}
    BY <1>1, <1>2, <1>3, <1>5, <2>1
  <2>2. CASE AsOf(H, k, t) = {}
    <3>1. PICK p \in plays : p.key = k /\ p.at <= t /\ p.at \in 0 .. LastTime
      BY <2>2
    <3>2. Row[c].from <= p.at
      BY <1>1, <1>5, <2>2, <3>1
    <3> QED BY <1>1, <1>3, <3>1, <3>2, LandingsAssumption
  <2> QED BY <2>1, <2>2
<1>8. t < Row[c].to
  <2>1. CASE Row[c].to = EndOfTime
    BY <1>3, <2>1
  <2>2. ASSUME NEW o \in H, o.key = c.key, o.at > c.at, Row[c].to = o.at PROVE t < Row[c].to
    <3>1. o.at > t
      BY <1>2, <1>3, <1>5, <1>6, <2>2
    <3> QED BY <2>2, <3>1, <1>2, <1>3
  <2> QED BY <1>1, <2>1, <2>2
<1>9. ASSUME NEW v \in H, v.key = k, Row[v].from <= t, t < Row[v].to PROVE v = c
  <2>1. CASE v.at <= t
    <3>1. AsOf(H, k, t) # {}
      BY <1>9, <2>1 DEF AsOf
    <3>2. v.at <= c.at /\ c.at <= t
      BY <1>5, <1>9, <2>1, <3>1
    <3>3. ~(c.at > v.at)
      BY <1>1, <1>2, <1>3, <1>5, <1>9, <3>2
    <3> QED BY <1>2, <1>5, <1>9, <3>2, <3>3 DEF IsHistory
  <2>2. CASE v.at > t
    <3>1. \A o \in H : o.key = k => v.at <= o.at
      <4>1. Row[v].from \in Nat /\ Row[v].from # v.at
        <5>1. Row[v].from \in Nat /\ v.at \in Nat
          BY <1>1, <1>2
        <5> QED BY <1>3, <1>9, <2>2, <5>1
      <4> QED BY <1>1, <1>9, <4>1
    <3>2. AsOf(H, k, t) = {}
      <4>1. \A o \in H : o.key = k => ~(o.at <= t)
        BY <1>2, <1>3, <2>2, <3>1
      <4> QED BY <4>1 DEF AsOf
    <3>3. v.at <= c.at /\ c.at <= v.at
      BY <1>5, <1>9, <3>1, <3>2
    <3> QED BY <1>2, <1>5, <1>9, <3>3 DEF IsHistory
  <2> QED BY <1>2, <1>3, <2>1, <2>2
<1> HIDE DEF D
<1>10. ASSUME NEW d \in D PROVE d \in ValidAt(D, k, t) <=> d = Row[c]
  <2>1. PICK v \in H : d = Row[v]
    BY <1>1
  <2>2. d \in ValidAt(D, k, t) <=> v.key = k /\ Row[v].from <= t /\ t < Row[v].to
    BY <1>1, <2>1 DEF ValidAt
  <2>3. d \in ValidAt(D, k, t) => d = Row[c]
    BY <1>9, <2>1, <2>2
  <2>4. Row[c].key = k
    BY <1>1, <1>5
  <2> QED BY <1>7, <1>8, <2>3, <2>4 DEF ValidAt
<1>11. Row[c] \in D
  BY <1>1
<1>12. ValidAt(D, k, t) = {Row[c]}
  BY <1>10, <1>11 DEF ValidAt
<1>13. Row[c].key = k /\ (AsOf(H, k, t) # {} => Row[c].state = Latest(AsOf(H, k, t)).state)
  BY <1>1, <1>5
<1> QED BY <1>11, <1>12, <1>13 DEF D

-----------------------------------------------------------------------------
(* Histories *)

\* Of a history of changes: when there is a version, and what the latest one says.
LEMMA ChangesOnlyIs ==
  ASSUME NEW H, IsHistory(H), NEW k, NEW t \in 0 .. LastTime, AsOf(H, k, t) # {}
  PROVE  /\ AsOf(ChangesOnly(H), k, t) # {}
         /\ Latest(AsOf(ChangesOnly(H), k, t)).state = Latest(AsOf(H, k, t)).state
<1> DEFINE C == ChangesOnly(H)
           h == Latest(AsOf(H, k, t))
           Run == {v \in H : /\ v.key = k /\ v.at <= t
                             /\ \A w \in H : w.key = k /\ v.at <= w.at /\ w.at <= t =>
                                  w.state = h.state}
<1>1. \A v \in H : v.at \in Nat /\ v.at \in 0 .. LastTime
  BY LandingsAssumption DEF IsHistory
<1>2. t \in Nat
  BY LandingsAssumption
<1>3. h \in AsOf(H, k, t) /\ \A o \in AsOf(H, k, t) : o.at <= h.at
  <2>1. \A v \in AsOf(H, k, t) : v.at \in 0 .. LastTime
    BY <1>1 DEF AsOf
  <2> QED BY <2>1, LatestIs
<1>4. h \in H /\ h.key = k /\ h.at <= t /\ \A w \in H : w.key = k /\ w.at <= t => w.at <= h.at
  BY <1>3 DEF AsOf
<1> HIDE DEF h
<1>5. h \in Run
  <2>1. ASSUME NEW w \in H, w.key = k, h.at <= w.at, w.at <= t PROVE w.state = h.state
    <3>1. w.at <= h.at
      BY <1>4, <2>1
    <3>2. w.at = h.at
      BY <1>1, <1>4, <2>1, <3>1
    <3> QED BY <1>4, <2>1, <3>2 DEF IsHistory
  <2> QED BY <1>4, <2>1
<1>6. PICK m \in Run : \A o \in Run : m.at <= o.at
  <2>1. Run # {} /\ \A v \in Run : v.at \in 0 .. LastTime
    BY <1>1, <1>5
  <2> HIDE DEF Run
  <2> QED BY <2>1, FirstOf
<1>7. m \in C
  <2> DEFINE B == {o \in H : o.key = m.key /\ o.at < m.at}
             p == Latest(B)
  <2>1. SUFFICES ASSUME B # {}, p.state = m.state PROVE FALSE
    BY <1>6 DEF ChangesOnly
  <2>2. p \in B /\ \A o \in B : o.at <= p.at
    <3>1. \A v \in B : v.at \in 0 .. LastTime
      BY <1>1
    <3> HIDE DEF B
    <3> QED BY <2>1, <3>1, LatestIs
  <2>3. p \in H /\ p.key = k /\ p.at < m.at /\ \A o \in H : o.key = k /\ o.at < m.at => o.at <= p.at
    BY <1>6, <2>2
  <2> HIDE DEF p, B
  <2>4. m \in H /\ m.key = k /\ m.at <= t /\ m.state = h.state
    <3>1. m \in H /\ m.key = k /\ m.at <= t /\ m.at <= m.at
      BY <1>1, <1>6
    <3> QED BY <1>6, <3>1
  <2>5. ASSUME NEW w \in H, w.key = k, p.at <= w.at, w.at <= t PROVE w.state = h.state
    <3>1. CASE w.at < m.at
      <4>1. w.at <= p.at
        BY <2>3, <2>5, <3>1
      <4>2. w.at = p.at
        BY <1>1, <2>3, <2>5, <4>1
      <4>3. w = p
        BY <2>3, <2>5, <4>2 DEF IsHistory
      <4> QED BY <2>1, <2>4, <4>3
    <3>2. CASE m.at <= w.at
      BY <1>6, <2>5, <3>2
    <3> QED BY <1>1, <2>4, <3>1, <3>2
  <2>6. p \in Run
    <3>1. p.at <= t
      <4>1. p.at \in Nat /\ m.at \in Nat
        BY <1>1, <2>3, <2>4
      <4> QED BY <1>2, <2>3, <2>4, <4>1
    <3> QED BY <2>3, <2>5, <3>1
  <2>7. m.at <= p.at
    BY <1>6, <2>6
  <2> QED BY <1>1, <2>3, <2>4, <2>7
<1>8. m \in H /\ m.key = k /\ m.at <= t
  BY <1>6
<1>9. AsOf(C, k, t) # {} /\ m \in AsOf(C, k, t)
  BY <1>7, <1>8 DEF AsOf
<1>10. \A v \in AsOf(C, k, t) : v \in H /\ v.key = k /\ v.at <= t
  BY DEF AsOf, ChangesOnly
<1> HIDE DEF C
<1> DEFINE c == Latest(AsOf(C, k, t))
<1>11. c \in AsOf(C, k, t) /\ m.at <= c.at
  <2>1. \A v \in AsOf(C, k, t) : v.at \in 0 .. LastTime
    BY <1>1, <1>10
  <2> QED BY <1>9, <2>1, LatestIs
<1> HIDE DEF c
<1>12. c.state = h.state
  BY <1>6, <1>10, <1>11
<1> QED BY <1>9, <1>12 DEF C, c, h

\* Leaving out versions leaves a history.
LEMMA ChangesOnlyIsHistory ==
  ASSUME NEW H, IsHistory(H)
  PROVE  IsHistory(ChangesOnly(H)) /\ \A v \in ChangesOnly(H) : v \in H
BY DEF IsHistory, ChangesOnly

\* Rows of users, subscriptions or content as Silver holds them.
IsStaged(S) ==
  /\ \A r \in S : r.at \in 0 .. LastTime
  /\ \A r, o \in S : r.key = o.key /\ r.at = o.at => r = o

\* The plan of a user at a time.
Subscribed(subscriptions, u, t) ==
  IF AsOf(subscriptions, u, t) = {} THEN Nothing ELSE Latest(AsOf(subscriptions, u, t)).state

\* What the timeline says of a user at a time at which it has a profile.
LEMMA UserTimelineRows ==
  ASSUME NEW users, NEW subscriptions
  PROVE  /\ \A v \in UserTimeline(users, subscriptions) :
              /\ AsOf(users, v.key, v.at) # {}
              /\ \E r \in users \cup subscriptions : r.key = v.key /\ r.at = v.at
              /\ v.state = <<Latest(AsOf(users, v.key, v.at)).state,
                             Subscribed(subscriptions, v.key, v.at)>>
         /\ \A r \in users \cup subscriptions : AsOf(users, r.key, r.at) # {} =>
              \E v \in UserTimeline(users, subscriptions) : v.key = r.key /\ v.at = r.at
         /\ \A v, o \in UserTimeline(users, subscriptions) : v.key = o.key /\ v.at = o.at => v = o
<1> DEFINE Entry(u, t) ==
             LET profile == Latest(AsOf(users, u, t))
                 plans   == AsOf(subscriptions, u, t)
                 plan    == IF plans = {} THEN Nothing ELSE Latest(plans).state
                 seen    == {profile.ingested}
                              \cup IF plans = {} THEN {} ELSE {Latest(plans).ingested}
             IN  [key |-> u, at |-> t, state |-> <<profile.state, plan>>, created |-> Max(seen)]
           changes == {VersionKey(r) : r \in users \cup subscriptions}
           known   == {x \in changes : AsOf(users, x[1], x[2]) # {}}
           T       == UserTimeline(users, subscriptions)
<1>1. T = {Entry(c[1], c[2]) : c \in known}
  BY DEF UserTimeline
<1>2. \A u, t : /\ Entry(u, t).key = u /\ Entry(u, t).at = t
                /\ Entry(u, t).state = <<Latest(AsOf(users, u, t)).state,
                                         Subscribed(subscriptions, u, t)>>
  BY DEF Subscribed
<1>3. /\ \A c \in known : /\ AsOf(users, c[1], c[2]) # {}
                          /\ \E r \in users \cup subscriptions : r.key = c[1] /\ r.at = c[2]
      /\ \A r \in users \cup subscriptions : AsOf(users, r.key, r.at) # {} =>
           <<r.key, r.at>> \in known
  BY DEF VersionKey
<1> HIDE DEF Entry, known, changes
<1>4. ASSUME NEW v \in T PROVE \E c \in known : v = Entry(c[1], c[2])
  BY <1>1
<1>5. ASSUME NEW c \in known PROVE Entry(c[1], c[2]) \in T
  BY <1>1
<1> HIDE DEF T
<1>6. ASSUME NEW v \in T
      PROVE  /\ AsOf(users, v.key, v.at) # {} /\ v = Entry(v.key, v.at)
             /\ \E r \in users \cup subscriptions : r.key = v.key /\ r.at = v.at
  BY <1>2, <1>3, <1>4
<1>7. ASSUME NEW r \in users \cup subscriptions, AsOf(users, r.key, r.at) # {}
      PROVE  \E v \in T : v.key = r.key /\ v.at = r.at
  <2>1. <<r.key, r.at>> \in known
    BY <1>3, <1>7
  <2>2. Entry(<<r.key, r.at>>[1], <<r.key, r.at>>[2]) \in T
    BY <1>5, <2>1
  <2> QED BY <1>2, <2>2
<1>8. \A v, o \in T : v.key = o.key /\ v.at = o.at => v = o
  BY <1>6
<1>9. \A v \in T : v.state = <<Latest(AsOf(users, v.key, v.at)).state,
                               Subscribed(subscriptions, v.key, v.at)>>
  BY <1>2, <1>6
<1> QED BY <1>6, <1>7, <1>8, <1>9 DEF T

\* The latest row by a time is the latest one by any earlier time that is not before it.
LEMMA LatestBetween ==
  ASSUME NEW S, IsStaged(S), NEW k, NEW t \in 0 .. LastTime, NEW t1 \in 0 .. LastTime, t1 <= t,
         AsOf(S, k, t) # {}, Latest(AsOf(S, k, t)).at <= t1
  PROVE  AsOf(S, k, t1) # {} /\ Latest(AsOf(S, k, t1)) = Latest(AsOf(S, k, t))
<1> DEFINE p == Latest(AsOf(S, k, t))
           q == Latest(AsOf(S, k, t1))
<1>1. \A r \in S : r.at \in Nat /\ r.at \in 0 .. LastTime
  BY LandingsAssumption DEF IsStaged
<1>2. t \in Nat /\ t1 \in Nat
  BY LandingsAssumption
<1>3. p \in AsOf(S, k, t) /\ \A o \in AsOf(S, k, t) : o.at <= p.at
  <2>1. \A v \in AsOf(S, k, t) : v.at \in 0 .. LastTime
    BY <1>1 DEF AsOf
  <2> QED BY <2>1, LatestIs
<1>4. p \in AsOf(S, k, t1)
  BY <1>3 DEF AsOf
<1>5. q \in AsOf(S, k, t1) /\ \A o \in AsOf(S, k, t1) : o.at <= q.at
  <2>1. \A v \in AsOf(S, k, t1) : v.at \in 0 .. LastTime
    BY <1>1 DEF AsOf
  <2> QED BY <1>4, <2>1, LatestIs
<1> HIDE DEF p, q
<1>6. p \in S /\ q \in S /\ p.key = k /\ q.key = k /\ p.at <= q.at /\ q.at <= t1
  BY <1>3, <1>4, <1>5 DEF AsOf
<1>7. q \in AsOf(S, k, t)
  <2>1. q.at <= t
    BY <1>1, <1>2, <1>6
  <2> QED BY <1>6, <2>1 DEF AsOf
<1>8. q.at = p.at
  BY <1>1, <1>3, <1>6, <1>7
<1>9. q = p
  BY <1>6, <1>8 DEF IsStaged
<1> QED BY <1>4, <1>9 DEF p, q

\* The latest row of an entity in Silver by a time.
LEMMA StagedLatest ==
  ASSUME NEW S, IsStaged(S), NEW k, NEW t, AsOf(S, k, t) # {}
  PROVE  LET p == Latest(AsOf(S, k, t))
         IN  /\ p \in S /\ p.key = k /\ p.at <= t /\ p.at \in 0 .. LastTime /\ p.at \in Nat
             /\ \A o \in S : o.key = k /\ o.at <= t => o.at <= p.at
<1>1. \A v \in AsOf(S, k, t) : v.at \in 0 .. LastTime
  BY DEF AsOf, IsStaged
<1>2. Latest(AsOf(S, k, t)) \in AsOf(S, k, t)
      /\ \A o \in AsOf(S, k, t) : o.at <= Latest(AsOf(S, k, t)).at
  BY <1>1, LatestIs
<1>3. \A r \in S : r.at \in 0 .. LastTime /\ r.at \in Nat
  BY LandingsAssumption DEF IsStaged
<1> QED BY <1>2, <1>3 DEF AsOf

\* The history of users is made of their profiles and subscriptions at each time.
LEMMA UserTimelineIs ==
  ASSUME NEW users, IsStaged(users), NEW subscriptions, IsStaged(subscriptions)
  PROVE  LET T == UserTimeline(users, subscriptions)
         IN  /\ IsHistory(T)
             /\ \A u : (\E v \in T : v.key = u) <=> \E r \in users : r.key = u
             /\ \A u : \A t \in 0 .. LastTime : AsOf(users, u, t) # {} =>
                  /\ AsOf(T, u, t) # {}
                  /\ Latest(AsOf(T, u, t)).state = <<Latest(AsOf(users, u, t)).state,
                                                     Subscribed(subscriptions, u, t)>>
<1> DEFINE T == UserTimeline(users, subscriptions)
<1>1. /\ \A v \in T : /\ AsOf(users, v.key, v.at) # {}
                      /\ \E r \in users \cup subscriptions : r.key = v.key /\ r.at = v.at
                      /\ v.state = <<Latest(AsOf(users, v.key, v.at)).state,
                                     Subscribed(subscriptions, v.key, v.at)>>
      /\ \A r \in users \cup subscriptions : AsOf(users, r.key, r.at) # {} =>
           \E v \in T : v.key = r.key /\ v.at = r.at
      /\ \A v, o \in T : v.key = o.key /\ v.at = o.at => v = o
  BY UserTimelineRows
<1> HIDE DEF T
<1>2. \A r \in users \cup subscriptions : r.at \in 0 .. LastTime /\ r.at \in Nat
  BY LandingsAssumption DEF IsStaged
<1>3. IsHistory(T)
  BY <1>1, <1>2 DEF IsHistory
<1>4. \A r \in users : AsOf(users, r.key, r.at) # {}
  <2>1. \A r \in users : r.at <= r.at
    BY <1>2
  <2> QED BY <2>1 DEF AsOf
<1>5. ASSUME NEW u PROVE (\E v \in T : v.key = u) <=> \E r \in users : r.key = u
  <2>1. ASSUME NEW v \in T, v.key = u PROVE \E r \in users : r.key = u
    BY <1>1, <2>1 DEF AsOf
  <2>2. ASSUME NEW r \in users, r.key = u PROVE \E v \in T : v.key = u
    BY <1>1, <1>4, <2>2
  <2> QED BY <2>1, <2>2
<1>6. ASSUME NEW u, NEW t \in 0 .. LastTime, AsOf(users, u, t) # {}
      PROVE  /\ AsOf(T, u, t) # {}
             /\ Latest(AsOf(T, u, t)).state = <<Latest(AsOf(users, u, t)).state,
                                                Subscribed(subscriptions, u, t)>>
  <2> DEFINE p == Latest(AsOf(users, u, t))
             c == Latest(AsOf(T, u, t))
  <2>0. t \in Nat
    BY LandingsAssumption
  <2>1. p \in users /\ p.key = u /\ p.at <= t /\ p.at \in Nat
    BY <1>6, StagedLatest
  <2> HIDE DEF p
  <2>2. PICK v \in T : v.key = u /\ v.at = p.at
    BY <1>1, <1>4, <2>1
  <2>3. v \in AsOf(T, u, t)
    BY <2>1, <2>2 DEF AsOf
  <2>4. IsStaged(T)
    BY <1>3 DEF IsHistory, IsStaged
  <2>5. /\ c \in T /\ c.key = u /\ c.at <= t /\ c.at \in 0 .. LastTime /\ c.at \in Nat
        /\ \A o \in T : o.key = u /\ o.at <= t => o.at <= c.at
    BY <2>3, <2>4, StagedLatest
  <2> HIDE DEF c
  <2>6. p.at <= c.at
    BY <2>1, <2>2, <2>5
  <2>7. Latest(AsOf(users, u, c.at)) = p
    BY <1>6, <2>5, <2>6, LatestBetween DEF p
  <2>8. Subscribed(subscriptions, u, c.at) = Subscribed(subscriptions, u, t)
    <3>1. CASE AsOf(subscriptions, u, t) = {}
      <4>1. \A o \in subscriptions : o.key = u => ~(o.at <= t)
        BY <3>1 DEF AsOf
      <4>2. \A o \in subscriptions : o.key = u => ~(o.at <= c.at)
        BY <1>2, <2>0, <2>5, <4>1
      <4>3. AsOf(subscriptions, u, c.at) = {}
        BY <4>2 DEF AsOf
      <4> QED BY <3>1, <4>3 DEF Subscribed
    <3>2. CASE AsOf(subscriptions, u, t) # {}
      <4> DEFINE s == Latest(AsOf(subscriptions, u, t))
      <4>1. s \in subscriptions /\ s.key = u /\ s.at <= t /\ s.at \in Nat
        BY <3>2, StagedLatest
      <4> HIDE DEF s
      <4>2. s.at <= c.at
        <5>1. CASE AsOf(users, u, s.at) # {}
          <6>1. PICK w \in T : w.key = u /\ w.at = s.at
            BY <1>1, <4>1, <5>1
          <6> QED BY <2>5, <4>1, <6>1
        <5>2. CASE AsOf(users, u, s.at) = {}
          <6>1. ~(p.at <= s.at)
            BY <2>1, <5>2 DEF AsOf
          <6> QED BY <2>1, <2>5, <2>6, <4>1, <6>1
        <5> QED BY <5>1, <5>2
      <4>3. AsOf(subscriptions, u, c.at) # {} /\ Latest(AsOf(subscriptions, u, c.at)) = s
        BY <2>5, <3>2, <4>2, LatestBetween DEF s
      <4> QED BY <3>2, <4>3 DEF Subscribed, s
    <3> QED BY <3>1, <3>2
  <2>9. c.state = <<p.state, Subscribed(subscriptions, u, t)>>
    BY <1>1, <2>5, <2>7, <2>8
  <2> QED BY <2>3, <2>9 DEF c, p
<1> QED BY <1>3, <1>5, <1>6 DEF T

\* The history of the content has the keys of the content in Silver.
LEMMA ContentTimelineIs ==
  ASSUME NEW content, IsStaged(content)
  PROVE  /\ IsHistory(ContentTimeline(content))
         /\ \A k : (\E v \in ContentTimeline(content) : v.key = k)
                     <=> \E r \in content : r.key = k
<1> DEFINE T == ContentTimeline(content)
           Row(v) == [key |-> v.key, at |-> v.at, state |-> <<v.state>>, created |-> v.ingested]
<1>1. T = {Row(v) : v \in content}
  BY DEF ContentTimeline
<1>2. \A v \in content : Row(v).key = v.key /\ Row(v).at = v.at
  OBVIOUS
<1> HIDE DEF Row
<1>3. \A v \in content : Row(v) \in T
  BY <1>1
<1>4. \A r \in T : \E v \in content : r = Row(v)
  BY <1>1
<1> HIDE DEF T
<1>5. IsHistory(T)
  BY <1>2, <1>4 DEF IsHistory, IsStaged
<1>6. ASSUME NEW k PROVE (\E v \in T : v.key = k) <=> \E r \in content : r.key = k
  BY <1>2, <1>3, <1>4
<1> QED BY <1>5, <1>6 DEF T

-----------------------------------------------------------------------------
(* Silver *)

IsVersions(rows) == IsSource(rows, Version)
IsEvents(rows)   == IsSource(rows, Event)

\* What DP1 has appended so far, or a filter of DP2 keeps, are source rows too.
LEMMA SourceSubset ==
  ASSUME NEW rows, NEW Kind, IsSource(rows, Kind), NEW T \in SUBSET rows
  PROVE  IsSource(T, Kind)
<1>1. IsFiniteSet(T)
  BY FS_Subset DEF IsSource
<1> QED BY <1>1 DEF IsSource, Copies

\* Versions are numbered as Supersedes asks, and keyed by entity and time.
LEMMA VersionRows ==
  ASSUME NEW rows, IsVersions(rows)
  PROVE  /\ IsFiniteSet(rows)
         /\ \A r \in rows : /\ Numbered(r) /\ r.at \in 0 .. LastTime
                            /\ BusinessKey(r) = <<r.key, r.at>>
<1>1. \A r \in rows : Numbered(r) /\ r.at \in 0 .. LastTime
  BY LandingsAssumption DEF IsVersions, IsSource, Version, Numbered
<1>2. ASSUME NEW r \in rows PROVE BusinessKey(r) = <<r.key, r.at>>
  <2>1. r \in Version
    BY DEF IsVersions, IsSource
  <2>2. "event" \notin DOMAIN r
    BY <2>1 DEF Version
  <2> QED BY <2>2 DEF BusinessKey, VersionKey
<1> QED BY <1>1, <1>2 DEF IsVersions, IsSource

\* Silver holds each entity once for each time, and forgets none.
LEMMA DeduplicateStages ==
  ASSUME NEW rows, IsVersions(rows)
  PROVE  /\ IsStaged(Deduplicate(rows))
         /\ \A d \in Deduplicate(rows) : d \in rows
         /\ \A r \in rows : \E d \in Deduplicate(rows) : d.key = r.key /\ d.at = r.at
<1>1. /\ \A d \in Deduplicate(rows) : d \in rows
      /\ \A r \in rows : \E d \in Deduplicate(rows) : BusinessKey(d) = BusinessKey(r)
      /\ \A d, e \in Deduplicate(rows) : BusinessKey(d) = BusinessKey(e) => d = e
  BY VersionRows, Deduplicated
<1>2. \A r \in rows : r.at \in 0 .. LastTime /\ BusinessKey(r) = <<r.key, r.at>>
  BY VersionRows
<1> QED BY <1>1, <1>2 DEF IsStaged

\* What the latest row of Silver says is what the source said.
LEMMA SaidIs ==
  ASSUME NEW rows, IsVersions(rows), NEW k, NEW t \in 0 .. LastTime
  PROVE  Said(rows, k, t) = IF AsOf(Deduplicate(rows), k, t) = {} THEN {}
                            ELSE {Latest(AsOf(Deduplicate(rows), k, t)).state}
<1> DEFINE D     == Deduplicate(rows)
           known == {r \in rows : r.key = k /\ r.at <= t}
           best  == {r \in known : \A o \in known \ {r} :
                       o.at < r.at \/ (o.at = r.at /\ ~Supersedes(o, r))}
           L     == Latest(AsOf(D, k, t))
<1>0. Said(rows, k, t) = {r.state : r \in best}
  BY DEF Said
<1>1. /\ IsStaged(D)
      /\ \A d \in D : d \in rows
      /\ \A r \in rows : \E d \in D : d.key = r.key /\ d.at = r.at
  BY DeduplicateStages
<1>2. \A r \in rows : /\ Numbered(r) /\ r.at \in 0 .. LastTime /\ r.at \in Nat
                      /\ BusinessKey(r) = <<r.key, r.at>>
  BY VersionRows, LandingsAssumption
<1>3. \A d \in D : \A o \in rows : BusinessKey(o) = BusinessKey(d) /\ o # d => ~Supersedes(o, d)
  BY VersionRows, Deduplicated
<1> HIDE DEF D
<1>4. CASE AsOf(D, k, t) = {}
  <2>1. \A d \in D : d.key = k => ~(d.at <= t)
    BY <1>4 DEF AsOf
  <2>2. best = {}
    BY <1>1, <2>1
  <2> HIDE DEF best
  <2> QED BY <1>0, <1>4, <2>2 DEF D
<1>5. CASE AsOf(D, k, t) # {}
  <2>1. L \in D /\ L.key = k /\ L.at <= t /\ \A o \in D : o.key = k /\ o.at <= t => o.at <= L.at
    BY <1>1, <1>5, StagedLatest
  <2> HIDE DEF L
  <2>2. L \in known /\ \A o \in known : o.at <= L.at
    BY <1>1, <2>1
  <2>3. ASSUME NEW o \in known, o # L PROVE o.at < L.at \/ (o.at = L.at /\ ~Supersedes(o, L))
    <3>1. CASE o.at = L.at
      BY <1>1, <1>2, <1>3, <2>1, <2>3, <3>1
    <3>2. CASE o.at # L.at
      <4>1. o.at \in Nat /\ L.at \in Nat /\ o.at <= L.at
        BY <1>2, <2>2
      <4> QED BY <3>2, <4>1
    <3> QED BY <3>1, <3>2
  <2>4. L \in best
    BY <2>2, <2>3
  <2>5. ASSUME NEW r \in best PROVE r.state = L.state
    <3>1. CASE r = L
      BY <3>1
    <3>2. CASE r # L
      <4>1. r \in known /\ r \in rows /\ L \in rows /\ r.key = k /\ L.key = k
        BY <1>1, <2>1
      <4>2. L.at < r.at \/ (L.at = r.at /\ ~Supersedes(L, r))
        BY <2>2, <3>2
      <4>3. r.at \in Nat /\ L.at \in Nat /\ r.at <= L.at
        BY <1>2, <2>2, <4>1
      <4>4. L.at = r.at /\ ~Supersedes(L, r)
        BY <4>2, <4>3
      <4>5. BusinessKey(L) = BusinessKey(r)
        BY <1>2, <4>1, <4>4
      <4>6. ~Supersedes(r, L)
        BY <1>3, <2>1, <3>2, <4>1, <4>5
      <4>7. r.schema = L.schema
        BY <1>2, <4>1, <4>4, <4>6 DEF Supersedes, Numbered
      <4>8. r = [L EXCEPT !.ingested = r.ingested, !.source = r.source]
        BY <4>1, <4>5, <4>7 DEF IsVersions, IsSource, Copies
      <4>9. L \in Version
        BY <4>1 DEF IsVersions, IsSource
      <4> QED BY <4>8, <4>9 DEF Version
    <3> QED BY <3>1, <3>2
  <2> HIDE DEF best
  <2>6. Said(rows, k, t) = {L.state}
    BY <1>0, <2>4, <2>5
  <2> QED BY <1>5, <2>6 DEF L, D
<1> QED BY <1>4, <1>5

\* A session starts at the time of one of its events.
LEMMA SessionsStart ==
  ASSUME NEW rows, IsEvents(rows), NEW content
  PROVE  \A s \in BuildSessions(StageEvents(rows), content) : s.started \in 0 .. LastTime
<1> DEFINE events == StageEvents(rows)
           Session(group) ==
             LET e       == CHOOSE e \in group : TRUE
                 watch   == Max({x.watch : x \in group})
                 runtime == Runtime(content, e.content)
             IN  [session |-> e.session, user |-> e.user, content |-> e.content,
                  started |-> Min({x.at : x \in group}),
                  ended   |-> Max({x.at : x \in group}),
                  watch   |-> watch,
                  completed |-> \/ \E x \in group : x.completes
                                \/ runtime > 0 /\ watch * 100 >= CompletionPercent * runtime,
                  events  |-> Cardinality(group)]
           Grain(e) == <<e.session, e.user, e.content>>
           grains   == {Grain(e) : e \in events}
           Of(g)    == {e \in events : Grain(e) = g}
<1>1. BuildSessions(events, content) = {Session(Of(g)) : g \in grains}
  BY DEF BuildSessions
<1>2. \A group : Session(group).started = Min({x.at : x \in group})
  OBVIOUS
<1>3. \A r \in Valid(rows) : Numbered(r) /\ r.at \in 0 .. LastTime
  BY LandingsAssumption DEF IsEvents, IsSource, Event, Numbered, Valid
<1>4. IsFiniteSet(Valid(rows))
  BY FS_Subset DEF IsEvents, IsSource, Valid
<1>5. \A e \in events : e.at \in 0 .. LastTime
  BY <1>3, <1>4, Deduplicated DEF StageEvents
<1>6. \A g \in grains : Of(g) # {} /\ \A e \in Of(g) : e.at \in 0 .. LastTime
  BY <1>5
<1> HIDE DEF Session, Of, grains, events
<1>7. ASSUME NEW g \in grains PROVE Session(Of(g)).started \in 0 .. LastTime
  <2> DEFINE T == {x.at : x \in Of(g)}
  <2>1. T # {} /\ \A x \in T : x \in 0 .. LastTime
    BY <1>6
  <2> HIDE DEF T
  <2>2. Min(T) \in T
    BY <2>1, TimesBelow, MinIs
  <2> QED BY <1>2, <2>1, <2>2 DEF T
<1> QED BY <1>1, <1>7 DEF events

-----------------------------------------------------------------------------
(* Gold *)

\* A play of a key finds one surrogate key: none only of a key without a history.
LEMMA OneSurrogateKey ==
  ASSUME NEW H, IsHistory(H), NEW plays, \A p \in plays : p.at \in 0 .. LastTime,
         NEW q \in plays
  PROVE  \E sk : /\ SurrogateKeys(Dimension(ChangesOnly(H), plays), q.key, q.at) = {sk}
                 /\ sk # NoKey <=> \E v \in H : v.key = q.key
<1> DEFINE C == ChangesOnly(H)
           D == Dimension(C, plays)
<1>1. IsHistory(C) /\ \A v \in C : v \in H
  BY ChangesOnlyIsHistory
<1>2. q.at \in 0 .. LastTime /\ q.at <= q.at
  BY LandingsAssumption
<1> HIDE DEF C
<1>3. CASE \E v \in H : v.key = q.key
  <2>1. PICK v \in H : v.key = q.key
    BY <1>3
  <2>2. v.at \in 0 .. LastTime /\ v.at <= v.at
    BY LandingsAssumption DEF IsHistory
  <2>3. AsOf(H, q.key, v.at) # {}
    BY <2>1, <2>2 DEF AsOf
  <2>4. AsOf(C, q.key, v.at) # {}
    BY <2>2, <2>3, ChangesOnlyIs DEF C
  <2>5. \E o \in C : o.key = q.key
    BY <2>4 DEF AsOf
  <2>6. PICK d \in D : ValidAt(D, q.key, q.at) = {d}
    <3>1. \E p \in plays : p.key = q.key /\ p.at <= q.at
      BY <1>2
    <3> HIDE DEF D
    <3>2. \E d \in Dimension(C, plays) : ValidAt(Dimension(C, plays), q.key, q.at) = {d}
      BY <1>1, <1>2, <2>5, <3>1, OneIsValid
    <3> QED BY <3>2 DEF D
  <2>7. SurrogateKeys(D, q.key, q.at) = {<<d.key, d.from>>}
    BY <2>6 DEF SurrogateKeys
  <2>8. <<d.key, d.from>> # NoKey
    BY DEF NoKey
  <2> QED BY <1>3, <2>7, <2>8 DEF C
<1>4. CASE ~ \E v \in H : v.key = q.key
  <2>1. ASSUME NEW d \in D PROVE d.key # q.key
    <3>1. \E v \in C : d.key = v.key
      BY <1>1, DimensionRows
    <3> QED BY <1>1, <1>4, <3>1
  <2>2. ValidAt(D, q.key, q.at) = {}
    BY <2>1 DEF ValidAt
  <2>3. SurrogateKeys(D, q.key, q.at) = {NoKey}
    BY <2>2 DEF SurrogateKeys
  <2> QED BY <1>4, <2>3 DEF C
<1> QED BY <1>3, <1>4

\* Bronze holds rows of its landing bucket.
Landed ==
  /\ landing \in Landings
  /\ DOMAIN bronze = {"users", "subscriptions", "content", "events"}
  /\ \A dataset \in DOMAIN bronze : bronze[dataset] \subseteq landing[dataset]

\* DP1 appends only what has landed.
THEOREM BronzeIsLanded == Spec => []Landed
<1>1. Init => Landed
  BY DEF Init, Landed
<1>2. Landed /\ [Next]_vars => Landed'
  BY DEF Landed, Next, Append, vars
<1> QED BY <1>1, <1>2, PTL DEF Spec

\* Hence Bronze is made of source rows.
LEMMA BronzeIsSource ==
  ASSUME Landed
  PROVE  /\ IsVersions(bronze.users) /\ IsVersions(bronze.subscriptions)
         /\ IsVersions(bronze.content) /\ IsEvents(bronze.events)
<1>1. /\ bronze.users \subseteq landing.users /\ bronze.content \subseteq landing.content
      /\ bronze.subscriptions \subseteq landing.subscriptions
      /\ bronze.events \subseteq landing.events
  BY DEF Landed
<1>2. /\ IsVersions(landing.users) /\ IsVersions(landing.subscriptions)
      /\ IsVersions(landing.content) /\ IsEvents(landing.events)
  BY LandingsAssumption DEF Landed, IsVersions, IsEvents
<1> QED BY <1>1, <1>2, SourceSubset DEF IsVersions, IsEvents

\* The histories and the plays the dimensions are made of.
LEMMA SilverIs ==
  ASSUME Landed
  PROVE  LET silver == Silver(bronze)
         IN  /\ IsStaged(silver.users) /\ IsStaged(silver.subscriptions) /\ IsStaged(silver.content)
             /\ \A k : (\E v \in silver.users : v.key = k) <=> \E r \in bronze.users : r.key = k
             /\ \A k : (\E v \in silver.content : v.key = k)
                         <=> \E r \in Valid(bronze.content) : r.key = k
             /\ \A s \in silver.sessions : s.started \in 0 .. LastTime
             /\ silver.users = Deduplicate(bronze.users)
             /\ silver.subscriptions = Deduplicate(Valid(bronze.subscriptions))
<1>1. /\ IsVersions(bronze.users) /\ IsVersions(Valid(bronze.subscriptions))
      /\ IsVersions(Valid(bronze.content)) /\ IsEvents(bronze.events)
  BY BronzeIsSource, SourceSubset DEF IsVersions, Valid
<1>2. /\ Silver(bronze).users = Deduplicate(bronze.users)
      /\ Silver(bronze).subscriptions = Deduplicate(Valid(bronze.subscriptions))
      /\ Silver(bronze).content = Deduplicate(Valid(bronze.content))
      /\ Silver(bronze).sessions =
           BuildSessions(StageEvents(bronze.events), StageContent(bronze.content))
  BY DEF Silver, StageUsers, StageSubscriptions, StageContent
<1>3. \A s \in Silver(bronze).sessions : s.started \in 0 .. LastTime
  BY <1>1, <1>2, SessionsStart
<1>4. ASSUME NEW rows, IsVersions(rows)
      PROVE  /\ IsStaged(Deduplicate(rows))
             /\ \A k : (\E v \in Deduplicate(rows) : v.key = k) <=> \E r \in rows : r.key = k
  BY <1>4, DeduplicateStages
<1> QED BY <1>1, <1>2, <1>3, <1>4

\* A session has one row in the facts.
LEMMA OneFact ==
  ASSUME NEW sessions, NEW U, NEW C, NEW s \in sessions, NEW u, NEW c,
         SurrogateKeys(U, s.user, s.started) = {u},
         SurrogateKeys(C, s.content, s.started) = {c}
  PROVE  {f \in Facts(sessions, U, C) : f.play = s}
           = {[play |-> s, userSk |-> u, contentSk |-> c]}
<1> DEFINE Of(x) == {[play |-> x, userSk |-> a, contentSk |-> b] :
                       a \in SurrogateKeys(U, x.user, x.started),
                       b \in SurrogateKeys(C, x.content, x.started)}
<1>1. Facts(sessions, U, C) = UNION {Of(x) : x \in sessions}
  BY DEF Facts
<1>2. \A x \in sessions : \A f \in Of(x) : f.play = x
  OBVIOUS
<1>3. Of(s) = {[play |-> s, userSk |-> u, contentSk |-> c]}
  OBVIOUS
<1> HIDE DEF Of
<1>4. \A f : f \in Facts(sessions, U, C) <=> \E x \in sessions : f \in Of(x)
  BY <1>1
<1>5. \A f : f \in Facts(sessions, U, C) /\ f.play = s <=> f \in Of(s)
  BY <1>2, <1>4
<1>6. {f \in Facts(sessions, U, C) : f.play = s} = Of(s)
  BY <1>5
<1> QED BY <1>3, <1>6

\* A session has one row in the facts, with the surrogate key of a version of its user
\* and of its content, where they have a history.
LEMMA OneResolvedFact ==
  ASSUME NEW sessions, \A x \in sessions : x.started \in 0 .. LastTime, NEW s \in sessions,
         NEW users, NEW subscriptions, IsHistory(UserTimeline(users, subscriptions)),
         NEW content, IsHistory(ContentTimeline(content))
  PROVE  \E f :
           /\ \A x : x = f <=>
                /\ x.play = s
                /\ x \in Facts(sessions, DimUser(users, subscriptions, sessions),
                               DimContent(content, sessions))
           /\ f.userSk # NoKey    <=> \E r \in UserTimeline(users, subscriptions) : r.key = s.user
           /\ f.contentSk # NoKey <=> \E r \in ContentTimeline(content) : r.key = s.content
<1> DEFINE T == UserTimeline(users, subscriptions)
           K == ContentTimeline(content)
           viewings == {[key |-> x.user, at |-> x.started] : x \in sessions}
           showings == {[key |-> x.content, at |-> x.started] : x \in sessions}
           U == Dimension(ChangesOnly(T), viewings)
           C == Dimension(ChangesOnly(K), showings)
           v == [key |-> s.user, at |-> s.started]
           c == [key |-> s.content, at |-> s.started]
<1>0. U = DimUser(users, subscriptions, sessions) /\ C = DimContent(content, sessions)
  BY DEF DimUser, DimContent
<1>1. /\ v \in viewings /\ \A p \in viewings : p.at \in 0 .. LastTime
      /\ c \in showings /\ \A p \in showings : p.at \in 0 .. LastTime
  OBVIOUS
<1>2. v.key = s.user /\ v.at = s.started /\ c.key = s.content /\ c.at = s.started
  OBVIOUS
<1> HIDE DEF T, K, viewings, showings, v, c
<1>3. PICK a : /\ SurrogateKeys(U, v.key, v.at) = {a}
               /\ a # NoKey <=> \E r \in T : r.key = v.key
  BY <1>1, OneSurrogateKey DEF T
<1>4. PICK b : /\ SurrogateKeys(C, c.key, c.at) = {b}
               /\ b # NoKey <=> \E r \in K : r.key = c.key
  BY <1>1, OneSurrogateKey DEF K
<1> HIDE DEF U, C
<1> DEFINE f == [play |-> s, userSk |-> a, contentSk |-> b]
<1>5. {x \in Facts(sessions, U, C) : x.play = s} = {f}
  BY <1>2, <1>3, <1>4, OneFact
<1>6. f.userSk = a /\ f.contentSk = b
  OBVIOUS
<1> HIDE DEF f
<1>7. /\ f.userSk # NoKey    <=> \E r \in T : r.key = s.user
      /\ f.contentSk # NoKey <=> \E r \in K : r.key = s.content
  BY <1>2, <1>3, <1>4, <1>6
<1>8. \A x : x = f <=> x.play = s /\ x \in Facts(sessions, U, C)
  BY <1>5
<1> QED BY <1>0, <1>7, <1>8 DEF T, K

\* A dimension has one valid version of a key its history knows, with the last state.
LEMMA OneVersion ==
  ASSUME NEW H, IsHistory(H), NEW plays, \A p \in plays : p.at \in 0 .. LastTime,
         NEW k, NEW t \in 0 .. LastTime, AsOf(H, k, t) # {}
  PROVE  \E d : /\ ValidAt(Dimension(ChangesOnly(H), plays), k, t) = {d}
                /\ d.state = Latest(AsOf(H, k, t)).state
<1> DEFINE C == ChangesOnly(H)
<1>1. AsOf(C, k, t) # {} /\ Latest(AsOf(C, k, t)).state = Latest(AsOf(H, k, t)).state
  BY ChangesOnlyIs
<1>2. IsHistory(C)
  BY ChangesOnlyIsHistory
<1>3. \E o \in C : o.key = k
  BY <1>1 DEF AsOf
<1>4. AsOf(C, k, t) # {} \/ \E p \in plays : p.key = k /\ p.at <= t
  BY <1>1
<1> HIDE DEF C
<1>5. \E d \in Dimension(C, plays) :
        /\ ValidAt(Dimension(C, plays), k, t) = {d} /\ d.key = k
        /\ AsOf(C, k, t) # {} => d.state = Latest(AsOf(C, k, t)).state
  BY <1>2, <1>3, <1>4, OneIsValid
<1> QED BY <1>1, <1>5 DEF C

\* The fact f is the only one of session s, and resolves to the user and to the content
\* of s if Bronze knows them.
IsFactOf(f, s) ==
  /\ \A x : x = f <=> x.play = s /\ x \in Gold(Silver(bronze)).facts
  /\ f.userSk # NoKey    <=> \E r \in bronze.users : r.key = s.user
  /\ f.contentSk # NoKey <=> \E r \in Valid(bronze.content) : r.key = s.content

\* A session has one fact, which resolves to a user and to a content Bronze knows.
LEMMA FactOfSession ==
  ASSUME Landed, NEW s, s \in Silver(bronze).sessions
  PROVE  \E f : IsFactOf(f, s)
<1> DEFINE silver   == Silver(bronze)
           sessions == silver.sessions
           U        == DimUser(silver.users, silver.subscriptions, sessions)
           C        == DimContent(silver.content, sessions)
           T        == UserTimeline(silver.users, silver.subscriptions)
           K        == ContentTimeline(silver.content)
<1>1. Gold(silver).facts = Facts(sessions, U, C)
  BY DEF Gold
<1>2. /\ IsStaged(silver.users) /\ IsStaged(silver.subscriptions) /\ IsStaged(silver.content)
      /\ \A k : (\E r \in silver.users : r.key = k) <=> \E r \in bronze.users : r.key = k
      /\ \A k : (\E r \in silver.content : r.key = k)
                  <=> \E r \in Valid(bronze.content) : r.key = k
      /\ \A x \in sessions : x.started \in 0 .. LastTime
  BY SilverIs
<1>3. s \in sessions
  OBVIOUS
<1> HIDE DEF silver
<1>4. IsHistory(T) /\ \A k : (\E r \in T : r.key = k) <=> \E r \in bronze.users : r.key = k
  BY <1>2, UserTimelineIs
<1>5. /\ IsHistory(K)
      /\ \A k : (\E r \in K : r.key = k) <=> \E r \in Valid(bronze.content) : r.key = k
  BY <1>2, ContentTimelineIs
<1> HIDE DEF sessions
<1>6. PICK f : /\ \A x : x = f <=> x.play = s /\ x \in Facts(sessions, U, C)
               /\ f.userSk # NoKey    <=> \E r \in T : r.key = s.user
               /\ f.contentSk # NoKey <=> \E r \in K : r.key = s.content
  BY <1>2, <1>3, <1>4, <1>5, OneResolvedFact
<1>7. Gold(Silver(bronze)).facts = Facts(sessions, U, C)
  BY <1>1 DEF silver
<1> HIDE DEF U, C, T, K
<1>8. IsFactOf(f, s)
  BY <1>4, <1>5, <1>6, <1>7 DEF IsFactOf
<1> QED BY <1>8

\* A session is one fact row, which resolves to the versions of its user and its
\* content whenever the sources know them: fct_playback_session, over dim_user and
\* dim_content as they reach back to the first playback.
THEOREM FactsResolve == Spec => []EveryFactResolves
<1>1. Landed => EveryFactResolves
  <2> SUFFICES ASSUME Landed, NEW s \in Silver(bronze).sessions
               PROVE  LET rows == {f \in Gold(Silver(bronze)).facts : f.play = s}
                      IN  /\ Cardinality(rows) = 1
                          /\ \A f \in rows :
                               /\ f.userSk # NoKey    <=> \E r \in bronze.users : r.key = s.user
                               /\ f.contentSk # NoKey <=>
                                    \E r \in Valid(bronze.content) : r.key = s.content
    BY DEF EveryFactResolves
  <2>1. PICK f : IsFactOf(f, s)
    BY FactOfSession
  <2>2. {x \in Gold(Silver(bronze)).facts : x.play = s} = {f} /\ Cardinality({f}) = 1
    BY <2>1, FS_Singleton DEF IsFactOf
  <2> QED BY <2>1, <2>2 DEF IsFactOf
<1> QED BY <1>1, BronzeIsLanded, PTL

\* From the first profile of a user on, dim_user has one valid version at each time,
\* with the profile and the subscription the source rows gave for that time.
THEOREM UserHistory == Spec => []UserHistoryIsAsOf
<1>1. Landed => UserHistoryIsAsOf
  <2> SUFFICES ASSUME Landed, NEW u, NEW t \in Times, Said(bronze.users, u, t) # {}
               PROVE  LET valid == ValidAt(Gold(Silver(bronze)).users, u, t)
                      IN  /\ Cardinality(valid) = 1
                          /\ {v.state : v \in valid} =
                               Said(bronze.users, u, t)
                                 \X SaidOrNull(Valid(bronze.subscriptions), u, t)
    BY DEF UserHistoryIsAsOf
  <2> DEFINE silver   == Silver(bronze)
             T        == UserTimeline(silver.users, silver.subscriptions)
             viewings == {[key |-> x.user, at |-> x.started] : x \in silver.sessions}
             D        == Dimension(ChangesOnly(T), viewings)
             profile  == Latest(AsOf(silver.users, u, t)).state
             plan     == Subscribed(silver.subscriptions, u, t)
  <2>1. Gold(silver).users = D /\ t \in 0 .. LastTime
    BY DEF Gold, DimUser, Times
  <2>2. /\ IsStaged(silver.users) /\ IsStaged(silver.subscriptions)
        /\ \A x \in silver.sessions : x.started \in 0 .. LastTime
        /\ silver.users = Deduplicate(bronze.users)
        /\ silver.subscriptions = Deduplicate(Valid(bronze.subscriptions))
    BY SilverIs
  <2>3. IsVersions(bronze.users) /\ IsVersions(Valid(bronze.subscriptions))
    BY BronzeIsSource, SourceSubset DEF IsVersions, Valid
  <2> HIDE DEF silver
  <2>4. AsOf(silver.users, u, t) # {} /\ Said(bronze.users, u, t) = {profile}
    BY <2>1, <2>2, <2>3, SaidIs
  <2>5. SaidOrNull(Valid(bronze.subscriptions), u, t) = {plan}
    BY <2>1, <2>2, <2>3, SaidIs DEF SaidOrNull, Subscribed
  <2>6. \A p \in viewings : p.at \in 0 .. LastTime
    BY <2>2
  <2>7. /\ IsHistory(T) /\ AsOf(T, u, t) # {}
        /\ Latest(AsOf(T, u, t)).state = <<profile, plan>>
    BY <2>1, <2>2, <2>4, UserTimelineIs
  <2> HIDE DEF T, viewings, profile, plan
  <2>8. PICK d : ValidAt(D, u, t) = {d} /\ d.state = <<profile, plan>>
    BY <2>1, <2>6, <2>7, OneVersion
  <2> HIDE DEF D
  <2>9. Cardinality({d}) = 1
    BY FS_Singleton
  <2>10. {v.state : v \in ValidAt(D, u, t)} = {<<profile, plan>>}
    BY <2>8
  <2>11. Said(bronze.users, u, t) \X SaidOrNull(Valid(bronze.subscriptions), u, t)
           = {<<profile, plan>>}
    BY <2>4, <2>5
  <2> QED BY <2>1, <2>8, <2>9, <2>10, <2>11 DEF silver
<1> QED BY <1>1, BronzeIsLanded, PTL

-----------------------------------------------------------------------------
(* Features *)

\* A whole quotient is below a bound exactly if what it counts ends before it.
LEMMA DivLess ==
  ASSUME NEW x \in Nat, NEW h \in Nat \ {0}, NEW w \in Nat
  PROVE  x \div h \in Nat /\ w * h \in Nat /\ (x \div h < w <=> x < w * h)
<1>1. PICK q \in Nat, r \in 0 .. h - 1 : q = x \div h /\ x = q * h + r
  OBVIOUS
<1>2. \A a, b \in Nat : a <= b => a * h <= b * h
  OBVIOUS
<1>3. ASSUME q < w PROVE x < w * h
  <2>1. (q + 1) * h <= w * h /\ (q + 1) * h = q * h + h
    BY <1>2, <1>3
  <2>2. q * h \in Nat /\ w * h \in Nat
    OBVIOUS
  <2> QED BY <1>1, <2>1, <2>2
<1>4. ASSUME w <= q PROVE w * h <= x
  <2>1. w * h <= q * h
    BY <1>2, <1>4
  <2>2. q * h \in Nat /\ w * h \in Nat
    OBVIOUS
  <2> QED BY <1>1, <2>1, <2>2
<1>5. w * h \in Nat
  OBVIOUS
<1> QED BY <1>1, <1>3, <1>4, <1>5

\* The hours and the days that are over at a time hold what started before it.
LEMMA HourIsOver ==
  ASSUME NEW x \in Nat, NEW w \in Nat
  PROVE  /\ HourOf(x) \in Nat /\ (w + 1) * Hour \in Nat
         /\ HourOf(x) <= w <=> x < (w + 1) * Hour
<1>1. Hour \in Nat \ {0} /\ w + 1 \in Nat
  BY ClockAssumption
<1>2. x \div Hour \in Nat /\ (w + 1) * Hour \in Nat /\ (x \div Hour < w + 1 <=> x < (w + 1) * Hour)
  BY <1>1, DivLess
<1> QED BY <1>2 DEF HourOf

\* Days likewise.
LEMMA DayIsOver ==
  ASSUME NEW x \in Nat, NEW d \in Nat
  PROVE  /\ DayOf(x) \in Nat /\ (d + 1) * DayHours * Hour \in Nat
         /\ DayOf(x) <= d <=> x < (d + 1) * DayHours * Hour
<1>1. Hour \in Nat \ {0} /\ DayHours \in Nat \ {0} /\ d + 1 \in Nat
  BY ClockAssumption
<1>2. (d + 1) * DayHours \in Nat
  BY <1>1
<1>3. HourOf(x) \in Nat /\ (d + 1) * DayHours * Hour \in Nat
      /\ (HourOf(x) < (d + 1) * DayHours <=> x < (d + 1) * DayHours * Hour)
  BY <1>1, <1>2, DivLess DEF HourOf
<1>4. HourOf(x) \div DayHours \in Nat /\ (HourOf(x) \div DayHours < d + 1 <=> HourOf(x) < (d + 1) * DayHours)
  BY <1>1, <1>3, DivLess
<1> QED BY <1>3, <1>4 DEF DayOf

\* Plays after a time do not change the versions of a key that was played before it.
LEMMA DimensionUntil ==
  ASSUME NEW H, IsHistory(H), NEW plays, \A p \in plays : p.at \in 0 .. LastTime,
         NEW t \in Nat, NEW q \in plays, q.at < t
  PROVE  {d \in Dimension(H, plays) : d.key = q.key}
           = {d \in Dimension(H, {p \in plays : p.at < t}) : d.key = q.key}
<1> DEFINE Until == {p \in plays : p.at < t}
           Later(v) == {o.at : o \in {x \in H : x.key = v.key /\ x.at > v.at}}
           First(v) == \A o \in H : o.key = v.key => v.at <= o.at
           Starts(v, P) == {v.at} \cup {p.at : p \in {x \in P : x.key = v.key}}
           From(v, P)   == IF First(v) THEN Min(Starts(v, P)) ELSE v.at
           Row(v, P) == [key |-> v.key, state |-> v.state, from |-> From(v, P),
                         to |-> IF Later(v) = {} THEN EndOfTime ELSE Min(Later(v)),
                         created |-> v.created]
<1>1. \A P : Dimension(H, P) = {Row(v, P) : v \in H}
  BY DEF Dimension
<1>2. ASSUME NEW v \in H, v.key = q.key PROVE From(v, plays) = From(v, Until)
  <2> DEFINE A == Starts(v, plays)
             B == Starts(v, Until)
  <2>1. v.at \in 0 .. LastTime /\ q.at \in 0 .. LastTime /\ LastTime \in Nat
    BY LandingsAssumption DEF IsHistory
  <2>2. (\A x \in A : x \in 0 .. LastTime) /\ (\A x \in B : x \in A) /\ A # {} /\ B # {}
    BY <2>1
  <2>3. q.at \in B
    BY <1>2
  <2>4. \A x \in A : x < t => x \in B
    OBVIOUS
  <2> HIDE DEF A, B
  <2>5. (\A x \in A : x \in Nat) /\ \A x \in B : x \in Nat
    BY <2>1, <2>2
  <2>6. Min(A) \in A /\ \A y \in A : Min(A) <= y
    BY <2>2, TimesBelow, MinIs
  <2>7. Min(B) \in B /\ \A y \in B : Min(B) <= y
    BY <2>2, TimesBelow, MinIs
  <2>8. Min(A) <= q.at /\ Min(A) \in Nat /\ q.at \in Nat
    BY <2>2, <2>3, <2>5, <2>6
  <2>9. Min(A) \in B
    BY <2>4, <2>6, <2>8
  <2>10. Min(B) <= Min(A) /\ Min(A) <= Min(B) /\ Min(B) \in Nat
    BY <2>2, <2>5, <2>6, <2>7, <2>9
  <2>11. Min(A) = Min(B)
    BY <2>8, <2>10
  <2> QED BY <2>11 DEF A, B
<1>3. \A v \in H : v.key = q.key => Row(v, plays) = Row(v, Until)
  BY <1>2
<1>4. \A v, P : Row(v, P).key = v.key
  OBVIOUS
<1> HIDE DEF Row, Until
<1>5. \A d : d \in Dimension(H, plays) /\ d.key = q.key <=> d \in Dimension(H, Until) /\ d.key = q.key
  BY <1>1, <1>3, <1>4
<1> QED BY <1>5 DEF Until

\* Nor do they change which version a play before it finds.
LEMMA SurrogateKeysUntil ==
  ASSUME NEW H, IsHistory(H), NEW plays, \A p \in plays : p.at \in 0 .. LastTime,
         NEW t \in Nat, NEW q \in plays, q.at < t
  PROVE  SurrogateKeys(Dimension(H, plays), q.key, q.at)
           = SurrogateKeys(Dimension(H, {p \in plays : p.at < t}), q.key, q.at)
<1> DEFINE D == Dimension(H, plays)
           E == Dimension(H, {p \in plays : p.at < t})
<1>1. {d \in D : d.key = q.key} = {d \in E : d.key = q.key}
  BY DimensionUntil
<1> HIDE DEF D, E
<1>2. \A d : d \in D /\ d.key = q.key <=> d \in E /\ d.key = q.key
  BY <1>1
<1>3. ValidAt(D, q.key, q.at) = ValidAt(E, q.key, q.at)
  BY <1>2 DEF ValidAt
<1>4. SurrogateKeys(D, q.key, q.at) = SurrogateKeys(E, q.key, q.at)
  BY <1>3 DEF SurrogateKeys
<1> QED BY <1>4 DEF D, E

\* The sessions that started before a time.
Until(sessions, t) == {s \in sessions : s.started < t}

\* The facts of the sessions up to a time are those of all sessions, up to that time.
LEMMA FactsUntil ==
  ASSUME NEW sessions, \A s \in sessions : s.started \in 0 .. LastTime,
         NEW users, NEW subscriptions, IsHistory(UserTimeline(users, subscriptions)),
         NEW content, IsHistory(ContentTimeline(content)), NEW t \in Nat
  PROVE  Facts(Until(sessions, t), DimUser(users, subscriptions, Until(sessions, t)),
               DimContent(content, Until(sessions, t)))
           = {f \in Facts(sessions, DimUser(users, subscriptions, sessions), DimContent(content, sessions)) :
                f.play.started < t}
<1> DEFINE H == ChangesOnly(UserTimeline(users, subscriptions))
           K == ChangesOnly(ContentTimeline(content))
           Viewings(S) == {[key |-> s.user, at |-> s.started] : s \in S}
           Showings(S) == {[key |-> s.content, at |-> s.started] : s \in S}
           U(S) == Dimension(H, Viewings(S))
           C(S) == Dimension(K, Showings(S))
           Of(S, s) == {[play |-> s, userSk |-> u, contentSk |-> c] :
                          u \in SurrogateKeys(U(S), s.user, s.started),
                          c \in SurrogateKeys(C(S), s.content, s.started)}
           before == Until(sessions, t)
<1>1. \A S : Facts(S, DimUser(users, subscriptions, S), DimContent(content, S)) = UNION {Of(S, s) : s \in S}
  BY DEF Facts, DimUser, DimContent
<1>2. IsHistory(H) /\ IsHistory(K)
  BY ChangesOnlyIsHistory
<1>3. /\ Viewings(before) = {p \in Viewings(sessions) : p.at < t}
      /\ Showings(before) = {p \in Showings(sessions) : p.at < t}
  BY DEF Until
<1>4. ASSUME NEW s \in before PROVE Of(before, s) = Of(sessions, s)
  <2>1. s \in sessions /\ s.started < t
    BY DEF Until
  <2>2. PICK v \in Viewings(sessions) : v.key = s.user /\ v.at = s.started
    <3>1. [key |-> s.user, at |-> s.started] \in Viewings(sessions)
      BY <2>1
    <3> HIDE DEF Viewings
    <3> QED BY <3>1
  <2>3. PICK w \in Showings(sessions) : w.key = s.content /\ w.at = s.started
    <3>1. [key |-> s.content, at |-> s.started] \in Showings(sessions)
      BY <2>1
    <3> HIDE DEF Showings
    <3> QED BY <3>1
  <2>4. (\A p \in Viewings(sessions) : p.at \in 0 .. LastTime) /\ \A p \in Showings(sessions) : p.at \in 0 .. LastTime
    OBVIOUS
  <2> HIDE DEF H, K, Viewings, Showings
  <2>5. SurrogateKeys(Dimension(H, Viewings(sessions)), v.key, v.at)
          = SurrogateKeys(Dimension(H, {p \in Viewings(sessions) : p.at < t}), v.key, v.at)
    BY <1>2, <2>1, <2>2, <2>4, SurrogateKeysUntil
  <2>6. SurrogateKeys(Dimension(K, Showings(sessions)), w.key, w.at)
          = SurrogateKeys(Dimension(K, {p \in Showings(sessions) : p.at < t}), w.key, w.at)
    BY <1>2, <2>1, <2>3, <2>4, SurrogateKeysUntil
  <2>7. /\ SurrogateKeys(U(before), s.user, s.started) = SurrogateKeys(U(sessions), s.user, s.started)
        /\ SurrogateKeys(C(before), s.content, s.started) = SurrogateKeys(C(sessions), s.content, s.started)
    BY <1>3, <2>2, <2>3, <2>5, <2>6
  <2> QED BY <2>7
<1>5. ASSUME NEW S, NEW s, NEW f \in Of(S, s) PROVE f.play = s
  <2> HIDE DEF U, C
  <2> QED OBVIOUS
<1> HIDE DEF Of
<1>6. \A f : f \in UNION {Of(before, s) : s \in before} <=> \E s \in before : f \in Of(sessions, s)
  BY <1>4
<1>7. \A f : f \in UNION {Of(sessions, s) : s \in sessions} /\ f.play.started < t
               <=> \E s \in before : f \in Of(sessions, s)
  <2> TAKE f
  <2>1. \A s : s \in before <=> s \in sessions /\ s.started < t
    BY DEF Until
  <2>2. f \in UNION {Of(sessions, s) : s \in sessions} <=> \E s \in sessions : f \in Of(sessions, s)
    OBVIOUS
  <2> HIDE DEF before
  <2> QED BY <1>5, <2>1, <2>2
<1>8. UNION {Of(before, s) : s \in before} = {f \in UNION {Of(sessions, s) : s \in sessions} : f.play.started < t}
  BY <1>6, <1>7
<1> QED BY <1>1, <1>8


\* A fact has the surrogate keys of versions, or none: those of ContentFeatures are the
\* facts that the rollups join.
LEMMA ResolvedAre ==
  ASSUME NEW sessions, NEW U, NEW C
  PROVE  {f \in Facts(sessions, U, C) : f.userSk \in Keys(U) /\ f.contentSk \in Keys(C)}
           = Resolved(Facts(sessions, U, C))
<1> DEFINE Of(s) == {[play |-> s, userSk |-> u, contentSk |-> c] :
                       u \in SurrogateKeys(U, s.user, s.started),
                       c \in SurrogateKeys(C, s.content, s.started)}
           F == Facts(sessions, U, C)
<1>1. F = UNION {Of(s) : s \in sessions}
  BY DEF Facts
<1>2. ASSUME NEW D, NEW k, NEW t, NEW sk \in SurrogateKeys(D, k, t)
      PROVE  sk \in Keys(D) <=> sk # NoKey
  <2>1. CASE ValidAt(D, k, t) = {}
    <3>1. sk = NoKey
      BY <1>2, <2>1 DEF SurrogateKeys
    <3>2. \A v \in D : <<v.key, v.from>> # NoKey
      BY DEF NoKey
    <3> QED BY <3>1, <3>2 DEF Keys
  <2>2. CASE ValidAt(D, k, t) # {}
    <3>1. PICK v \in ValidAt(D, k, t) : sk = <<v.key, v.from>>
      BY <1>2, <2>2 DEF SurrogateKeys
    <3>2. v \in D
      BY DEF ValidAt
    <3>3. sk # NoKey
      BY <3>1 DEF NoKey
    <3> QED BY <3>1, <3>2, <3>3 DEF Keys
  <2> QED BY <2>1, <2>2
<1>3. ASSUME NEW f \in F
      PROVE  (f.userSk \in Keys(U) <=> f.userSk # NoKey) /\ (f.contentSk \in Keys(C) <=> f.contentSk # NoKey)
  <2>1. PICK s \in sessions : f \in Of(s)
    BY <1>1
  <2>2. PICK u \in SurrogateKeys(U, s.user, s.started), c \in SurrogateKeys(C, s.content, s.started) :
          f = [play |-> s, userSk |-> u, contentSk |-> c]
    BY <2>1
  <2>3. f.userSk = u /\ f.contentSk = c
    BY <2>2
  <2> QED BY <1>2, <2>3
<1> HIDE DEF F
<1>4. {f \in F : f.userSk \in Keys(U) /\ f.contentSk \in Keys(C)} = Resolved(F)
  BY <1>3 DEF Resolved
<1> QED BY <1>4 DEF F

\* A row of obt_user_content_engagement from its grain and the facts of that grain.
DayGrain(f) == <<f.play.user, f.play.content, DayOf(f.play.started)>>
EngagementOf(g, group) ==
  [user |-> g[1], content |-> g[2], day |-> g[3], plays |-> Cardinality(group),
   completed |-> Completed(group), watch |-> Watch(group)]

\* And a row of mart_content_trending.
HourGrain(f) == <<HourOf(f.play.started), f.play.content>>
TrendingOf(g, group) ==
  [window |-> g[1], content |-> g[2], plays |-> Cardinality(group),
   viewers |-> Cardinality(Viewers(group)), completed |-> Completed(group), watch |-> Watch(group)]

\* The facts up to a time.
Earlier(facts, t) == {f \in facts : f.play.started < t}

\* The engagement of days that are over has nothing from later facts.
LEMMA EngagementUntil ==
  ASSUME NEW F, \A f \in F : f.play.started \in Nat, NEW d \in Nat
  PROVE  /\ \A r \in Engagement(F) : r.day \in Nat
         /\ \A r : r \in Engagement(F) /\ r.day <= d
                     <=> r \in Engagement(Earlier(F, (d + 1) * DayHours * Hour)) /\ r.day <= d
<1> DEFINE t == (d + 1) * DayHours * Hour
           J(S) == Resolved(S)
           Group(S, g) == {f \in J(S) : DayGrain(f) = g}
           Grains(S) == {DayGrain(f) : f \in J(S)}
<1>1. \A S : Engagement(S) = {EngagementOf(g, Group(S, g)) : g \in Grains(S)}
  BY DEF Engagement, EngagementOf, DayGrain
<1>2. \A g, group : EngagementOf(g, group).day = g[3]
  BY DEF EngagementOf
<1>3. ASSUME NEW f \in J(F) PROVE DayGrain(f)[3] \in Nat /\ (DayGrain(f)[3] <= d <=> f.play.started < t)
  <2>1. f.play.started \in Nat /\ DayGrain(f)[3] = DayOf(f.play.started)
    BY DEF Resolved, DayGrain
  <2> QED BY <2>1, DayIsOver
<1>4. J(Earlier(F, t)) = {f \in J(F) : f.play.started < t}
  BY DEF Resolved, Earlier
<1> HIDE DEF J, t
<1>5. ASSUME NEW g, g[3] <= d
      PROVE  /\ Group(F, g) = Group(Earlier(F, t), g)
             /\ g \in Grains(F) <=> g \in Grains(Earlier(F, t))
  BY <1>3, <1>4, <1>5
<1>6. \A g \in Grains(F) : g[3] \in Nat
  BY <1>3
<1> HIDE DEF Group, Grains
<1>7. ASSUME NEW r PROVE r \in Engagement(F) /\ r.day <= d <=> r \in Engagement(Earlier(F, t)) /\ r.day <= d
  <2>1. ASSUME NEW g \in Grains(F), r = EngagementOf(g, Group(F, g)), r.day <= d PROVE r \in Engagement(Earlier(F, t))
    <3>1. g[3] <= d
      BY <1>2, <2>1
    <3> QED BY <1>1, <1>5, <2>1, <3>1
  <2>2. ASSUME NEW g \in Grains(Earlier(F, t)), r = EngagementOf(g, Group(Earlier(F, t), g)), r.day <= d PROVE r \in Engagement(F)
    <3>1. g[3] <= d
      BY <1>2, <2>2
    <3> QED BY <1>1, <1>5, <2>2, <3>1
  <2> QED BY <1>1, <2>1, <2>2
<1>8. \A r \in Engagement(F) : r.day \in Nat
  BY <1>1, <1>2, <1>6
<1> QED BY <1>7, <1>8 DEF t

\* Likewise the mart of hours that are over.
LEMMA TrendingUntil ==
  ASSUME NEW F, \A f \in F : f.play.started \in Nat, NEW w \in Nat
  PROVE  /\ \A r \in Trending(F) : r.window \in Nat
         /\ \A r : r \in Trending(F) /\ r.window <= w
                     <=> r \in Trending(Earlier(F, (w + 1) * Hour)) /\ r.window <= w
<1> DEFINE t == (w + 1) * Hour
           J(S) == Resolved(S)
           Group(S, g) == {f \in J(S) : HourGrain(f) = g}
           Grains(S) == {HourGrain(f) : f \in J(S)}
<1>1. \A S : Trending(S) = {TrendingOf(g, Group(S, g)) : g \in Grains(S)}
  BY DEF Trending, TrendingOf, HourGrain
<1>2. \A g, group : TrendingOf(g, group).window = g[1]
  BY DEF TrendingOf
<1>3. ASSUME NEW f \in J(F) PROVE HourGrain(f)[1] \in Nat /\ (HourGrain(f)[1] <= w <=> f.play.started < t)
  <2>1. f.play.started \in Nat /\ HourGrain(f)[1] = HourOf(f.play.started)
    BY DEF Resolved, HourGrain
  <2> QED BY <2>1, HourIsOver
<1>4. J(Earlier(F, t)) = {f \in J(F) : f.play.started < t}
  BY DEF Resolved, Earlier
<1> HIDE DEF J, t
<1>5. ASSUME NEW g, g[1] <= w
      PROVE  /\ Group(F, g) = Group(Earlier(F, t), g)
             /\ g \in Grains(F) <=> g \in Grains(Earlier(F, t))
  BY <1>3, <1>4, <1>5
<1>6. \A g \in Grains(F) : g[1] \in Nat
  BY <1>3
<1> HIDE DEF Group, Grains
<1>7. ASSUME NEW r PROVE r \in Trending(F) /\ r.window <= w <=> r \in Trending(Earlier(F, t)) /\ r.window <= w
  <2>1. ASSUME NEW g \in Grains(F), r = TrendingOf(g, Group(F, g)), r.window <= w PROVE r \in Trending(Earlier(F, t))
    <3>1. g[1] <= w
      BY <1>2, <2>1
    <3> QED BY <1>1, <1>5, <2>1, <3>1
  <2>2. ASSUME NEW g \in Grains(Earlier(F, t)), r = TrendingOf(g, Group(Earlier(F, t), g)), r.window <= w PROVE r \in Trending(F)
    <3>1. g[1] <= w
      BY <1>2, <2>2
    <3> QED BY <1>1, <1>5, <2>2, <3>1
  <2> QED BY <1>1, <2>1, <2>2
<1>8. \A r \in Trending(F) : r.window \in Nat
  BY <1>1, <1>2, <1>6
<1> QED BY <1>7, <1>8 DEF t

\* A feature of a user and a day is made of the engagement up to that day.
LEMMA UserFeaturesUntil ==
  ASSUME NEW F, \A f \in F : f.play.started \in Nat, NEW x \in UserFeatures(Engagement(F))
  PROVE  /\ x.time \in Nat
         /\ x \in UserFeatures(Engagement(Earlier(F, x.time)))
<1> DEFINE Before(E, a, days) == {r \in E : r.user = a[1] /\ r.day \in a[2] - days + 1 .. a[2]}
           Row(E, a) ==
             [user |-> a[1], time |-> (a[2] + 1) * DayHours * Hour,
              watch24h |-> WatchIn(Before(E, a, 1)),
              watch7d  |-> WatchIn(Before(E, a, WeekDays)),
              plays7d  |-> PlaysIn(Before(E, a, WeekDays)),
              completed30d |-> CompletedIn(Before(E, a, MonthDays)),
              contents30d  |-> Cardinality({r.content : r \in Before(E, a, MonthDays)})]
<1>1. \A E : UserFeatures(E) = {Row(E, a) : a \in {<<r.user, r.day>> : r \in E}}
  BY DEF UserFeatures
<1>2. PICK e \in Engagement(F) : x = Row(Engagement(F), <<e.user, e.day>>)
  BY <1>1
<1>3. PICK a : a = <<e.user, e.day>>
  OBVIOUS
<1>4. a[2] = e.day /\ e.day \in Nat
  BY <1>3, EngagementUntil
<1>5. x.time = (e.day + 1) * DayHours * Hour /\ x.time \in Nat
  <2>1. (e.day + 1) * DayHours * Hour \in Nat
    BY <1>4, DayIsOver
  <2>2. x.time = (a[2] + 1) * DayHours * Hour
    BY <1>2, <1>3
  <2> QED BY <1>4, <2>1, <2>2
<1> DEFINE E == Engagement(F)
           G == Engagement(Earlier(F, x.time))
<1>6. \A r : r \in E /\ r.day <= e.day <=> r \in G /\ r.day <= e.day
  BY <1>4, <1>5, EngagementUntil
<1>7. e \in G /\ e \in E
  <2>1. e.day <= e.day
    BY <1>4
  <2> QED BY <1>6, <2>1
<1> HIDE DEF E, G
<1>8. ASSUME NEW days \in Nat PROVE Before(E, a, days) = Before(G, a, days)
  <2>1. \A r : r.day \in a[2] - days + 1 .. a[2] => r.day <= e.day
    BY <1>4
  <2> QED BY <1>6, <2>1
<1>9. 1 \in Nat /\ WeekDays \in Nat /\ MonthDays \in Nat
  BY ClockAssumption
<1> HIDE DEF Before
<1>10. Row(E, a) = Row(G, a)
  BY <1>8, <1>9
<1> HIDE DEF Row
<1>11. x = Row(G, a)
  BY <1>2, <1>3, <1>10 DEF E
<1>12. x \in UserFeatures(G)
  BY <1>1, <1>3, <1>7, <1>11
<1> QED BY <1>5, <1>12 DEF G


\* What feat_content_popularity sees of a content in the last day of an hour.
SeenBy(facts, a) ==
  {f \in Resolved(facts) :
     /\ f.play.content = a.content
     /\ f.play.started \in (a.window + 1) * Hour - DayHours * Hour .. (a.window + 1) * Hour - 1}

\* A feature of a content and an hour is made of the mart and the facts up to that hour.
LEMMA ContentFeaturesUntil ==
  ASSUME NEW F, \A f \in F : f.play.started \in Nat, NEW U, NEW C, NEW U1, NEW C1,
         {f \in F : f.userSk \in Keys(U) /\ f.contentSk \in Keys(C)} = Resolved(F),
         NEW x \in ContentFeatures(Trending(F), F, U, C),
         LET G == Earlier(F, x.time)
         IN  {f \in G : f.userSk \in Keys(U1) /\ f.contentSk \in Keys(C1)} = Resolved(G)
  PROVE  x \in ContentFeatures(Trending(Earlier(F, x.time)), Earlier(F, x.time), U1, C1)
<1> DEFINE End(a) == (a.window + 1) * Hour
           Seen(S, a) == {f \in S : /\ f.play.content = a.content
                                    /\ f.play.started \in End(a) - DayHours * Hour .. End(a) - 1}
           Row(M, S, a) ==
             [content |-> a.content, time |-> End(a),
              plays1h   |-> PlaysIn(HoursUntil(M, a, 1)),
              plays24h  |-> PlaysIn(HoursUntil(M, a, DayHours)),
              viewers24h |-> Cardinality(Viewers(Seen(S, a))),
              completion7d |-> <<CompletedIn(HoursUntil(M, a, WeekDays * DayHours)),
                                 PlaysIn(HoursUntil(M, a, WeekDays * DayHours))>>,
              score24h  |-> MapThenSumSet(Score, HoursUntil(M, a, DayHours))]
           Joined(S, X, Y) == {f \in S : f.userSk \in Keys(X) /\ f.contentSk \in Keys(Y)}
<1>1. \A M, S, X, Y : ContentFeatures(M, S, X, Y)
          = {Row(M, Joined(S, X, Y), a) : a \in {m \in M : Seen(Joined(S, X, Y), m) # {}}}
  BY DEF ContentFeatures
<1> DEFINE M == Trending(F)
           G == Earlier(F, x.time)
           N == Trending(G)
<1>2. Joined(F, U, C) = Resolved(F) /\ Joined(G, U1, C1) = Resolved(G)
  OBVIOUS
<1> HIDE DEF Joined
<1>3. PICK a \in M : x = Row(M, Resolved(F), a) /\ Seen(Resolved(F), a) # {}
  BY <1>1, <1>2
<1>4. a.window \in Nat
  BY TrendingUntil
<1>5. x.time = End(a)
  BY <1>3
<1>6. End(a) \in Nat /\ \A s \in Nat : HourOf(s) <= a.window <=> s < End(a)
  BY <1>4, HourIsOver
<1>7. \A r : r \in M /\ r.window <= a.window <=> r \in N /\ r.window <= a.window
  BY <1>4, <1>5, TrendingUntil
<1>8. a \in N
  <2>1. a.window <= a.window
    BY <1>4
  <2> QED BY <1>7, <2>1
<1>9. Seen(Resolved(F), a) = Seen(Resolved(G), a)
  <2>1. Resolved(G) = {f \in Resolved(F) : f.play.started < End(a)}
    BY <1>5 DEF Resolved, Earlier
  <2>2. \A s : s \in End(a) - DayHours * Hour .. End(a) - 1 => s < End(a)
    BY <1>6
  <2> HIDE DEF End
  <2> QED BY <2>1, <2>2
<1> HIDE DEF M, N, G
<1>10. ASSUME NEW hours \in Nat PROVE HoursUntil(M, a, hours) = HoursUntil(N, a, hours)
  <2>1. \A w : w \in a.window - hours + 1 .. a.window => w <= a.window
    BY <1>4
  <2> QED BY <1>7, <2>1 DEF HoursUntil
<1>11. 1 \in Nat /\ DayHours \in Nat /\ WeekDays * DayHours \in Nat
  BY ClockAssumption
<1> HIDE DEF Seen, End
<1>12. Row(M, Resolved(F), a) = Row(N, Resolved(G), a)
  BY <1>9, <1>10, <1>11
<1>13. x \in {Row(N, Resolved(G), b) : b \in {m \in N : Seen(Resolved(G), m) # {}}}
  BY <1>3, <1>8, <1>9, <1>12
<1> HIDE DEF Row
<1>14. x \in ContentFeatures(N, G, U1, C1)
  BY <1>1, <1>2, <1>13
<1> QED BY <1>14 DEF N, G

\* A fact is about a session.
LEMMA PlayOfFact ==
  ASSUME NEW sessions, NEW U, NEW C PROVE \A f \in Facts(sessions, U, C) : f.play \in sessions
<1> DEFINE Of(s) == {[play |-> s, userSk |-> u, contentSk |-> c] :
                       u \in SurrogateKeys(U, s.user, s.started),
                       c \in SurrogateKeys(C, s.content, s.started)}
<1>1. Facts(sessions, U, C) = UNION {Of(s) : s \in sessions}
  BY DEF Facts
<1>2. \A s : \A f \in Of(s) : f.play = s
  OBVIOUS
<1> HIDE DEF Of
<1> QED BY <1>1, <1>2

\* A row of the content features has the end of an hour of the mart as its time.
LEMMA ContentFeatureTime ==
  ASSUME NEW M, NEW F, NEW U, NEW C, NEW x \in ContentFeatures(M, F, U, C)
  PROVE  \E m \in M : x.time = (m.window + 1) * Hour
<1> DEFINE End(a) == (a.window + 1) * Hour
           S == {f \in F : f.userSk \in Keys(U) /\ f.contentSk \in Keys(C)}
           Seen(a) == {f \in S : /\ f.play.content = a.content
                                 /\ f.play.started \in End(a) - DayHours * Hour .. End(a) - 1}
           Row(a) ==
             [content |-> a.content, time |-> End(a),
              plays1h   |-> PlaysIn(HoursUntil(M, a, 1)),
              plays24h  |-> PlaysIn(HoursUntil(M, a, DayHours)),
              viewers24h |-> Cardinality(Viewers(Seen(a))),
              completion7d |-> <<CompletedIn(HoursUntil(M, a, WeekDays * DayHours)),
                                 PlaysIn(HoursUntil(M, a, WeekDays * DayHours))>>,
              score24h  |-> MapThenSumSet(Score, HoursUntil(M, a, DayHours))]
<1>1. ContentFeatures(M, F, U, C) = {Row(a) : a \in {m \in M : Seen(m) # {}}}
  BY DEF ContentFeatures
<1> HIDE DEF Seen
<1>2. PICK a \in M : x = Row(a)
  BY <1>1
<1> QED
  BY <1>2

\* A feature row of feat_content_popularity or feat_user_engagement does not change with
\* the sessions that start after its time, although these may move the dimensions' first
\* versions back: what the row counts had found its versions before.
THEOREM FeaturesAreStable == Spec => []FeaturesArePointInTime
<1>1. Landed => FeaturesArePointInTime
  <2> SUFFICES ASSUME Landed PROVE FeaturesArePointInTime
    OBVIOUS
  <2> DEFINE silver == Silver(bronze)
             S      == silver.sessions
             U(X)   == DimUser(silver.users, silver.subscriptions, X)
             C(X)   == DimContent(silver.content, X)
             Of(X)  == Facts(X, U(X), C(X))
             F      == Of(S)
             Reduced(t) == [silver EXCEPT !.sessions = {s \in @ : s.started < t}]
  <2>1. /\ IsStaged(silver.users) /\ IsStaged(silver.subscriptions) /\ IsStaged(silver.content)
        /\ \A x \in S : x.started \in 0 .. LastTime
    BY SilverIs
  <2>2. IsHistory(UserTimeline(silver.users, silver.subscriptions)) /\ IsHistory(ContentTimeline(silver.content))
    BY <2>1, UserTimelineIs, ContentTimelineIs
  <2>3. \A x \in S : x.started \in Nat
    BY <2>1, LandingsAssumption
  <2>4. \A t : /\ Reduced(t).users = silver.users /\ Reduced(t).subscriptions = silver.subscriptions
               /\ Reduced(t).content = silver.content /\ Reduced(t).sessions = Until(S, t)
    BY DEF Silver, Until
  <2>5. /\ Gold(silver).users = U(S) /\ Gold(silver).content = C(S) /\ Gold(silver).facts = F
        /\ Gold(silver).engagement = Engagement(F) /\ Gold(silver).trending = Trending(F)
    BY DEF Gold
  <2>6. \A r : /\ Gold(r).users = DimUser(r.users, r.subscriptions, r.sessions)
               /\ Gold(r).content = DimContent(r.content, r.sessions)
               /\ Gold(r).facts = Facts(r.sessions, Gold(r).users, Gold(r).content)
               /\ Gold(r).engagement = Engagement(Gold(r).facts)
               /\ Gold(r).trending = Trending(Gold(r).facts)
    BY DEF Gold
  <2> HIDE DEF silver, Reduced
  <2>7. ASSUME NEW t \in Nat
        PROVE  /\ Gold(Reduced(t)).facts = Earlier(F, t)
               /\ Gold(Reduced(t)).users = U(Until(S, t)) /\ Gold(Reduced(t)).content = C(Until(S, t))
               /\ Gold(Reduced(t)).engagement = Engagement(Earlier(F, t))
               /\ Gold(Reduced(t)).trending = Trending(Earlier(F, t))
    <3>1. Gold(Reduced(t)).users = U(Until(S, t)) /\ Gold(Reduced(t)).content = C(Until(S, t))
      BY <2>4, <2>6
    <3>2. Gold(Reduced(t)).facts = Of(Until(S, t))
      BY <2>4, <2>6, <3>1
    <3> HIDE DEF S
    <3>3. Of(Until(S, t)) = Earlier(F, t)
      BY <2>1, <2>2, FactsUntil DEF Earlier
    <3> HIDE DEF Of, F, U, C
    <3> QED BY <2>6, <3>1, <3>2, <3>3
  <2>8. \A f \in F : f.play.started \in Nat
    <3> HIDE DEF S, U, C
    <3> QED BY <2>3, PlayOfFact
  <2> HIDE DEF S
  <2>9. ASSUME NEW x \in ContentFeatures(Trending(F), F, U(S), C(S))
        PROVE  LET G == Gold(Reduced(x.time))
               IN  x \in ContentFeatures(G.trending, G.facts, G.users, G.content)
    <3>0. x.time \in Nat
      <4>2. PICK m \in Trending(F) : x.time = (m.window + 1) * Hour
        BY ContentFeatureTime
      <4>3. m.window \in Nat
        <5> HIDE DEF F
        <5> QED BY <2>8, TrendingUntil
      <4> QED BY <4>2, <4>3, HourIsOver
    <3>1. {f \in F : f.userSk \in Keys(U(S)) /\ f.contentSk \in Keys(C(S))} = Resolved(F)
      <4> HIDE DEF U, C
      <4> QED BY ResolvedAre
    <3> DEFINE V == Until(S, x.time)
    <3>2. Of(V) = Earlier(F, x.time)
      BY <2>1, <2>2, <3>0, FactsUntil DEF Earlier
    <3>3. {f \in Of(V) : f.userSk \in Keys(U(V)) /\ f.contentSk \in Keys(C(V))} = Resolved(Of(V))
      <4> HIDE DEF U, C, V
      <4> QED BY ResolvedAre
    <3> HIDE DEF Of, F, U, C
    <3>4. {f \in Earlier(F, x.time) : f.userSk \in Keys(U(V)) /\ f.contentSk \in Keys(C(V))} = Resolved(Earlier(F, x.time))
      BY <3>2, <3>3
    <3> HIDE DEF V
    <3>5. x \in ContentFeatures(Trending(Earlier(F, x.time)), Earlier(F, x.time), U(V), C(V))
      BY <2>8, <3>1, <3>4, ContentFeaturesUntil
    <3> QED BY <2>7, <3>0, <3>5 DEF V
  <2>10. ASSUME NEW x \in UserFeatures(Engagement(F))
         PROVE  x \in UserFeatures(Gold(Reduced(x.time)).engagement)
    <3> HIDE DEF F
    <3>1. x.time \in Nat /\ x \in UserFeatures(Engagement(Earlier(F, x.time)))
      BY <2>8, UserFeaturesUntil
    <3> QED BY <2>7, <3>1
  <2> HIDE DEF F, U, C
  <2>11. /\ \A f \in ContentFeatures(Gold(silver).trending, Gold(silver).facts, Gold(silver).users, Gold(silver).content) :
              LET G == Gold(Reduced(f.time))
              IN  f \in ContentFeatures(G.trending, G.facts, G.users, G.content)
         /\ \A f \in UserFeatures(Gold(silver).engagement) : f \in UserFeatures(Gold(Reduced(f.time)).engagement)
    BY <2>5, <2>9, <2>10
  <2> QED BY <2>11 DEF FeaturesArePointInTime, silver, Reduced
<1> QED BY <1>1, BronzeIsLanded, PTL

-----------------------------------------------------------------------------
(* Ingestion *)

\* The image of a finite set is finite, and as large if no two elements become one.
LEMMA ImageIs ==
  ASSUME NEW S, IsFiniteSet(S), NEW T, NEW f \in [S -> T], \A y \in T : \E x \in S : f[x] = y
  PROVE  /\ IsFiniteSet(T)
         /\ (\A x, y \in S : f[x] = f[y] => x = y) => Cardinality(T) = Cardinality(S)
<1>1. f \in Surjection(S, T)
  BY DEF Surjection
<1>2. (\A x, y \in S : f[x] = f[y] => x = y) => f \in Injection(S, T)
  BY DEF Injection, IsInjective
<1> QED BY <1>1, <1>2, FS_Surjection

\* A row as if one run of DP1 had ingested everything.
Undone(r)  == [r EXCEPT !.ingested = 1, !.source = 1]
Once(rows) == {Undone(r) : r \in rows}

\* Nothing else of it changes.
LEMMA UndoneVersion ==
  ASSUME NEW r \in Version
  PROVE  /\ Undone(r) \in Version /\ Undone(r).ingested = 1 /\ Undone(r).source = 1
         /\ Undone(r).key = r.key /\ Undone(r).at = r.at /\ Undone(r).state = r.state
         /\ Undone(r).valid = r.valid /\ Undone(r).schema = r.schema
         /\ BusinessKey(Undone(r)) = BusinessKey(r) /\ BusinessKey(r) = <<r.key, r.at>>
  BY DEF Version, Undone, BusinessKey, VersionKey

\* Nor of an event.
LEMMA UndoneEvent ==
  ASSUME NEW r \in Event
  PROVE  /\ Undone(r) \in Event /\ Undone(r).ingested = 1 /\ Undone(r).source = 1
         /\ Undone(r).event = r.event /\ Undone(r).session = r.session
         /\ Undone(r).user = r.user /\ Undone(r).content = r.content
         /\ Undone(r).at = r.at /\ Undone(r).watch = r.watch /\ Undone(r).completes = r.completes
         /\ Undone(r).valid = r.valid /\ Undone(r).schema = r.schema
         /\ BusinessKey(Undone(r)) = BusinessKey(r) /\ BusinessKey(r) = r.event
  BY DEF Event, Undone, BusinessKey

\* Copies of a row are the same row then.
LEMMA CopiesUndone ==
  ASSUME NEW rows, Copies(rows), NEW a \in rows, NEW b \in rows,
         BusinessKey(a) = BusinessKey(b), a.schema = b.schema,
         a \in Version \/ a \in Event
  PROVE  Undone(a) = Undone(b)
<1>1. b = [a EXCEPT !.ingested = b.ingested, !.source = b.source]
  BY DEF Copies
<1>2. PICK i, s : i = b.ingested /\ s = b.source
  OBVIOUS
<1>3. b = [a EXCEPT !.ingested = i, !.source = s]
  BY <1>1, <1>2
<1>4. [[a EXCEPT !.ingested = i, !.source = s] EXCEPT !.ingested = 1, !.source = 1]
        = [a EXCEPT !.ingested = 1, !.source = 1]
  BY DEF Version, Event
<1> QED BY <1>3, <1>4 DEF Undone

\* It does not matter whether rows are undone before or after they are deduplicated.
LEMMA DeduplicateOnce ==
  ASSUME NEW rows, IsVersions(rows) \/ IsEvents(rows)
  PROVE  Deduplicate(Once(rows)) = Once(Deduplicate(rows))
<1>1. IsFiniteSet(rows) /\ Copies(rows) /\ \A r \in rows : r \in Version \/ r \in Event
  BY DEF IsVersions, IsEvents, IsSource
<1>2. \A r \in rows : /\ Numbered(r) /\ Numbered(Undone(r))
                      /\ BusinessKey(Undone(r)) = BusinessKey(r) /\ Undone(r).schema = r.schema
                      /\ Undone(r).ingested = 1 /\ Undone(r).source = 1
  <2> SUFFICES ASSUME NEW r \in rows
               PROVE  /\ Numbered(r) /\ Numbered(Undone(r))
                      /\ BusinessKey(Undone(r)) = BusinessKey(r) /\ Undone(r).schema = r.schema
                      /\ Undone(r).ingested = 1 /\ Undone(r).source = 1
    OBVIOUS
  <2>1. CASE r \in Version
    <3>1. Numbered(r) /\ Numbered(Undone(r))
      BY <2>1, UndoneVersion DEF Numbered, Version
    <3> QED BY <2>1, <3>1, UndoneVersion
  <2>2. CASE r \in Event
    <3>1. Numbered(r) /\ Numbered(Undone(r))
      BY <2>2, UndoneEvent DEF Numbered, Event
    <3> QED BY <2>2, <3>1, UndoneEvent
  <2> QED BY <1>1, <2>1, <2>2
<1>3. IsFiniteSet(Once(rows)) /\ \A o \in Once(rows) : Numbered(o)
  <2>1. IsFiniteSet(Once(rows))
    <3> DEFINE f == [r \in rows |-> Undone(r)]
    <3>1. f \in [rows -> Once(rows)] /\ \A y \in Once(rows) : \E x \in rows : f[x] = y
      BY DEF Once
    <3> HIDE DEF f
    <3> QED BY <1>1, <3>1, ImageIs
  <2> QED BY <1>2, <2>1 DEF Once
<1>4. ASSUME NEW d \in Deduplicate(Once(rows)), NEW e \in Deduplicate(rows),
             BusinessKey(d) = BusinessKey(e)
      PROVE  d = Undone(e)
  <2>1. d \in Once(rows) /\ e \in rows
    BY <1>1, <1>2, <1>3, Deduplicated
  <2>2. PICK r \in rows : d = Undone(r)
    BY <2>1 DEF Once
  <2>3. Undone(e) \in Once(rows) /\ BusinessKey(Undone(e)) = BusinessKey(d)
    BY <1>2, <1>4, <2>1 DEF Once
  <2>4. Undone(e) # d => ~Supersedes(Undone(e), d)
    BY <1>3, <2>3, Deduplicated
  <2>5. BusinessKey(r) = BusinessKey(e)
    BY <1>2, <1>4, <2>2
  <2>6. r # e => ~Supersedes(r, e)
    BY <1>1, <1>2, <2>1, <2>5, Deduplicated
  <2>7. r.schema \in Nat /\ e.schema \in Nat
    BY <1>2, <2>1 DEF Numbered
  <2>8. Undone(e).schema = e.schema /\ d.schema = r.schema
    BY <1>2, <2>1, <2>2
  <2>9. SUFFICES ASSUME Undone(e) # d PROVE FALSE
    OBVIOUS
  <2>10. ~(e.schema > r.schema)
    BY <2>4, <2>8, <2>9 DEF Supersedes
  <2>11. ~(r.schema > e.schema)
    BY <2>2, <2>6, <2>9 DEF Supersedes
  <2>12. r.schema = e.schema
    BY <2>7, <2>10, <2>11
  <2> QED BY <1>1, <2>1, <2>2, <2>5, <2>9, <2>12, CopiesUndone
<1>5. ASSUME NEW d \in Deduplicate(Once(rows)) PROVE d \in Once(Deduplicate(rows))
  <2>1. PICK r \in rows : d = Undone(r)
    BY <1>3, Deduplicated DEF Once
  <2>2. PICK e \in Deduplicate(rows) : BusinessKey(e) = BusinessKey(r)
    BY <1>1, <1>2, Deduplicated
  <2>3. d = Undone(e)
    BY <1>2, <1>4, <2>1, <2>2
  <2> QED BY <2>3 DEF Once
<1>6. ASSUME NEW e \in Deduplicate(rows) PROVE Undone(e) \in Deduplicate(Once(rows))
  <2>1. e \in rows
    BY <1>1, <1>2, Deduplicated
  <2>2. Undone(e) \in Once(rows)
    BY <2>1 DEF Once
  <2>3. PICK d \in Deduplicate(Once(rows)) : BusinessKey(d) = BusinessKey(Undone(e))
    BY <1>3, <2>2, Deduplicated
  <2> QED BY <1>2, <1>4, <2>1, <2>3
<1> QED BY <1>5, <1>6 DEF Once

\* Nor whether the valid ones are selected before or after it.
LEMMA ValidOnce ==
  ASSUME NEW rows, IsVersions(rows) \/ IsEvents(rows)
  PROVE  Valid(Once(rows)) = Once(Valid(rows))
<1>1. \A r \in rows : Undone(r).valid = r.valid
  BY UndoneVersion, UndoneEvent DEF IsVersions, IsEvents, IsSource
<1> QED BY <1>1 DEF Valid, Once

\* The latest version is the same one.
LEMMA LatestOnce ==
  ASSUME NEW A, A # {}, \A v \in A : v \in Version /\ v.at \in 0 .. LastTime,
         \A v, o \in A : v.at = o.at => v = o
  PROVE  Latest(Once(A)) = Undone(Latest(A))
<1>1. \A v \in Once(A) : v.at \in 0 .. LastTime
  BY UndoneVersion DEF Once
<1>2. Once(A) # {}
  BY DEF Once
<1>3. /\ Latest(A) \in A /\ \A o \in A : o.at <= Latest(A).at
      /\ Latest(Once(A)) \in Once(A) /\ \A o \in Once(A) : o.at <= Latest(Once(A)).at
  BY <1>1, <1>2, LatestIs
<1>4. PICK a \in A : Latest(Once(A)) = Undone(a)
  BY <1>3 DEF Once
<1>5. Undone(Latest(A)) \in Once(A)
  BY <1>3 DEF Once
<1>6. Latest(A).at <= a.at /\ a.at <= Latest(A).at
  BY <1>3, <1>4, <1>5, UndoneVersion
<1>7. a.at \in Nat /\ Latest(A).at \in Nat
  BY <1>3 DEF Version
<1> QED BY <1>3, <1>4, <1>6, <1>7

\* The session of the events of one grain.
SessionOf(group, content) ==
  LET e       == CHOOSE e \in group : TRUE
      watch   == Max({x.watch : x \in group})
      runtime == Runtime(content, e.content)
  IN  [session |-> e.session, user |-> e.user, content |-> e.content,
       started |-> Min({x.at : x \in group}),
       ended   |-> Max({x.at : x \in group}),
       watch   |-> watch,
       completed |-> \/ \E x \in group : x.completes
                     \/ runtime > 0 /\ watch * 100 >= CompletionPercent * runtime,
       events  |-> Cardinality(group)]

SessionGrain(e) == <<e.session, e.user, e.content>>

\* BuildSessions, said with these.
LEMMA SessionsAre ==
  ASSUME NEW events, NEW content
  PROVE  BuildSessions(events, content)
           = {SessionOf({e \in events : SessionGrain(e) = g}, content) : g \in {SessionGrain(e) : e \in events}}
  BY DEF BuildSessions, SessionOf, SessionGrain

\* The runtime of a content stays.
LEMMA RuntimeOnce ==
  ASSUME NEW content, IsStaged(content), \A v \in content : v \in Version, NEW id
  PROVE  Runtime(Once(content), id) = Runtime(content, id)
<1> DEFINE A == {v \in content : v.key = id}
<1>1. {v \in Once(content) : v.key = id} = Once(A)
  BY UndoneVersion DEF Once
<1>2. Once(A) = {} <=> A = {}
  BY DEF Once
<1>3. CASE A = {}
  BY <1>1, <1>2, <1>3 DEF Runtime
<1>4. CASE A # {}
  <2>1. \A v \in A : v \in Version /\ v.at \in 0 .. LastTime /\ v.key = id /\ v \in content
    BY DEF IsStaged
  <2>2. \A v, o \in A : v.at = o.at => v = o
    BY DEF IsStaged
  <2> HIDE DEF A
  <2>3. Latest(Once(A)) = Undone(Latest(A)) /\ Latest(A) \in A
    BY <1>4, <2>1, <2>2, LatestOnce, LatestIs
  <2>4. Latest(Once(A)).state = Latest(A).state
    BY <2>1, <2>3, UndoneVersion
  <2> QED BY <1>1, <1>2, <1>4, <2>4 DEF Runtime, A
<1> QED BY <1>3, <1>4

\* So do the sessions.
LEMMA SessionsOnce ==
  ASSUME NEW events, IsFiniteSet(events), \A e \in events : e \in Event,
         \A d, e \in events : d.event = e.event => d = e,
         NEW content, IsStaged(content), \A v \in content : v \in Version
  PROVE  BuildSessions(Once(events), Once(content)) = BuildSessions(events, content)
<1> DEFINE Group(E, g) == {e \in E : SessionGrain(e) = g}
<1>1. \A e \in events : SessionGrain(Undone(e)) = SessionGrain(e)
  BY UndoneEvent DEF SessionGrain
<1>2. {SessionGrain(e) : e \in Once(events)} = {SessionGrain(e) : e \in events}
  BY <1>1 DEF Once
<1>3. ASSUME NEW g \in {SessionGrain(e) : e \in events}
      PROVE  SessionOf(Group(Once(events), g), Once(content)) = SessionOf(Group(events, g), content)
  <2> DEFINE A == Group(events, g)
  <2>1. Group(Once(events), g) = Once(A)
    BY <1>1 DEF Once
  <2>2. \A e \in A : e \in Event /\ e \in events /\ SessionGrain(e) = g
    OBVIOUS
  <2>3. A # {} /\ IsFiniteSet(A)
    BY FS_Subset
  <2> HIDE DEF A
  <2>4. Cardinality(Once(A)) = Cardinality(A)
    <3> DEFINE f == [r \in A |-> Undone(r)]
    <3>1. f \in [A -> Once(A)] /\ \A y \in Once(A) : \E x \in A : f[x] = y
      BY DEF Once
    <3>2. \A x, y \in A : f[x] = f[y] => x = y
      <4> SUFFICES ASSUME NEW x \in A, NEW y \in A, Undone(x) = Undone(y) PROVE x = y
        OBVIOUS
      <4>1. x.event = y.event
        BY <2>2, UndoneEvent
      <4> QED BY <2>2, <4>1
    <3> HIDE DEF f
    <3> QED BY <2>3, <3>1, <3>2, ImageIs
  <2>5. \A e \in A : /\ Undone(e) \in Once(A) /\ Undone(e).watch = e.watch /\ Undone(e).at = e.at
                     /\ Undone(e).completes = e.completes
    BY <2>2, UndoneEvent DEF Once
  <2>6. \A o \in Once(A) : \E e \in A : o = Undone(e)
    BY DEF Once
  <2>7. /\ {x.watch : x \in Once(A)} = {x.watch : x \in A} /\ {x.at : x \in Once(A)} = {x.at : x \in A}
        /\ (\E x \in Once(A) : x.completes) <=> \E x \in A : x.completes
    BY <2>5, <2>6
  <2>8. PICK d, e : d = (CHOOSE x \in Once(A) : TRUE) /\ e = CHOOSE x \in A : TRUE
    OBVIOUS
  <2>9. d \in Once(A) /\ e \in A
    BY <2>3, <2>5, <2>8
  <2>10. SessionGrain(d) = g /\ SessionGrain(e) = g
    BY <1>1, <2>2, <2>6, <2>9
  <2>11. d.session = e.session /\ d.user = e.user /\ d.content = e.content
    BY <2>10 DEF SessionGrain
  <2>12. Runtime(Once(content), d.content) = Runtime(content, e.content)
    BY <2>11, RuntimeOnce
  <2>13. SessionOf(Once(A), Once(content)) = SessionOf(A, content)
    BY <2>4, <2>7, <2>8, <2>11, <2>12 DEF SessionOf
  <2> QED BY <2>1, <2>13 DEF A
<1> HIDE DEF Group
<1>4. {SessionOf(Group(Once(events), g), Once(content)) : g \in {SessionGrain(e) : e \in Once(events)}}
        = {SessionOf(Group(events, g), content) : g \in {SessionGrain(e) : e \in events}}
  BY <1>2, <1>3
<1> QED BY <1>4, SessionsAre DEF Group

\* Versions that say the same; when they were ingested is left open.
Alike(v, w) == v.key = w.key /\ v.at = w.at /\ v.state = w.state

SameHistory(G, H) ==
  /\ \A v \in G : \E w \in H : Alike(v, w)
  /\ \A w \in H : \E v \in G : Alike(v, w)

\* What was known of an entity at a time.
LEMMA AsOfOnce ==
  ASSUME NEW S, IsStaged(S), \A v \in S : v \in Version, NEW k, NEW t
  PROVE  /\ AsOf(Once(S), k, t) = {} <=> AsOf(S, k, t) = {}
         /\ AsOf(S, k, t) # {} => Latest(AsOf(Once(S), k, t)).state = Latest(AsOf(S, k, t)).state
<1> DEFINE A == AsOf(S, k, t)
<1>1. AsOf(Once(S), k, t) = Once(A)
  BY UndoneVersion DEF Once, AsOf
<1>2. \A v \in A : v \in Version /\ v.at \in 0 .. LastTime
  BY DEF IsStaged, AsOf
<1>3. \A v, o \in A : v.at = o.at => v = o
  BY DEF IsStaged, AsOf
<1> HIDE DEF A
<1>4. Once(A) = {} <=> A = {}
  BY DEF Once
<1>5. ASSUME A # {} PROVE Latest(Once(A)).state = Latest(A).state
  <2>1. Latest(Once(A)) = Undone(Latest(A)) /\ Latest(A) \in A
    BY <1>2, <1>3, <1>5, LatestOnce, LatestIs
  <2> QED BY <1>2, <2>1, UndoneVersion
<1> QED BY <1>1, <1>4, <1>5 DEF A

\* Undone rows are staged like the others.
LEMMA StagedOnce ==
  ASSUME NEW S, IsStaged(S), \A v \in S : v \in Version
  PROVE  IsStaged(Once(S))
<1>1. \A o \in Once(S) : \E v \in S : o = Undone(v) /\ o.key = v.key /\ o.at = v.at
  BY UndoneVersion DEF Once
<1> QED BY <1>1 DEF IsStaged

\* The timeline of the users says the same.
LEMMA UserTimelineOnce ==
  ASSUME NEW users, IsStaged(users), \A v \in users : v \in Version,
         NEW plans, IsStaged(plans), \A v \in plans : v \in Version
  PROVE  SameHistory(UserTimeline(Once(users), Once(plans)), UserTimeline(users, plans))
<1> DEFINE G == UserTimeline(Once(users), Once(plans))
           H == UserTimeline(users, plans)
<1>1. \A u, t : /\ AsOf(Once(users), u, t) = {} <=> AsOf(users, u, t) = {}
                /\ AsOf(users, u, t) # {} =>
                     Latest(AsOf(Once(users), u, t)).state = Latest(AsOf(users, u, t)).state
                /\ Subscribed(Once(plans), u, t) = Subscribed(plans, u, t)
  BY AsOfOnce DEF Subscribed
<1>2. /\ \A r \in users \cup plans : \E o \in Once(users) \cup Once(plans) : o.key = r.key /\ o.at = r.at
      /\ \A o \in Once(users) \cup Once(plans) : \E r \in users \cup plans : o.key = r.key /\ o.at = r.at
  <2>1. \A r \in users \cup plans : Undone(r).key = r.key /\ Undone(r).at = r.at
    BY UndoneVersion
  <2> QED BY <2>1 DEF Once
<1>3. /\ \A v \in H :
           /\ AsOf(users, v.key, v.at) # {}
           /\ \E r \in users \cup plans : r.key = v.key /\ r.at = v.at
           /\ v.state = <<Latest(AsOf(users, v.key, v.at)).state, Subscribed(plans, v.key, v.at)>>
      /\ \A r \in users \cup plans : AsOf(users, r.key, r.at) # {} =>
           \E v \in H : v.key = r.key /\ v.at = r.at
  BY UserTimelineRows
<1>4. /\ \A v \in G :
           /\ AsOf(Once(users), v.key, v.at) # {}
           /\ \E r \in Once(users) \cup Once(plans) : r.key = v.key /\ r.at = v.at
           /\ v.state = <<Latest(AsOf(Once(users), v.key, v.at)).state, Subscribed(Once(plans), v.key, v.at)>>
      /\ \A r \in Once(users) \cup Once(plans) : AsOf(Once(users), r.key, r.at) # {} =>
           \E v \in G : v.key = r.key /\ v.at = r.at
  BY UserTimelineRows
<1> HIDE DEF G, H
<1>5. ASSUME NEW v \in G PROVE \E w \in H : Alike(v, w)
  <2>1. PICK r \in users \cup plans : r.key = v.key /\ r.at = v.at
    BY <1>2, <1>4
  <2>2. AsOf(users, v.key, v.at) # {}
    BY <1>1, <1>4
  <2>3. PICK w \in H : w.key = v.key /\ w.at = v.at
    BY <1>3, <2>1, <2>2
  <2>4. w.state = v.state
    BY <1>1, <1>3, <1>4, <2>2, <2>3
  <2> QED BY <2>3, <2>4 DEF Alike
<1>6. ASSUME NEW w \in H PROVE \E v \in G : Alike(v, w)
  <2>1. PICK r \in Once(users) \cup Once(plans) : r.key = w.key /\ r.at = w.at
    BY <1>2, <1>3
  <2>2. AsOf(Once(users), w.key, w.at) # {} /\ AsOf(users, w.key, w.at) # {}
    BY <1>1, <1>3
  <2>3. PICK v \in G : w.key = v.key /\ w.at = v.at
    BY <1>4, <2>1, <2>2
  <2>4. w.state = v.state
    BY <1>1, <1>3, <1>4, <2>2, <2>3
  <2> QED BY <2>3, <2>4 DEF Alike
<1> QED BY <1>5, <1>6 DEF SameHistory, G, H

\* And that of the content.
LEMMA ContentTimelineOnce ==
  ASSUME NEW content, \A v \in content : v \in Version
  PROVE  SameHistory(ContentTimeline(Once(content)), ContentTimeline(content))
<1> DEFINE Entry(v) == [key |-> v.key, at |-> v.at, state |-> <<v.state>>, created |-> v.ingested]
<1>1. \A S : ContentTimeline(S) = {Entry(v) : v \in S}
  BY DEF ContentTimeline
<1>2. \A v \in content : Alike(Entry(Undone(v)), Entry(v))
  BY UndoneVersion DEF Alike
<1> HIDE DEF Entry
<1> QED BY <1>1, <1>2 DEF SameHistory, Once

\* A version repeats what was before it in both or in none.
LEMMA ChangesAlike ==
  ASSUME NEW G, IsHistory(G), NEW H, IsHistory(H), SameHistory(G, H)
  PROVE  SameHistory(ChangesOnly(G), ChangesOnly(H))
<1> DEFINE Before(X, v) == {o \in X : o.key = v.key /\ o.at < v.at}
<1>1. \A X : ChangesOnly(X) = {v \in X : Before(X, v) = {} \/ Latest(Before(X, v)).state # v.state}
  BY DEF ChangesOnly
<1>2. ASSUME NEW v \in G, NEW w \in H, Alike(v, w)
      PROVE  v \in ChangesOnly(G) <=> w \in ChangesOnly(H)
  <2>1. \A o \in Before(G, v) : \E p \in Before(H, w) : Alike(o, p)
    BY <1>2 DEF SameHistory, Alike
  <2>2. \A p \in Before(H, w) : \E o \in Before(G, v) : Alike(o, p)
    BY <1>2 DEF SameHistory, Alike
  <2>3. Before(G, v) = {} <=> Before(H, w) = {}
    BY <2>1, <2>2
  <2>4. ASSUME Before(G, v) # {} PROVE Latest(Before(G, v)).state = Latest(Before(H, w)).state
    <3>1. \A o \in Before(G, v) \cup Before(H, w) : o.at \in 0 .. LastTime
      BY DEF IsHistory
    <3> DEFINE a == Latest(Before(G, v))
               b == Latest(Before(H, w))
    <3>2. /\ a \in Before(G, v) /\ \A o \in Before(G, v) : o.at <= a.at
          /\ b \in Before(H, w) /\ \A o \in Before(H, w) : o.at <= b.at
      <4> HIDE DEF Before
      <4> QED BY <2>3, <2>4, <3>1, LatestIs
    <3> HIDE DEF a, b
    <3>3. PICK p \in Before(H, w) : Alike(a, p)
      BY <2>1, <3>2
    <3>4. PICK o \in Before(G, v) : Alike(o, b)
      BY <2>2, <3>2
    <3>5. a.at <= b.at /\ b.at <= a.at /\ a.at \in Nat /\ b.at \in Nat
      BY <3>1, <3>2, <3>3, <3>4, TimesBelow DEF Alike
    <3>6. a.at = b.at
      BY <3>5
    <3>7. p.at = b.at /\ p.key = b.key /\ p \in H /\ b \in H
      BY <3>2, <3>3, <3>6 DEF Alike
    <3>8. p = b
      BY <3>7 DEF IsHistory
    <3> QED BY <3>3, <3>8 DEF Alike, a, b
  <2>5. v.state = w.state
    BY <1>2 DEF Alike
  <2> HIDE DEF Before
  <2> QED BY <1>1, <2>3, <2>4, <2>5
<1>3. \A v \in ChangesOnly(G) : v \in G
  BY DEF ChangesOnly
<1>4. \A v \in ChangesOnly(H) : v \in H
  BY DEF ChangesOnly
<1> QED BY <1>2, <1>3, <1>4 DEF SameHistory

\* A dimension without its ingestion times, and the keys a play finds in it.
LEMMA DimensionAlike ==
  ASSUME NEW G, NEW H, SameHistory(G, H), NEW plays
  PROVE  /\ Undated(Dimension(G, plays)) = Undated(Dimension(H, plays))
         /\ \A k, t : SurrogateKeys(Dimension(G, plays), k, t) = SurrogateKeys(Dimension(H, plays), k, t)
<1> DEFINE Later(X, v)  == {o.at : o \in {x \in X : x.key = v.key /\ x.at > v.at}}
           First(X, v) == \A o \in X : o.key = v.key => v.at <= o.at
           From(X, v)  == IF First(X, v)
                          THEN Min({v.at} \cup {p.at : p \in {x \in plays : x.key = v.key}})
                          ELSE v.at
           To(X, v)    == IF Later(X, v) = {} THEN EndOfTime ELSE Min(Later(X, v))
           Row(X, v)   == [key |-> v.key, state |-> v.state, from |-> From(X, v), to |-> To(X, v),
                           created |-> v.created]
           Bare(X, v)  == [key |-> v.key, state |-> v.state, from |-> From(X, v), to |-> To(X, v),
                           created |-> 0]
<1>1. \A X : Dimension(X, plays) = {Row(X, v) : v \in X}
  BY DEF Dimension
<1>2. ASSUME NEW v \in G, NEW w \in H, Alike(v, w) PROVE Bare(G, v) = Bare(H, w)
  <2>1. Later(G, v) = Later(H, w)
    BY <1>2 DEF SameHistory, Alike
  <2>2. First(G, v) <=> First(H, w)
    BY <1>2 DEF SameHistory, Alike
  <2>3. From(G, v) = From(H, w)
    <3> HIDE DEF First
    <3> QED BY <1>2, <2>2 DEF Alike
  <2>4. To(G, v) = To(H, w)
    <3> HIDE DEF Later
    <3> QED BY <2>1
  <2> HIDE DEF From, To
  <2> QED BY <1>2, <2>3, <2>4 DEF Alike
<1> HIDE DEF From, To
<1>3. \A X, v : [Row(X, v) EXCEPT !.created = 0] = Bare(X, v)
  OBVIOUS
<1>4. \A X, v : Row(X, v).key = Bare(X, v).key /\ Row(X, v).from = Bare(X, v).from /\ Row(X, v).to = Bare(X, v).to
  OBVIOUS
<1> HIDE DEF Row, Bare
<1> DEFINE All(X) == {Bare(X, v) : v \in X}
<1>5. \A X : Undated(Dimension(X, plays)) = All(X)
  BY <1>1, <1>3 DEF Undated
<1>6. All(G) = All(H)
  BY <1>2 DEF SameHistory
<1>7. ASSUME NEW X, NEW k, NEW t
      PROVE  SurrogateKeys(Dimension(X, plays), k, t) = SurrogateKeys(All(X), k, t)
  <2> DEFINE D == Dimension(X, plays)
             A == All(X)
  <2>1. /\ \A d \in D : \E a \in A : d.key = a.key /\ d.from = a.from /\ d.to = a.to
        /\ \A a \in A : \E d \in D : d.key = a.key /\ d.from = a.from /\ d.to = a.to
    BY <1>1, <1>4
  <2> HIDE DEF D, A
  <2>2. /\ \A d \in ValidAt(D, k, t) : \E a \in ValidAt(A, k, t) : d.key = a.key /\ d.from = a.from
        /\ \A a \in ValidAt(A, k, t) : \E d \in ValidAt(D, k, t) : d.key = a.key /\ d.from = a.from
    BY <2>1 DEF ValidAt
  <2>3. {<<d.key, d.from>> : d \in ValidAt(D, k, t)} = {<<d.key, d.from>> : d \in ValidAt(A, k, t)}
    BY <2>2
  <2>4. ValidAt(D, k, t) = {} <=> ValidAt(A, k, t) = {}
    BY <2>2
  <2>5. SurrogateKeys(D, k, t) = SurrogateKeys(A, k, t)
    BY <2>3, <2>4 DEF SurrogateKeys
  <2> QED BY <2>5 DEF D, A
<1> HIDE DEF All
<1> QED BY <1>5, <1>6, <1>7

\* Gold depends on what the sources say, not on which runs of DP1 read it how
\* often: with a row read twice, and whatever the runs that read it, the facts, the
\* rollup of the hours and the dimensions up to ingestion times are the same.
THEOREM IngestionIsUndone == Spec => []ReingestionChangesNothing
<1>1. Landed => ReingestionChangesNothing
  <2> SUFFICES ASSUME Landed PROVE ReingestionChangesNothing
    OBVIOUS
  <2> DEFINE again == [d \in DOMAIN bronze |-> Once(bronze[d])]
             A == Silver(bronze)
             B == Silver(again)
  <2>1. /\ IsVersions(bronze.users) /\ IsVersions(bronze.subscriptions) /\ IsVersions(Valid(bronze.subscriptions))
        /\ IsVersions(bronze.content) /\ IsVersions(Valid(bronze.content))
        /\ IsEvents(bronze.events) /\ IsEvents(Valid(bronze.events))
    BY BronzeIsSource, SourceSubset DEF IsVersions, IsEvents, Valid
  <2>2. /\ again.users = Once(bronze.users) /\ again.subscriptions = Once(bronze.subscriptions)
        /\ again.content = Once(bronze.content) /\ again.events = Once(bronze.events)
    BY DEF Landed
  <2> HIDE DEF again
  <2>3. /\ A.users = Deduplicate(bronze.users) /\ A.subscriptions = Deduplicate(Valid(bronze.subscriptions))
        /\ A.content = Deduplicate(Valid(bronze.content)) /\ A.events = Deduplicate(Valid(bronze.events))
        /\ A.sessions = BuildSessions(A.events, A.content)
    BY DEF Silver, StageUsers, StageSubscriptions, StageContent, StageEvents
  <2>4. /\ B.users = Deduplicate(again.users) /\ B.subscriptions = Deduplicate(Valid(again.subscriptions))
        /\ B.content = Deduplicate(Valid(again.content)) /\ B.events = Deduplicate(Valid(again.events))
        /\ B.sessions = BuildSessions(B.events, B.content)
    BY DEF Silver, StageUsers, StageSubscriptions, StageContent, StageEvents
  <2> HIDE DEF A, B
  <2>5. /\ B.users = Once(A.users) /\ B.subscriptions = Once(A.subscriptions)
        /\ B.content = Once(A.content) /\ B.events = Once(A.events)
    BY <2>1, <2>2, <2>3, <2>4, DeduplicateOnce, ValidOnce
  <2>6. /\ IsStaged(A.users) /\ IsStaged(A.subscriptions) /\ IsStaged(A.content)
        /\ \A v \in A.users \cup A.subscriptions \cup A.content : v \in Version
    <3>1. \A rows : IsVersions(rows) =>
            IsStaged(Deduplicate(rows)) /\ \A v \in Deduplicate(rows) : v \in Version
      BY DeduplicateStages DEF IsVersions, IsSource
    <3> QED BY <2>1, <2>3, <3>1
  <2>7. /\ IsFiniteSet(A.events) /\ \A e \in A.events : e \in Event
        /\ \A d, e \in A.events : d.event = e.event => d = e
    <3> DEFINE rows == Valid(bronze.events)
    <3>1. IsFiniteSet(rows) /\ \A e \in rows : e \in Event /\ Numbered(e)
      BY <2>1 DEF IsEvents, IsSource, Event, Numbered
    <3> HIDE DEF rows
    <3>2. /\ A.events \subseteq rows
          /\ \A d, e \in A.events : BusinessKey(d) = BusinessKey(e) => d = e
      BY <2>3, <3>1, Deduplicated DEF rows
    <3>3. \A e \in rows : BusinessKey(e) = e.event
      BY <3>1, UndoneEvent
    <3> QED BY <3>1, <3>2, <3>3, FS_Subset
  <2>8. B.sessions = A.sessions
    BY <2>3, <2>4, <2>5, <2>6, <2>7, SessionsOnce
  <2> DEFINE Users(X)   == ChangesOnly(UserTimeline(X.users, X.subscriptions))
             Content(X) == ChangesOnly(ContentTimeline(X.content))
             players    == {[key |-> s.user, at |-> s.started] : s \in A.sessions}
             played     == {[key |-> s.content, at |-> s.started] : s \in A.sessions}
  <2>9. SameHistory(Users(B), Users(A)) /\ SameHistory(Content(B), Content(A))
    <3>1. IsStaged(B.users) /\ IsStaged(B.subscriptions) /\ IsStaged(B.content)
      BY <2>5, <2>6, StagedOnce
    <3>2. /\ IsHistory(UserTimeline(A.users, A.subscriptions)) /\ IsHistory(UserTimeline(B.users, B.subscriptions))
          /\ IsHistory(ContentTimeline(A.content)) /\ IsHistory(ContentTimeline(B.content))
      BY <2>6, <3>1, UserTimelineIs, ContentTimelineIs
    <3>3. SameHistory(UserTimeline(B.users, B.subscriptions), UserTimeline(A.users, A.subscriptions))
      BY <2>5, <2>6, UserTimelineOnce
    <3>4. SameHistory(ContentTimeline(B.content), ContentTimeline(A.content))
      BY <2>5, <2>6, ContentTimelineOnce
    <3> QED BY <3>2, <3>3, <3>4, ChangesAlike
  <2>10. /\ Gold(A).users = Dimension(Users(A), players) /\ Gold(B).users = Dimension(Users(B), players)
         /\ Gold(A).content = Dimension(Content(A), played) /\ Gold(B).content = Dimension(Content(B), played)
    BY <2>8 DEF Gold, DimUser, DimContent
  <2>11. /\ Gold(A).facts = Facts(A.sessions, Gold(A).users, Gold(A).content)
         /\ Gold(B).facts = Facts(A.sessions, Gold(B).users, Gold(B).content)
         /\ Gold(A).trending = Trending(Gold(A).facts) /\ Gold(B).trending = Trending(Gold(B).facts)
    BY <2>8 DEF Gold
  <2> HIDE DEF Users, Content, players, played
  <2>12. /\ Undated(Gold(B).users) = Undated(Gold(A).users) /\ Undated(Gold(B).content) = Undated(Gold(A).content)
         /\ \A k, t : SurrogateKeys(Gold(B).users, k, t) = SurrogateKeys(Gold(A).users, k, t)
         /\ \A k, t : SurrogateKeys(Gold(B).content, k, t) = SurrogateKeys(Gold(A).content, k, t)
    BY <2>9, <2>10, DimensionAlike
  <2>13. Gold(B).facts = Gold(A).facts
    <3>1. ASSUME NEW S, NEW U, NEW V, NEW C, NEW D,
                 \A k, t : SurrogateKeys(U, k, t) = SurrogateKeys(V, k, t),
                 \A k, t : SurrogateKeys(C, k, t) = SurrogateKeys(D, k, t)
          PROVE  Facts(S, U, C) = Facts(S, V, D)
      BY <3>1 DEF Facts
    <3> QED BY <2>11, <2>12, <3>1
  <2>14. /\ Gold(A).facts = Gold(B).facts /\ Gold(A).trending = Gold(B).trending
         /\ Undated(Gold(A).users) = Undated(Gold(B).users)
         /\ Undated(Gold(A).content) = Undated(Gold(B).content)
    BY <2>11, <2>12, <2>13
  <2> QED BY <2>14 DEF ReingestionChangesNothing, A, B, again, Once, Undone
<1> QED BY <1>1, BronzeIsLanded, PTL

-----------------------------------------------------------------------------
(* Sums.  What a rollup adds up does not depend on how its rows are grouped. *)

-----------------------------------------------------------------------------
(* Induction and sums *)

\* Numbers up to n are reached one after the other.
LEMMA Induction ==
  ASSUME NEW n \in Nat, NEW G, 0 \in G, \A i \in 0..(n - 1) : i \in G => i + 1 \in G
  PROVE  \A i \in 0..n : i \in G
<1> DEFINE Bad == {i \in Nat : i <= n /\ i \notin G}
<1> SUFFICES ASSUME Bad # {} PROVE FALSE
  OBVIOUS
<1>1. PICK m \in Bad : \A i \in Bad : ~(<<i, m>> \in OpToRel(<, Nat))
  <2>1. Bad \subseteq Nat
    OBVIOUS
  <2> HIDE DEF Bad
  <2> QED BY <2>1, NatLessThanWellFounded, WFMin
<1>2. m \in Nat /\ m # 0 /\ m <= n /\ m \notin G
  OBVIOUS
<1>3. m - 1 \in Nat /\ m - 1 < m /\ m - 1 \in 0..(n - 1)
  BY <1>2
<1>4. m - 1 \in G
  <2>1. <<m - 1, m>> \in OpToRel(<, Nat)
    BY <1>2, <1>3 DEF OpToRel
  <2>2. m - 1 \notin Bad
    BY <1>1, <2>1
  <2> QED BY <1>2, <1>3, <2>2
<1> QED BY <1>2, <1>3, <1>4

\* Finite sets are built one element after the other.
LEMMA SetInduction ==
  ASSUME NEW S, IsFiniteSet(S), NEW G, {} \in G,
         \A s \in SUBSET S : s # {} /\ (\A x \in s : s \ {x} \in G) => s \in G
  PROVE  \A s \in SUBSET S : s \in G
<1>0. Cardinality(S) \in Nat /\ \A s \in SUBSET S : IsFiniteSet(s) /\ Cardinality(s) \in Nat /\ Cardinality(s) <= Cardinality(S)
  BY FS_CardinalityType, FS_Subset
<1> DEFINE Small(n) == \A s \in SUBSET S : Cardinality(s) <= n => s \in G
           N == {n \in Nat : Small(n)}
<1>1. \A s \in SUBSET S : s = {} <=> Cardinality(s) = 0
  BY <1>0, FS_EmptySet
<1>2. 0 \in N
  <2>1. ASSUME NEW s \in SUBSET S, Cardinality(s) <= 0 PROVE s \in G
    <3>1. Cardinality(s) = 0
      BY <1>0, <2>1
    <3> QED BY <1>1, <3>1
  <2>2. Small(0)
    BY <2>1
  <2> HIDE DEF Small
  <2> QED BY <2>2
<1>3. ASSUME NEW n \in Nat, n \in N PROVE n + 1 \in N
  <2>1. \A s \in SUBSET S : Cardinality(s) <= n => s \in G
    BY <1>3
  <2>2. ASSUME NEW s \in SUBSET S, Cardinality(s) <= n + 1 PROVE s \in G
    <3>1. CASE s = {}
      BY <3>1
    <3>2. CASE s # {}
      <4>1. ASSUME NEW x \in s PROVE s \ {x} \in G
        <5>1. Cardinality(s \ {x}) = Cardinality(s) - 1
          BY <1>0, FS_RemoveElement
        <5>2. Cardinality(s) \in Nat /\ Cardinality(s) - 1 <= n
          BY <1>0, <2>2
        <5> QED BY <2>1, <5>1, <5>2
      <4> QED BY <3>2, <4>1
    <3> QED BY <3>1, <3>2
  <2>3. Small(n + 1)
    BY <2>2
  <2> HIDE DEF Small
  <2> QED BY <2>3
<1>4. \A i \in 0 .. Cardinality(S) : i \in N
  <2> HIDE DEF N
  <2> QED BY <1>0, <1>2, <1>3, Induction
<1>5. Small(Cardinality(S))
  <2>1. Cardinality(S) \in N
    <3> HIDE DEF N
    <3> QED BY <1>0, <1>4
  <2> QED BY <2>1
<1> QED BY <1>0, <1>5

\* The iteration of MapThenFoldSet that adds the weights of a set to base.
Adds(g, w, base, S) ==
  g = [s \in SUBSET S |-> IF s = {} THEN base
                          ELSE LET x == CHOOSE x \in s : TRUE IN w[x] + g[s \ {x}]]


\* There is such an iteration.
LEMMA AddsExists ==
  ASSUME NEW S, IsFiniteSet(S), NEW w, NEW base
  PROVE  \E g : Adds(g, w, base, S)
<1> DEFINE Upto(n) == {s \in SUBSET S : Cardinality(s) <= n}
           Iterate(g, s) == IF s = {} THEN base ELSE LET x == CHOOSE x \in s : TRUE IN w[x] + g[s \ {x}]
           Part(g, n) == \A s \in Upto(n) : g[s] = Iterate(g, s)
           N == Cardinality(S)
           G == {n \in 0..N : \E g : DOMAIN g = Upto(n) /\ Part(g, n)}
<1>0. N \in Nat /\ \A s \in SUBSET S : IsFiniteSet(s) /\ Cardinality(s) \in Nat /\ Cardinality(s) <= N
  BY FS_CardinalityType, FS_Subset
<1> HIDE DEF N
<1>1. \A s \in SUBSET S : s # {} => LET x == CHOOSE x \in s : TRUE
        IN  x \in s /\ s \ {x} \in SUBSET S /\ Cardinality(s \ {x}) = Cardinality(s) - 1 /\ Cardinality(s) # 0
  <2> TAKE s \in SUBSET S
  <2> HAVE s # {}
  <2>1. PICK x : x = CHOOSE y \in s : TRUE
    OBVIOUS
  <2>2. x \in s /\ s \ {x} \in SUBSET S
    BY <2>1
  <2>3. Cardinality(s \ {x}) = Cardinality(s) - 1
    BY <1>0, <2>2, FS_RemoveElement
  <2>4. Cardinality(s) # 0
    BY <1>0, FS_EmptySet
  <2> QED BY <2>1, <2>2, <2>3, <2>4
<1>2. 0 \in G
  <2> DEFINE g == [s \in Upto(0) |-> base]
  <2>1. \A s \in Upto(0) : s = {}
    <3> TAKE s \in Upto(0)
    <3>1. s \in SUBSET S /\ Cardinality(s) <= 0 /\ Cardinality(s) \in Nat
      BY <1>0
    <3>2. Cardinality(s) = 0
      BY <3>1
    <3>3. s # {} => Cardinality(s) # 0
      <4> HAVE s # {}
      <4> QED BY <1>1, <3>1
    <3> QED BY <3>2, <3>3
  <2>2. Part(g, 0)
    BY <2>1
  <2>3. DOMAIN g = Upto(0)
    OBVIOUS
  <2>4. \E f : DOMAIN f = Upto(0) /\ Part(f, 0)
    <3> HIDE DEF g, Part, Upto
    <3> QED BY <2>2, <2>3
  <2>5. 0 \in 0..N
    BY <1>0
  <2> HIDE DEF Part, Upto
  <2> QED BY <2>4, <2>5
<1>3. ASSUME NEW n \in 0..(N - 1), n \in G PROVE n + 1 \in G
  <2>1. PICK g : DOMAIN g = Upto(n) /\ Part(g, n)
    BY <1>3
  <2> DEFINE h == [s \in Upto(n + 1) |-> IF Cardinality(s) <= n THEN g[s] ELSE Iterate(g, s)]
  <2>2. ASSUME NEW s \in Upto(n + 1) PROVE h[s] = Iterate(h, s)
    <3>1. CASE s = {}
      <4>1. s \in Upto(n)
        BY <1>0, <3>1, FS_EmptySet
      <4>2. g[s] = Iterate(g, s)
        BY <2>1, <4>1
      <4> QED BY <2>2, <3>1, <4>1, <4>2
    <3>2. CASE s # {}
      <4>1. PICK x : x = CHOOSE y \in s : TRUE
        OBVIOUS
      <4>2. s \ {x} \in SUBSET S /\ Cardinality(s \ {x}) = Cardinality(s) - 1 /\ s \in SUBSET S
        BY <1>1, <2>2, <3>2, <4>1
      <4>3. s \ {x} \in Upto(n) /\ s \ {x} \in Upto(n + 1) /\ Cardinality(s \ {x}) <= n
        BY <1>0, <1>3, <2>2, <4>2
      <4>4. h[s \ {x}] = g[s \ {x}]
        BY <4>3
      <4>5. h[s] = Iterate(g, s)
        <5>1. CASE Cardinality(s) <= n
          <6>1. s \in Upto(n) /\ h[s] = g[s]
            BY <2>2, <5>1, <4>2
          <6> QED BY <2>1, <6>1
        <5>2. CASE ~(Cardinality(s) <= n)
          BY <2>2, <5>2
        <5> QED BY <5>1, <5>2
      <4>6. Iterate(g, s) = w[x] + g[s \ {x}] /\ Iterate(h, s) = w[x] + h[s \ {x}]
        <5> HIDE DEF h
        <5> QED BY <3>2, <4>1
      <4> HIDE DEF h, Iterate
      <4> QED BY <4>4, <4>5, <4>6
    <3> QED BY <3>1, <3>2
  <2>3. DOMAIN h = Upto(n + 1)
    OBVIOUS
  <2>4. Part(h, n + 1)
    <3> HIDE DEF h, Iterate
    <3> QED BY <2>2
  <2>5. \E f : DOMAIN f = Upto(n + 1) /\ Part(f, n + 1)
    <3> HIDE DEF h, Part, Upto
    <3> QED BY <2>3, <2>4
  <2>6. n + 1 \in 0..N
    BY <1>0
  <2> HIDE DEF Part, Upto
  <2> QED BY <2>5, <2>6
<1>4. N \in G
  <2> HIDE DEF G
  <2> QED BY <1>0, <1>2, <1>3, Induction
<1>5. PICK g : DOMAIN g = Upto(N) /\ Part(g, N)
  BY <1>4
<1>6. Upto(N) = SUBSET S
  BY <1>0
<1> DEFINE h == [s \in SUBSET S |-> Iterate(g, s)]
<1>7. \A s \in SUBSET S : h[s] = g[s]
  BY <1>5, <1>6
<1>8. ASSUME NEW s \in SUBSET S PROVE Iterate(h, s) = Iterate(g, s)
  <2>1. CASE s = {}
    BY <2>1
  <2>2. CASE s # {}
    <3>1. PICK x : x = CHOOSE y \in s : TRUE
      OBVIOUS
    <3>2. h[s \ {x}] = g[s \ {x}]
      BY <1>7
    <3> HIDE DEF h
    <3> QED BY <2>2, <3>1, <3>2
  <2> QED BY <2>1, <2>2
<1>9. h = [s \in SUBSET S |-> Iterate(h, s)]
  <2>1. h = [s \in SUBSET S |-> h[s]] /\ \A s \in SUBSET S : h[s] = Iterate(g, s)
    OBVIOUS
  <2> HIDE DEF h, Iterate
  <2> QED BY <1>8, <2>1
<1>10. Adds(h, w, base, S)
  <2> HIDE DEF h
  <2> QED BY <1>9 DEF Adds
<1> HIDE DEF h
<1> QED BY <1>10
\* What it is for a set.
LEMMA AddsIs ==
  ASSUME NEW S, NEW w, NEW base, NEW g, Adds(g, w, base, S), NEW s \in SUBSET S
  PROVE  /\ s = {} => g[s] = base
         /\ s # {} => \E x \in s : g[s] = w[x] + g[s \ {x}]
<1>1. g[s] = IF s = {} THEN base ELSE LET x == CHOOSE x \in s : TRUE IN w[x] + g[s \ {x}]
  BY DEF Adds
<1>2. PICK x : x = CHOOSE y \in s : TRUE
  OBVIOUS
<1>3. s # {} => x \in s /\ g[s] = w[x] + g[s \ {x}]
  BY <1>1, <1>2
<1> QED BY <1>1, <1>3

\* The order of the elements does not matter.
LEMMA AddsAny ==
  ASSUME NEW S, IsFiniteSet(S), NEW w, \A x \in S : w[x] \in Nat, NEW g, Adds(g, w, 0, S)
  PROVE  \A s \in SUBSET S : g[s] \in Nat /\ \A x \in s : g[s] = w[x] + g[s \ {x}]
<1> DEFINE N == {s \in SUBSET S : g[s] \in Nat}
           G == {s \in SUBSET S : \A x \in s : g[s] = w[x] + g[s \ {x}]}
<1>1. \A s \in SUBSET S : s \in N
  <2>1. {} \in N
    BY AddsIs
  <2>2. ASSUME NEW s \in SUBSET S, s # {}, \A x \in s : s \ {x} \in N PROVE s \in N
    <3>1. PICK y \in s : g[s] = w[y] + g[s \ {y}]
      BY <2>2, AddsIs
    <3>2. g[s \ {y}] \in Nat /\ w[y] \in Nat
      BY <2>2
    <3> QED BY <3>1, <3>2
  <2> HIDE DEF N
  <2> QED BY <2>1, <2>2, SetInduction
<1>2. \A s \in SUBSET S : g[s] \in Nat
  BY <1>1
<1>3. {} \in G
  OBVIOUS
<1>4. ASSUME NEW s \in SUBSET S, s # {}, \A x \in s : s \ {x} \in G PROVE s \in G
  <2>1. PICK y \in s : g[s] = w[y] + g[s \ {y}]
    BY <1>4, AddsIs
  <2>2. ASSUME NEW x \in s, x # y PROVE g[s] = w[x] + g[s \ {x}]
    <3>1. PICK n : n = g[(s \ {x}) \ {y}]
      OBVIOUS
    <3>2. (s \ {y}) \ {x} = (s \ {x}) \ {y} /\ x \in s \ {y} /\ y \in s \ {x}
      BY <2>2
    <3>3. g[s \ {y}] = w[x] + n /\ g[s \ {x}] = w[y] + n
      BY <1>4, <3>1, <3>2
    <3>4. n \in Nat /\ w[x] \in Nat /\ w[y] \in Nat
      BY <1>2, <3>1
    <3> QED BY <2>1, <3>3, <3>4
  <2> QED BY <2>1, <2>2
<1>5. \A s \in SUBSET S : s \in G
  <2> HIDE DEF G
  <2> QED BY <1>3, <1>4, SetInduction
<1> QED BY <1>2, <1>5

\* Nor does the set of which a part is added up.
LEMMA AddsUnique ==
  ASSUME NEW S, IsFiniteSet(S), NEW w, \A x \in S : w[x] \in Nat, NEW T \in SUBSET S,
         NEW g, Adds(g, w, 0, S), NEW h, Adds(h, w, 0, T)
  PROVE  g[T] = h[T]
<1> DEFINE G == {s \in SUBSET T : g[s] = h[s]}
<1>1. {} \in G
  BY AddsIs
<1>2. ASSUME NEW s \in SUBSET T, s # {}, \A y \in s : s \ {y} \in G PROVE s \in G
  <2>1. PICK y \in s : h[s] = w[y] + h[s \ {y}]
    BY <1>2, AddsIs
  <2>2. g[s] = w[y] + g[s \ {y}]
    BY AddsAny
  <2> QED BY <1>2, <2>1, <2>2
<1>3. \A s \in SUBSET T : s \in G
  <2>1. IsFiniteSet(T)
    BY FS_Subset
  <2> HIDE DEF G
  <2> QED BY <1>1, <1>2, <2>1, SetInduction
<1> QED BY <1>3

\* The weights of a set, added up.
Total(w, S) == (CHOOSE g : Adds(g, w, 0, S))[S]

\* Without one of them they are that much less.
LEMMA TotalIs ==
  ASSUME NEW S, IsFiniteSet(S), NEW w, \A x \in S : w[x] \in Nat
  PROVE  /\ Total(w, S) \in Nat
         /\ S = {} => Total(w, S) = 0
         /\ \A x \in S : Total(w, S) = w[x] + Total(w, S \ {x})
<1>1. PICK g : g = CHOOSE f : Adds(f, w, 0, S)
  OBVIOUS
<1>2. Adds(g, w, 0, S) /\ Total(w, S) = g[S]
  BY <1>1, AddsExists DEF Total
<1>3. g[S] \in Nat /\ \A x \in S : g[S] = w[x] + g[S \ {x}]
  <2>1. \A s \in SUBSET S : g[s] \in Nat /\ \A x \in s : g[s] = w[x] + g[s \ {x}]
    BY <1>2, AddsAny
  <2>2. S \in SUBSET S
    OBVIOUS
  <2> QED BY <2>1, <2>2
<1>4. S = {} => g[S] = 0
  BY <1>2, AddsIs
<1>5. ASSUME NEW x \in S PROVE g[S \ {x}] = Total(w, S \ {x})
  <2> DEFINE T == S \ {x}
  <2>1. IsFiniteSet(T) /\ \A y \in T : w[y] \in Nat
    BY FS_RemoveElement
  <2>2. PICK h : h = CHOOSE f : Adds(f, w, 0, T)
    OBVIOUS
  <2>3. Adds(h, w, 0, T) /\ Total(w, T) = h[T]
    BY <2>1, <2>2, AddsExists DEF Total
  <2>7. g[T] = h[T]
    <3> HIDE DEF T
    <3>1. T \in SUBSET S
      BY DEF T
    <3> QED BY <1>2, <2>3, <3>1, AddsUnique
  <2> QED BY <2>3, <2>7
<1> QED BY <1>2, <1>3, <1>4, <1>5

\* Two disjoint sets add up.
LEMMA TotalUnion ==
  ASSUME NEW A, IsFiniteSet(A), NEW B, IsFiniteSet(B), A \cap B = {},
         NEW w, \A x \in A \cup B : w[x] \in Nat
  PROVE  Total(w, A \cup B) = Total(w, A) + Total(w, B)
<1> DEFINE G == {s \in SUBSET A : Total(w, s \cup B) = Total(w, s) + Total(w, B)}
<1>1. Total(w, B) \in Nat
  BY TotalIs
<1>2. {} \in G
  <2>1. Total(w, {}) = 0
    BY FS_EmptySet, TotalIs
  <2>2. {} \cup B = B
    OBVIOUS
  <2> QED BY <1>1, <2>1, <2>2
<1>3. ASSUME NEW s \in SUBSET A, s # {}, \A x \in s : s \ {x} \in G PROVE s \in G
  <2>1. PICK x \in s : TRUE
    BY <1>3
  <2>2. IsFiniteSet(s) /\ IsFiniteSet(s \cup B) /\ IsFiniteSet(s \ {x})
    BY FS_Subset, FS_Union, FS_RemoveElement
  <2>3. Total(w, s) = w[x] + Total(w, s \ {x}) /\ Total(w, s \ {x}) \in Nat /\ w[x] \in Nat
    BY <2>1, <2>2, TotalIs
  <2>4. Total(w, s \cup B) = w[x] + Total(w, (s \cup B) \ {x})
    BY <2>1, <2>2, TotalIs
  <2>5. (s \cup B) \ {x} = (s \ {x}) \cup B
    BY <2>1
  <2>6. Total(w, (s \ {x}) \cup B) = Total(w, s \ {x}) + Total(w, B)
    BY <1>3, <2>1
  <2>7. Total(w, s \cup B) = w[x] + (Total(w, s \ {x}) + Total(w, B))
    BY <2>4, <2>5, <2>6
  <2>8. Total(w, s \cup B) = Total(w, s) + Total(w, B)
    BY <1>1, <2>3, <2>7
  <2> QED BY <2>8
<1>4. \A s \in SUBSET A : s \in G
  <2> HIDE DEF G
  <2> QED BY <1>2, <1>3, SetInduction
<1> QED BY <1>4

\* A set may be added up group by group: v is the total of each group.
LEMMA TotalOfGroups ==
  ASSUME NEW A, IsFiniteSet(A), NEW w, \A a \in A : w[a] \in Nat,
         NEW R, IsFiniteSet(R), NEW group, \A a \in A : group[a] \in R,
         NEW part, \A r \in R : part[r] = {a \in A : group[a] = r},
         NEW v, \A r \in R : v[r] = Total(w, part[r])
  PROVE  Total(v, R) = Total(w, A)
<1> DEFINE Of(s) == {a \in A : group[a] \in s}
           G     == {s \in SUBSET R : Total(v, s) = Total(w, Of(s))}
<1>1. \A r \in R : v[r] \in Nat
  <2> TAKE r \in R
  <2>1. IsFiniteSet({a \in A : group[a] = r})
    BY FS_Subset
  <2> QED BY <2>1, TotalIs
<1>2. {} \in G
  <2>1. Of({}) = {}
    OBVIOUS
  <2>2. Total(v, {}) = 0 /\ Total(w, {}) = 0
    BY FS_EmptySet, TotalIs
  <2> QED BY <2>1, <2>2
<1>3. ASSUME NEW s \in SUBSET R, s # {}, \A x \in s : s \ {x} \in G PROVE s \in G
  <2>1. PICK r \in s : TRUE
    BY <1>3
  <2> DEFINE X == {a \in A : group[a] = r}
             Y == Of(s \ {r})
  <2>2. IsFiniteSet(s) /\ IsFiniteSet(X) /\ IsFiniteSet(Y)
    BY FS_Subset
  <2>3. Total(v, s) = v[r] + Total(v, s \ {r})
    BY <1>1, <2>1, <2>2, TotalIs
  <2>4. v[r] = Total(w, X)
    BY <2>1
  <2>5. Total(v, s \ {r}) = Total(w, Y)
    BY <1>3, <2>1
  <2>6. Of(s) = X \cup Y /\ X \cap Y = {} /\ \A x \in X \cup Y : w[x] \in Nat
    BY <2>1
  <2>7. Total(w, X \cup Y) = Total(w, X) + Total(w, Y)
    <3> HIDE DEF X, Y
    <3> QED BY <2>2, <2>6, TotalUnion
  <2>8. Total(v, s) = Total(w, Of(s))
    BY <2>3, <2>4, <2>5, <2>6, <2>7
  <2> QED BY <2>8
<1>4. \A s \in SUBSET R : s \in G
  <2> HIDE DEF G
  <2> QED BY <1>2, <1>3, SetInduction
<1>5. Of(R) = A
  OBVIOUS
<1> QED BY <1>4, <1>5

\* A cardinality is a total of ones.
LEMMA TotalOfOnes ==
  ASSUME NEW S, IsFiniteSet(S), NEW w, \A x \in S : w[x] = 1
  PROVE  Total(w, S) = Cardinality(S)
<1> DEFINE G == {s \in SUBSET S : Total(w, s) = Cardinality(s)}
<1>1. {} \in G
  BY FS_EmptySet, TotalIs
<1>2. ASSUME NEW s \in SUBSET S, s # {}, \A x \in s : s \ {x} \in G PROVE s \in G
  <2>1. PICK x \in s : TRUE
    BY <1>2
  <2>2. IsFiniteSet(s)
    BY FS_Subset
  <2>3. Total(w, s) = w[x] + Total(w, s \ {x}) /\ w[x] = 1
    BY <2>1, <2>2, TotalIs
  <2>4. Cardinality(s \ {x}) = Cardinality(s) - 1 /\ Cardinality(s) \in Nat
    BY <2>1, <2>2, FS_RemoveElement, FS_CardinalityType
  <2>5. Total(w, s \ {x}) = Cardinality(s \ {x})
    BY <1>2, <2>1
  <2> QED BY <2>3, <2>4, <2>5
<1>3. S \in G
  <2> HIDE DEF G
  <2> QED BY <1>1, <1>2, SetInduction
<1> QED BY <1>3


\* What PlaysIn adds up.
LEMMA PlaysInIs ==
  ASSUME NEW S, IsFiniteSet(S), NEW w, \A r \in S : w[r] = r.plays /\ w[r] \in Nat
  PROVE  PlaysIn(S) = Total(w, S)
<1> DEFINE Sums(g) == g = [s \in SUBSET S |-> IF s = {} THEN 0
                             ELSE LET x == CHOOSE x \in s : TRUE IN x.plays + g[s \ {x}]]
<1>1. \A g : Sums(g) <=> Adds(g, w, 0, S)
  <2> TAKE g
  <2>1. \A s \in SUBSET S :
          (IF s = {} THEN 0 ELSE LET x == CHOOSE x \in s : TRUE IN x.plays + g[s \ {x}])
            = IF s = {} THEN 0 ELSE LET x == CHOOSE x \in s : TRUE IN w[x] + g[s \ {x}]
    OBVIOUS
  <2> QED BY <2>1 DEF Adds
<1>2. PICK g : g = CHOOSE h : Sums(h)
  OBVIOUS
<1>3. PlaysIn(S) = g[S]
  BY <1>2 DEF PlaysIn, MapThenSumSet, MapThenFoldSet
<1>4. PICK h : h = CHOOSE f : Adds(f, w, 0, S)
  OBVIOUS
<1>5. Adds(g, w, 0, S) /\ Adds(h, w, 0, S)
  <2> HIDE DEF Sums
  <2> QED BY <1>1, <1>2, <1>4, AddsExists
<1>6. g[S] = h[S] /\ h[S] = Total(w, S)
  <2>1. S \in SUBSET S
    OBVIOUS
  <2> HIDE DEF Sums
  <2> QED BY <1>4, <1>5, <2>1, AddsUnique DEF Total
<1> QED BY <1>3, <1>6

\* What WatchIn adds up.
LEMMA WatchInIs ==
  ASSUME NEW S, IsFiniteSet(S), NEW w, \A r \in S : w[r] = r.watch /\ w[r] \in Nat
  PROVE  WatchIn(S) = Total(w, S)
<1> DEFINE Sums(g) == g = [s \in SUBSET S |-> IF s = {} THEN 0
                             ELSE LET x == CHOOSE x \in s : TRUE IN x.watch + g[s \ {x}]]
<1>1. \A g : Sums(g) <=> Adds(g, w, 0, S)
  <2> TAKE g
  <2>1. \A s \in SUBSET S :
          (IF s = {} THEN 0 ELSE LET x == CHOOSE x \in s : TRUE IN x.watch + g[s \ {x}])
            = IF s = {} THEN 0 ELSE LET x == CHOOSE x \in s : TRUE IN w[x] + g[s \ {x}]
    OBVIOUS
  <2> QED BY <2>1 DEF Adds
<1>2. PICK g : g = CHOOSE h : Sums(h)
  OBVIOUS
<1>3. WatchIn(S) = g[S]
  BY <1>2 DEF WatchIn, MapThenSumSet, MapThenFoldSet
<1>4. PICK h : h = CHOOSE f : Adds(f, w, 0, S)
  OBVIOUS
<1>5. Adds(g, w, 0, S) /\ Adds(h, w, 0, S)
  <2> HIDE DEF Sums
  <2> QED BY <1>1, <1>2, <1>4, AddsExists
<1>6. g[S] = h[S] /\ h[S] = Total(w, S)
  <2>1. S \in SUBSET S
    OBVIOUS
  <2> HIDE DEF Sums
  <2> QED BY <1>4, <1>5, <2>1, AddsUnique DEF Total
<1> QED BY <1>3, <1>6

\* What Watch adds up.
LEMMA WatchIs ==
  ASSUME NEW S, IsFiniteSet(S), NEW w, \A r \in S : w[r] = r.play.watch /\ w[r] \in Nat
  PROVE  Watch(S) = Total(w, S)
<1> DEFINE Sums(g) == g = [s \in SUBSET S |-> IF s = {} THEN 0
                             ELSE LET x == CHOOSE x \in s : TRUE IN x.play.watch + g[s \ {x}]]
<1>1. \A g : Sums(g) <=> Adds(g, w, 0, S)
  <2> TAKE g
  <2>1. \A s \in SUBSET S :
          (IF s = {} THEN 0 ELSE LET x == CHOOSE x \in s : TRUE IN x.play.watch + g[s \ {x}])
            = IF s = {} THEN 0 ELSE LET x == CHOOSE x \in s : TRUE IN w[x] + g[s \ {x}]
    OBVIOUS
  <2> QED BY <2>1 DEF Adds
<1>2. PICK g : g = CHOOSE h : Sums(h)
  OBVIOUS
<1>3. Watch(S) = g[S]
  BY <1>2 DEF Watch, MapThenSumSet, MapThenFoldSet
<1>4. PICK h : h = CHOOSE f : Adds(f, w, 0, S)
  OBVIOUS
<1>5. Adds(g, w, 0, S) /\ Adds(h, w, 0, S)
  <2> HIDE DEF Sums
  <2> QED BY <1>1, <1>2, <1>4, AddsExists
<1>6. g[S] = h[S] /\ h[S] = Total(w, S)
  <2>1. S \in SUBSET S
    OBVIOUS
  <2> HIDE DEF Sums
  <2> QED BY <1>4, <1>5, <2>1, AddsUnique DEF Total
<1> QED BY <1>3, <1>6

\* The sum of the longest watch times.
LEMMA LongestAddUp ==
  ASSUME NEW S, IsFiniteSet(S), NEW events, S = {e.session : e \in events},
         NEW w, \A r \in S : w[r] = LongestWatch(events, r) /\ w[r] \in Nat
  PROVE  LongestWatches(events) = Total(w, S)
<1> DEFINE Sums(g) == g = [s \in SUBSET S |-> IF s = {} THEN 0
                             ELSE LET x == CHOOSE x \in s : TRUE IN LongestWatch(events, x) + g[s \ {x}]]
<1>1. \A g : Sums(g) <=> Adds(g, w, 0, S)
  <2> TAKE g
  <2>1. \A s \in SUBSET S :
          (IF s = {} THEN 0 ELSE LET x == CHOOSE x \in s : TRUE IN LongestWatch(events, x) + g[s \ {x}])
            = IF s = {} THEN 0 ELSE LET x == CHOOSE x \in s : TRUE IN w[x] + g[s \ {x}]
    OBVIOUS
  <2> QED BY <2>1 DEF Adds
<1>2. PICK g : g = CHOOSE h : Sums(h)
  OBVIOUS
<1>3. LongestWatches(events) = g[S]
  BY <1>2 DEF LongestWatches, MapThenSumSet, MapThenFoldSet
<1>4. PICK h : h = CHOOSE f : Adds(f, w, 0, S)
  OBVIOUS
<1>5. Adds(g, w, 0, S) /\ Adds(h, w, 0, S)
  <2> HIDE DEF Sums
  <2> QED BY <1>1, <1>2, <1>4, AddsExists
<1>6. g[S] = h[S] /\ h[S] = Total(w, S)
  <2>1. S \in SUBSET S
    OBVIOUS
  <2> HIDE DEF Sums
  <2> QED BY <1>4, <1>5, <2>1, AddsUnique DEF Total
<1> QED BY <1>3, <1>6

\* If the rows of a rollup count groups of facts, they count all facts.
LEMMA RowsAddUp ==
  ASSUME NEW A, IsFiniteSet(A), \A a \in A : a.play.watch \in Nat,
         NEW R, NEW row \in [A -> R], \A r \in R : \E a \in A : row[a] = r,
         \A r \in R : r.plays = Cardinality({a \in A : row[a] = r}) /\ r.watch = Watch({a \in A : row[a] = r})
  PROVE  PlaysIn(R) = Cardinality(A) /\ WatchIn(R) = Watch(A)
<1> DEFINE Group(r) == {a \in A : row[a] = r}
           one    == [a \in A |-> 1]
           watch  == [a \in A |-> a.play.watch]
           plays  == [r \in R |-> r.plays]
           hours  == [r \in R |-> r.watch]
           part   == [r \in R |-> Group(r)]
<1>1. IsFiniteSet(R) /\ \A a \in A : row[a] \in R
  BY ImageIs
<1>2. \A r \in R : IsFiniteSet(Group(r))
  BY FS_Subset
<1>3. /\ \A a \in A : one[a] = 1 /\ one[a] \in Nat /\ watch[a] = a.play.watch /\ watch[a] \in Nat
      /\ \A r \in R : plays[r] = r.plays /\ hours[r] = r.watch
  OBVIOUS
<1> HIDE DEF one, watch, plays, hours
<1>4. \A r \in R : plays[r] = Total(one, Group(r))
  <2> TAKE r \in R
  <2>1. Total(one, Group(r)) = Cardinality(Group(r))
    <3>1. \A a \in Group(r) : one[a] = 1
      BY <1>3
    <3> HIDE DEF Group
    <3> QED BY <1>2, <3>1, TotalOfOnes
  <2> QED BY <1>3, <2>1
<1>5. \A r \in R : hours[r] = Total(watch, Group(r))
  <2> TAKE r \in R
  <2>1. Watch(Group(r)) = Total(watch, Group(r))
    <3>1. \A a \in Group(r) : watch[a] = a.play.watch /\ watch[a] \in Nat
      BY <1>3
    <3> HIDE DEF Group
    <3> QED BY <1>2, <3>1, WatchIs
  <2> QED BY <1>3, <2>1
<1>6. \A r \in R : plays[r] \in Nat /\ hours[r] \in Nat
  <2> TAKE r \in R
  <2>1. \A a \in Group(r) : one[a] \in Nat /\ watch[a] \in Nat
    BY <1>3
  <2> HIDE DEF Group
  <2> QED BY <1>2, <1>4, <1>5, <2>1, TotalIs
<1>7. Total(plays, R) = Total(one, A) /\ Total(hours, R) = Total(watch, A)
  <2>1. /\ \A a \in A : one[a] \in Nat
        /\ \A a \in A : watch[a] \in Nat
        /\ \A a \in A : row[a] \in R
        /\ \A r \in R : part[r] = {a \in A : row[a] = r}
        /\ \A r \in R : plays[r] = Total(one, part[r])
        /\ \A r \in R : hours[r] = Total(watch, part[r])
    BY <1>1, <1>3, <1>4, <1>5
  <2> HIDE DEF part
  <2>2. Total(plays, R) = Total(one, A)
    BY ONLY IsFiniteSet(A), <1>1, <2>1, TotalOfGroups
  <2>3. Total(hours, R) = Total(watch, A)
    BY ONLY IsFiniteSet(A), <1>1, <2>1, TotalOfGroups
  <2> QED BY <2>2, <2>3
<1>8. PlaysIn(R) = Total(plays, R) /\ WatchIn(R) = Total(hours, R)
  BY <1>1, <1>3, <1>6, PlaysInIs, WatchInIs
<1>9. Total(one, A) = Cardinality(A) /\ Total(watch, A) = Watch(A)
  BY <1>3, TotalOfOnes, WatchIs
<1> QED BY <1>7, <1>8, <1>9

\* Both rollups do.
LEMMA EngagementTotals ==
  ASSUME NEW F, IsFiniteSet(Resolved(F)), \A f \in Resolved(F) : f.play.watch \in Nat
  PROVE  PlaysIn(Engagement(F)) = Cardinality(Resolved(F)) /\ WatchIn(Engagement(F)) = Watch(Resolved(F))
<1> DEFINE A == Resolved(F)
           Group(g) == {f \in A : DayGrain(f) = g}
           Row(g)   == EngagementOf(g, Group(g))
           row      == [f \in A |-> Row(DayGrain(f))]
           R        == Engagement(F)
<1>1. R = {Row(g) : g \in {DayGrain(f) : f \in A}}
  BY DEF Engagement, EngagementOf, DayGrain
<1>2. \A g, group : /\ EngagementOf(g, group).user = g[1] /\ EngagementOf(g, group).content = g[2] /\ EngagementOf(g, group).day = g[3]
                    /\ EngagementOf(g, group).plays = Cardinality(group)
                    /\ EngagementOf(g, group).watch = Watch(group)
  BY DEF EngagementOf
<1>3. \A f, e \in A : DayGrain(f) = DayGrain(e) \/ Row(DayGrain(f)) # Row(DayGrain(e))
  BY <1>2 DEF DayGrain
<1>4. /\ \A f \in A : row[f] = Row(DayGrain(f)) /\ row[f] \in R
      /\ \A r \in R : \E f \in A : row[f] = r
      /\ row \in [A -> R]
  <2> HIDE DEF A, R, Row
  <2> QED BY <1>1
<1>5. \A r \in R : r.plays = Cardinality({a \in A : row[a] = r}) /\ r.watch = Watch({a \in A : row[a] = r})
  <2> TAKE r \in R
  <2>1. PICK f \in A : row[f] = r
    BY <1>4
  <2>2. {a \in A : row[a] = r} = Group(DayGrain(f))
    <3> HIDE DEF A, R, Row
    <3> QED BY <1>3, <1>4, <2>1
  <2>3. r = EngagementOf(DayGrain(f), Group(DayGrain(f)))
    BY <1>4, <2>1
  <2> HIDE DEF A, R, Row, row, Group
  <2> QED BY <1>2, <2>2, <2>3
<1> HIDE DEF R, row
<1>6. PlaysIn(R) = Cardinality(A) /\ WatchIn(R) = Watch(A)
  BY <1>4, <1>5, RowsAddUp
<1> QED BY <1>6 DEF R

\* The mart, too.
LEMMA TrendingTotals ==
  ASSUME NEW F, IsFiniteSet(Resolved(F)), \A f \in Resolved(F) : f.play.watch \in Nat
  PROVE  PlaysIn(Trending(F)) = Cardinality(Resolved(F)) /\ WatchIn(Trending(F)) = Watch(Resolved(F))
<1> DEFINE A == Resolved(F)
           Group(g) == {f \in A : HourGrain(f) = g}
           Row(g)   == TrendingOf(g, Group(g))
           row      == [f \in A |-> Row(HourGrain(f))]
           R        == Trending(F)
<1>1. R = {Row(g) : g \in {HourGrain(f) : f \in A}}
  BY DEF Trending, TrendingOf, HourGrain
<1>2. \A g, group : /\ TrendingOf(g, group).window = g[1] /\ TrendingOf(g, group).content = g[2]
                    /\ TrendingOf(g, group).plays = Cardinality(group)
                    /\ TrendingOf(g, group).watch = Watch(group)
  BY DEF TrendingOf
<1>3. \A f, e \in A : HourGrain(f) = HourGrain(e) \/ Row(HourGrain(f)) # Row(HourGrain(e))
  BY <1>2 DEF HourGrain
<1>4. /\ \A f \in A : row[f] = Row(HourGrain(f)) /\ row[f] \in R
      /\ \A r \in R : \E f \in A : row[f] = r
      /\ row \in [A -> R]
  <2> HIDE DEF A, R, Row
  <2> QED BY <1>1
<1>5. \A r \in R : r.plays = Cardinality({a \in A : row[a] = r}) /\ r.watch = Watch({a \in A : row[a] = r})
  <2> TAKE r \in R
  <2>1. PICK f \in A : row[f] = r
    BY <1>4
  <2>2. {a \in A : row[a] = r} = Group(HourGrain(f))
    <3> HIDE DEF A, R, Row
    <3> QED BY <1>3, <1>4, <2>1
  <2>3. r = TrendingOf(HourGrain(f), Group(HourGrain(f)))
    BY <1>4, <2>1
  <2> HIDE DEF A, R, Row, row, Group
  <2> QED BY <1>2, <2>2, <2>3
<1> HIDE DEF R, row
<1>6. PlaysIn(R) = Cardinality(A) /\ WatchIn(R) = Watch(A)
  BY <1>4, <1>5, RowsAddUp
<1> QED BY <1>6 DEF R


\* The sessions of events that agree: one for each session, with its longest watch time.
LEMMA SessionRows ==
  ASSUME NEW V, IsEvents(V), NEW content,
         \A a, b \in V : /\ a.schema = b.schema
                         /\ a.session = b.session => a.user = b.user /\ a.content = b.content
  PROVE  LET S == BuildSessions(Deduplicate(V), content)
         IN  /\ IsFiniteSet(S)
             /\ \A s \in S : \E e \in V : s.session = e.session /\ s.user = e.user /\ s.content = e.content
             /\ \A e \in V : \E s \in S : s.session = e.session /\ s.user = e.user /\ s.content = e.content
             /\ \A s, t \in S : s.session = t.session => s = t
             /\ \A s \in S : s.watch = LongestWatch(V, s.session) /\ s.watch \in Nat
<1> DEFINE D == Deduplicate(V)
           S == BuildSessions(D, content)
           Group(g) == {e \in D : SessionGrain(e) = g}
           Of(e) == SessionOf(Group(SessionGrain(e)), content)
<1>1. IsFiniteSet(V) /\ Copies(V) /\ \A e \in V : e \in Event /\ Numbered(e) /\ BusinessKey(e) = e.event
  BY UndoneEvent DEF IsEvents, IsSource, Event, Numbered
<1>2. /\ \A d \in D : d \in V
      /\ \A e \in V : \E d \in D : /\ d.session = e.session /\ d.user = e.user
                                   /\ d.content = e.content /\ d.watch = e.watch
  <2>1. /\ \A d \in D : d \in V
        /\ \A e \in V : \E d \in D : BusinessKey(d) = BusinessKey(e)
    BY <1>1, Deduplicated
  <2> HIDE DEF D
  <2>2. ASSUME NEW e \in V, NEW d \in V, BusinessKey(d) = BusinessKey(e)
        PROVE  d.session = e.session /\ d.user = e.user /\ d.content = e.content /\ d.watch = e.watch
    <3>1. Undone(d) = Undone(e)
      BY <1>1, <2>2, CopiesUndone
    <3> QED BY <1>1, <3>1, UndoneEvent
  <2> QED BY <2>1, <2>2
<1>3. S = {SessionOf(Group(g), content) : g \in {SessionGrain(e) : e \in D}}
  BY SessionsAre
<1> HIDE DEF D
<1>4. /\ \A e \in D : Of(e) \in S
      /\ \A s \in S : \E e \in D : s = Of(e)
  <2> HIDE DEF S, Group
  <2> QED BY <1>3
<1>5. ASSUME NEW e \in D
      PROVE  /\ Of(e).session = e.session /\ Of(e).user = e.user /\ Of(e).content = e.content
             /\ Of(e).watch = Max({x.watch : x \in Group(SessionGrain(e))})
  <2> DEFINE G == Group(SessionGrain(e))
  <2>1. PICK c : c = CHOOSE x \in G : TRUE
    OBVIOUS
  <2>2. c \in G
    BY <2>1
  <2>3. SessionGrain(c) = SessionGrain(e)
    BY <2>2
  <2>4. c.session = e.session /\ c.user = e.user /\ c.content = e.content
    BY <2>3 DEF SessionGrain
  <2> HIDE DEF G
  <2>5. /\ SessionOf(G, content).session = c.session /\ SessionOf(G, content).user = c.user
        /\ SessionOf(G, content).content = c.content
        /\ SessionOf(G, content).watch = Max({x.watch : x \in G})
    BY <2>1 DEF SessionOf
  <2> QED BY <2>4, <2>5 DEF G
<1>6. \A d, e \in D : d.session = e.session => SessionGrain(d) = SessionGrain(e)
  BY <1>2 DEF SessionGrain
<1>7. IsFiniteSet(S)
  <2>1. IsFiniteSet(D)
    BY <1>1, <1>2, FS_Subset
  <2> DEFINE f == [e \in D |-> Of(e)]
  <2>2. f \in [D -> S] /\ \A s \in S : \E e \in D : f[e] = s
    <3> HIDE DEF S, Of
    <3> QED BY <1>4
  <2> HIDE DEF f, S
  <2> QED BY <2>1, <2>2, ImageIs
<1> HIDE DEF S, Of
<1>8. ASSUME NEW s \in S PROVE \E e \in V : s.session = e.session /\ s.user = e.user /\ s.content = e.content
  <2>1. PICK e \in D : s = Of(e)
    BY <1>4
  <2> QED BY <1>2, <1>5, <2>1
<1>9. ASSUME NEW e \in V PROVE \E s \in S : s.session = e.session /\ s.user = e.user /\ s.content = e.content
  <2>1. PICK d \in D : d.session = e.session /\ d.user = e.user /\ d.content = e.content
    BY <1>2
  <2>2. Of(d) \in S /\ Of(d).session = d.session /\ Of(d).user = d.user /\ Of(d).content = d.content
    BY <1>4, <1>5
  <2> QED BY <2>1, <2>2
<1>10. ASSUME NEW s \in S, NEW t \in S, s.session = t.session PROVE s = t
  <2>1. PICK d \in D : s = Of(d)
    BY <1>4
  <2>2. PICK e \in D : t = Of(e)
    BY <1>4
  <2>3. SessionGrain(d) = SessionGrain(e)
    BY <1>5, <1>6, <1>10, <2>1, <2>2
  <2> QED BY <2>1, <2>2, <2>3 DEF Of
<1>11. ASSUME NEW s \in S PROVE s.watch = LongestWatch(V, s.session) /\ s.watch \in Nat
  <2>1. PICK d \in D : s = Of(d)
    BY <1>4
  <2> DEFINE G == Group(SessionGrain(d))
             W == {x.watch : x \in G}
             X == {e.watch : e \in {x \in V : x.session = s.session}}
  <2>2. s.session = d.session /\ s.watch = Max(W)
    BY <1>5, <2>1
  <2>3. \A x \in G : x \in V /\ x.session = d.session
    BY <1>2 DEF SessionGrain
  <2>4. ASSUME NEW e \in V, e.session = d.session PROVE e.watch \in W
    <3>1. PICK x \in D : x.session = e.session /\ x.watch = e.watch
      BY <1>2
    <3>2. x \in G
      BY <1>6, <2>4, <3>1
    <3> QED BY <3>1, <3>2
  <2>5. W = X
    <3>1. \A y \in W : y \in X
      BY <2>2, <2>3
    <3>2. \A y \in X : y \in W
      BY <2>2, <2>4
    <3> QED BY <3>1, <3>2
  <2>6. IsFiniteSet(W) /\ W # {} /\ \A y \in W : y \in Nat
    <3>1. d \in G
      OBVIOUS
    <3>2. \A x \in G : x.watch \in Nat
      BY <1>1, <2>3 DEF Event
    <3>3. IsFiniteSet(G)
      BY <1>1, <2>3, FS_Subset
    <3> DEFINE f == [x \in G |-> x.watch]
    <3>4. f \in [G -> W] /\ \A y \in W : \E x \in G : f[x] = y
      OBVIOUS
    <3>5. IsFiniteSet(W)
      <4> HIDE DEF f, W, G
      <4> QED BY <3>3, <3>4, ImageIs
    <3> QED BY <3>1, <3>2, <3>5
  <2>7. Max(W) \in Nat
    <3> HIDE DEF W
    <3> QED BY <2>6, MaxIs
  <2> QED BY <2>2, <2>5, <2>7 DEF LongestWatch
<1> QED BY <1>7, <1>8, <1>9, <1>10, <1>11 DEF S, D

\* A fact carries a session.
LEMMA FactCarriesSession ==
  ASSUME Landed
  PROVE  \A f \in Gold(Silver(bronze)).facts : f.play \in Silver(bronze).sessions
  BY PlayOfFact DEF Gold

\* Each rollup counts each session of a user and a content Bronze knows once, with the
\* longest watch time that was reported of it, however the rows are grouped and
\* whatever is not ingested yet.
THEOREM RollupsAddUp == SessionsAreDrawn => (Spec => []RollupsKeepTotals)
<1> SUFFICES ASSUME SessionsAreDrawn PROVE Spec => []RollupsKeepTotals
  OBVIOUS
<1>1. Landed => RollupsKeepTotals
  <2> SUFFICES ASSUME Landed PROVE RollupsKeepTotals
    OBVIOUS
  <2> DEFINE valid == Valid(bronze.events)
             Known(u, c) == /\ \E r \in bronze.users : r.key = u
                            /\ \E r \in Valid(bronze.content) : r.key = c
             known    == {e \in valid : Known(e.user, e.content)}
             sessions == {e.session : e \in known}
             S == Silver(bronze).sessions
             F == Gold(Silver(bronze)).facts
             R == Resolved(F)
  <2>1. IsEvents(valid) /\ \A a, b \in valid :
          /\ a.schema = b.schema
          /\ a.session = b.session => a.user = b.user /\ a.content = b.content
    <3>1. valid \subseteq Valid(landing.events) /\ landing \in Landings
      BY DEF Landed, Valid
    <3>2. IsEvents(valid)
      BY BronzeIsSource, SourceSubset DEF IsEvents, Valid
    <3> QED BY <3>1, <3>2 DEF SessionsAreDrawn
  <2>2. S = BuildSessions(Deduplicate(valid), StageContent(bronze.content))
    BY DEF Silver, StageEvents
  <2> HIDE DEF valid
  <2>3. /\ IsFiniteSet(S)
        /\ \A s \in S : \E e \in valid : s.session = e.session /\ s.user = e.user /\ s.content = e.content
        /\ \A e \in valid : \E s \in S : s.session = e.session /\ s.user = e.user /\ s.content = e.content
        /\ \A s, t \in S : s.session = t.session => s = t
        /\ \A s \in S : s.watch = LongestWatch(valid, s.session) /\ s.watch \in Nat
    BY <2>1, <2>2, SessionRows
  <2>4. \A s \in S : \E f : /\ \A x : x = f <=> x.play = s /\ x \in F
                            /\ f.userSk # NoKey /\ f.contentSk # NoKey <=> Known(s.user, s.content)
    <3> TAKE s \in S
    <3>1. PICK f : IsFactOf(f, s)
      BY FactOfSession DEF S
    <3> WITNESS f
    <3> QED BY <3>1 DEF IsFactOf
  <2>5. \A f \in F : f.play \in S
    BY FactCarriesSession
  <2> HIDE DEF S, F, Known
  <2>6. ASSUME NEW f \in R
        PROVE  /\ f.play \in S /\ f.play.watch \in Nat
               /\ f.play.session \in sessions
               /\ f.play.watch = LongestWatch(known, f.play.session)
    <3>1. f \in F /\ f.userSk # NoKey /\ f.contentSk # NoKey
      BY DEF Resolved
    <3>2. f.play \in S /\ Known(f.play.user, f.play.content)
      BY <2>4, <2>5, <3>1
    <3>3. PICK e \in valid : /\ f.play.session = e.session /\ f.play.user = e.user
                             /\ f.play.content = e.content
      BY <2>3, <3>2
    <3>4. e \in known
      BY <3>2, <3>3
    <3>5. \A x \in valid : x.session = f.play.session => x \in known
      BY <2>1, <3>2, <3>3
    <3>6. {x \in known : x.session = f.play.session} = {x \in valid : x.session = f.play.session}
      BY <3>5
    <3>7. LongestWatch(known, f.play.session) = LongestWatch(valid, f.play.session)
      BY <3>6 DEF LongestWatch
    <3> QED BY <2>3, <3>2, <3>3, <3>4, <3>7
  <2>7. ASSUME NEW n \in sessions PROVE \E f \in R : f.play.session = n
    <3>1. PICK e \in known : n = e.session
      OBVIOUS
    <3>2. e \in valid /\ Known(e.user, e.content)
      BY <3>1
    <3>3. PICK s \in S : s.session = e.session /\ s.user = e.user /\ s.content = e.content
      BY <2>3, <3>2
    <3>4. PICK f : /\ f.play = s /\ f \in F
                   /\ f.userSk # NoKey /\ f.contentSk # NoKey <=> Known(s.user, s.content)
      BY <2>4
    <3> QED BY <3>1, <3>2, <3>3, <3>4 DEF Resolved
  <2>8. ASSUME NEW f \in R, NEW g \in R, f.play.session = g.play.session PROVE f = g
    <3>1. f.play = g.play /\ f.play \in S /\ f \in F /\ g \in F
      BY <2>3, <2>6, <2>8 DEF Resolved
    <3> QED BY <2>4, <3>1
  <2> HIDE DEF known, sessions, R
  <2>9. IsFiniteSet(R)
    <3> DEFINE p == [f \in R |-> f.play]
    <3>1. p \in Injection(R, S)
      BY <2>6, <2>8 DEF Injection, IsInjective
    <3> QED BY <2>3, <3>1, FS_Injection
  <2>10. IsFiniteSet(sessions) /\ Cardinality(sessions) = Cardinality(R)
    <3> DEFINE p == [f \in R |-> f.play.session]
    <3>1. /\ p \in [R -> sessions] /\ \A n \in sessions : \E f \in R : p[f] = n
          /\ \A f, g \in R : p[f] = p[g] => f = g
      BY <2>6, <2>7, <2>8
    <3> HIDE DEF p
    <3> QED BY <2>9, <3>1, ImageIs
  <2>11. Watch(R) = LongestWatches(known)
    <3> DEFINE w    == [f \in R |-> f.play.watch]
               v    == [n \in sessions |-> LongestWatch(known, n)]
               p    == [f \in R |-> f.play.session]
               part == [n \in sessions |-> {f \in R : p[f] = n}]
    <3>1. /\ \A f \in R : w[f] = f.play.watch /\ w[f] \in Nat /\ p[f] \in sessions /\ w[f] = v[p[f]]
          /\ \A n \in sessions : part[n] = {f \in R : p[f] = n} /\ v[n] = LongestWatch(known, n)
      BY <2>6
    <3>2. \A n \in sessions : \E f \in R : part[n] = {f} /\ p[f] = n
      BY <2>7, <2>8
    <3> HIDE DEF w, v, p, part
    <3>3. \A f \in R : Total(w, {f}) = w[f]
      <4> TAKE f \in R
      <4>1. IsFiniteSet({f}) /\ IsFiniteSet({}) /\ {f} \ {f} = {}
        BY FS_Singleton, FS_EmptySet
      <4>2. Total(w, {f}) = w[f] + Total(w, {}) /\ Total(w, {}) = 0
        <5>1. \A x \in {f} : w[x] \in Nat
          BY <3>1
        <5>2. Total(w, {f}) = w[f] + Total(w, {f} \ {f})
          BY <4>1, <5>1, TotalIs
        <5>3. Total(w, {}) = 0
          BY <4>1, TotalIs
        <5> QED BY <4>1, <5>2, <5>3
      <4> QED BY <3>1, <4>2
    <3>4. ASSUME NEW n \in sessions PROVE v[n] = Total(w, part[n]) /\ v[n] \in Nat
      <4>1. PICK f \in R : part[n] = {f} /\ p[f] = n
        BY <3>2
      <4>2. Total(w, part[n]) = w[f]
        BY <3>3, <4>1
      <4> QED BY <3>1, <4>1, <4>2
    <3>5. Total(v, sessions) = Total(w, R)
      BY <2>9, <2>10, <3>1, <3>4, TotalOfGroups
    <3>6. Watch(R) = Total(w, R)
      BY <2>9, <3>1, WatchIs
    <3>8. \A n \in sessions : v[n] = LongestWatch(known, n) /\ v[n] \in Nat
      BY <3>1, <3>4
    <3>7. LongestWatches(known) = Total(v, sessions)
      BY <2>10, <3>8, LongestAddUp DEF sessions
    <3> QED BY <3>5, <3>6, <3>7
  <2>12. \A f \in R : f.play.watch \in Nat
    BY <2>6
  <2>13. /\ PlaysIn(Engagement(F)) = Cardinality(sessions) /\ PlaysIn(Trending(F)) = Cardinality(sessions)
         /\ WatchIn(Engagement(F)) = Watch(R) /\ WatchIn(Trending(F)) = Watch(R)
    <3>1. IsFiniteSet(Resolved(F)) /\ \A f \in Resolved(F) : f.play.watch \in Nat
      BY <2>9, <2>12 DEF R
    <3> QED BY <2>10, <3>1, EngagementTotals, TrendingTotals DEF R
  <2>14. /\ Gold(Silver(bronze)).engagement = Engagement(F)
         /\ Gold(Silver(bronze)).trending = Trending(F)
    BY DEF Gold, F
  <2>15. known = PlaysOfKnown(bronze) /\ sessions = {e.session : e \in known}
    BY DEF known, valid, Known, sessions, PlaysOfKnown
  <2>16. ASSUME NEW rollup, rollup = Gold(Silver(bronze)).engagement \/ rollup = Gold(Silver(bronze)).trending
         PROVE  PlaysIn(rollup) = Cardinality(sessions) /\ WatchIn(rollup) = LongestWatches(known)
    BY <2>11, <2>13, <2>14, <2>16
  <2>17. /\ Cardinality(sessions) = Cardinality({e.session : e \in PlaysOfKnown(bronze)})
         /\ LongestWatches(known) = LongestWatches(PlaysOfKnown(bronze))
    BY <2>15
  <2> HIDE DEF known, sessions
  <2> QED BY <2>16, <2>17 DEF RollupsKeepTotals
<1> QED BY <1>1, BronzeIsLanded, PTL

-----------------------------------------------------------------------------
(* Recurring deliveries *)

SnapshotTables == {"users", "subscriptions", "content"}

\* The rows of the deliveries of a bucket, and when the entity changed.
LEMMA DeliveryRows ==
  ASSUME NEW l, NEW p, NEW w, IsRecurring(l, p, w), NEW d \in DOMAIN l.deliveries
  PROVE  LET s == l.deliveries[d]
         IN  /\ d \in DOMAIN p /\ s.at = p[d].at
             /\ \A table \in SnapshotTables :
                  /\ s[table].key = 1 /\ s[table].valid /\ s[table].schema = p[d].schema
                  /\ s[table].at = UpdatedAt(p, w, table, d)
             /\ s.users.state = UserState(p, w, d)
             /\ s.subscriptions.state = Tier(p, w, d)
             /\ s.content.state = ContentState(p, w, d)
<1>1. l.deliveries = RecurringObjects(p, w)
  BY DEF IsRecurring
<1>2. d \in DOMAIN p /\ l.deliveries[d] = Snapshot(p, w, d)
  BY <1>1 DEF RecurringObjects
<1>3. /\ Snapshot(p, w, d).at = p[d].at
      /\ Snapshot(p, w, d).users.state = UserState(p, w, d)
      /\ Snapshot(p, w, d).subscriptions.state = Tier(p, w, d)
      /\ Snapshot(p, w, d).content.state = ContentState(p, w, d)
  BY DEF Snapshot
<1>4. ASSUME NEW table \in SnapshotTables
      PROVE  LET row == Snapshot(p, w, d)[table]
             IN  /\ row.key = 1 /\ row.valid /\ row.schema = p[d].schema
                 /\ row.at = UpdatedAt(p, w, table, d)
  <2>1. CASE table = "users"
    BY <2>1 DEF Snapshot
  <2>2. CASE table = "subscriptions"
    BY <2>2 DEF Snapshot
  <2>3. CASE table = "content"
    BY <2>3 DEF Snapshot
  <2> QED BY <2>1, <2>2, <2>3 DEF SnapshotTables
<1> QED BY <1>2, <1>3, <1>4

\* A row has the time of its delivery if the entity changed in it, which is not the
\* first one then, and the time of the first delivery if not.
LEMMA DeliveryTimes ==
  ASSUME NEW l, NEW p, NEW w, IsRecurring(l, p, w), NEW table, NEW d \in DOMAIN p
  PROVE  /\ FirstTimestamp(p) \in Nat /\ p[d].at \in Nat /\ FirstTimestamp(p) <= p[d].at
         /\ Changed(p, w, table, d) => /\ p[d].schema = Introduced /\ FirstTimestamp(p) < p[d].at
                                       /\ UpdatedAt(p, w, table, d) = p[d].at
         /\ ~Changed(p, w, table, d) => UpdatedAt(p, w, table, d) = FirstTimestamp(p)
<1> DEFINE T == {p[x].at : x \in DOMAIN p}
           f == [x \in DOMAIN p |-> p[x].at]
<1>1. /\ IsFiniteSet(DOMAIN p) /\ \A x \in DOMAIN p : x \in Nat
      /\ \A x \in DOMAIN p : p[x].at \in Nat /\ p[x].schema \in {1, Introduced}
  BY LandingsAssumption DEF IsRecurring
<1>2. /\ 1 \in Schemas(p)
      /\ \A x, y \in DOMAIN p : x < y => p[x].at < p[y].at /\ p[x].schema <= p[y].schema
  BY DEF IsRecurring, IsConfiguration
<1>3. IsFiniteSet(T) /\ p[d].at \in T /\ \A y \in T : y \in Nat
  <2>1. f \in [DOMAIN p -> T] /\ \A y \in T : \E x \in DOMAIN p : f[x] = y
    OBVIOUS
  <2>2. IsFiniteSet(T)
    <3> HIDE DEF f, T
    <3> QED BY <1>1, <2>1, ImageIs
  <2> QED BY <1>1, <2>2
<1>4. FirstTimestamp(p) \in T /\ \A y \in T : FirstTimestamp(p) <= y
  <2>1. FirstTimestamp(p) = Min(T)
    BY DEF FirstTimestamp
  <2> HIDE DEF T
  <2> QED BY <1>3, <2>1, MinIs
<1>5. PICK e \in DOMAIN p : p[e].schema = 1
  BY <1>2 DEF Schemas
<1>6. Introduced \in Nat /\ Introduced >= 2
  BY IntroducedAssumption
<1>7. ASSUME Changed(p, w, table, d), p[d].at = FirstTimestamp(p) PROVE FALSE
  <2>1. p[d].schema = Introduced
    BY <1>1, <1>7 DEF Changed
  <2>2. p[d].at <= p[e].at
    BY <1>4, <1>7
  <2>3. d < e \/ e < d \/ d = e
    BY <1>1
  <2>4. ~(e < d)
    <3>1. p[e].at \in Nat /\ p[d].at \in Nat
      BY <1>1
    <3> QED BY <1>2, <2>2, <3>1
  <2>5. ~(d < e)
    <3>1. d < e => p[d].schema <= p[e].schema
      BY <1>2
    <3> QED BY <1>5, <1>6, <2>1, <3>1
  <2> QED BY <1>5, <1>6, <2>1, <2>3, <2>4, <2>5
<1>8. /\ FirstTimestamp(p) \in Nat /\ p[d].at \in Nat /\ FirstTimestamp(p) <= p[d].at
  BY <1>1, <1>3, <1>4
<1>9. Changed(p, w, table, d) => p[d].schema = Introduced /\ FirstTimestamp(p) < p[d].at
  <2>1. Changed(p, w, table, d) => p[d].schema = Introduced
    BY <1>1 DEF Changed
  <2> QED BY <1>7, <1>8, <2>1
<1> QED BY <1>8, <1>9 DEF UpdatedAt

\* A row that is at least as new as that of d and known by then has changed like it.
LEMMA ChangedAlike ==
  ASSUME NEW l, NEW p, NEW w, IsRecurring(l, p, w), NEW table, NEW d \in DOMAIN p, NEW e \in DOMAIN p,
         UpdatedAt(p, w, table, d) <= UpdatedAt(p, w, table, e),
         UpdatedAt(p, w, table, e) <= p[d].at \/ e <= d
  PROVE  Changed(p, w, table, e) = Changed(p, w, table, d)
<1>1. /\ d \in Nat /\ e \in Nat
      /\ e < d => p[e].at < p[d].at /\ p[e].schema <= p[d].schema
      /\ d < e => p[d].at < p[e].at
      /\ p[d].schema \in {1, Introduced} /\ Introduced \in Nat /\ Introduced >= 2
  BY IntroducedAssumption DEF IsRecurring, IsConfiguration
<1>2. /\ FirstTimestamp(p) \in Nat /\ p[d].at \in Nat /\ p[e].at \in Nat
      /\ Changed(p, w, table, d) => /\ p[d].schema = Introduced /\ FirstTimestamp(p) < p[d].at
                                    /\ UpdatedAt(p, w, table, d) = p[d].at
      /\ Changed(p, w, table, e) => /\ p[e].schema = Introduced
                                    /\ UpdatedAt(p, w, table, e) = p[e].at
      /\ ~Changed(p, w, table, e) => UpdatedAt(p, w, table, e) = FirstTimestamp(p)
  BY DeliveryTimes
<1>3. ASSUME Changed(p, w, table, d), ~Changed(p, w, table, e) PROVE FALSE
  BY <1>2, <1>3
<1>4. ASSUME ~Changed(p, w, table, d), Changed(p, w, table, e) PROVE FALSE
  <2>1. e <= d
    <3>1. CASE UpdatedAt(p, w, table, e) <= p[d].at
      <4>1. p[e].at <= p[d].at
        BY <1>2, <1>4, <3>1
      <4>2. ~(d < e)
        BY <1>1, <1>2, <4>1
      <4> QED BY <1>1, <4>2
    <3> QED BY <3>1
  <2>2. p[e].schema <= p[d].schema /\ p[e].schema = Introduced
    BY <1>1, <1>2, <1>4, <2>1
  <2>3. p[d].schema = p[e].schema
    BY <1>1, <2>2
  <2> QED BY <1>4, <2>3 DEF Changed
<1>5. Changed(p, w, table, d) \in BOOLEAN /\ Changed(p, w, table, e) \in BOOLEAN
  BY DEF Changed
<1> QED BY <1>3, <1>4, <1>5


\* A state that depends on the change alone.
OfChange(p, w, table, State) ==
  \A d, e \in DOMAIN p :
    Changed(p, w, table, e) = Changed(p, w, table, d) => State[e] = State[d]

\* At the time of a delivery a source says what the delivery says, whichever of the
\* other deliveries are ingested.
LEMMA SaidOfDelivery ==
  ASSUME NEW l, NEW p, NEW w, IsRecurring(l, p, w), NEW table \in SnapshotTables,
         NEW State, \A d \in DOMAIN l.deliveries : l.deliveries[d][table].state = State[d],
         OfChange(p, w, table, State),
         NEW rows \in SUBSET l[table], IsVersions(rows),
         NEW d \in DOMAIN l.deliveries, l.deliveries[d][table] \in rows
  PROVE  Said(rows, 1, l.deliveries[d].at) = {State[d]}
<1> DEFINE row   == l.deliveries[d][table]
           t     == l.deliveries[d].at
           known == {r \in rows : r.key = 1 /\ r.at <= t}
           best  == {r \in known : \A o \in known \ {r} :
                       o.at < r.at \/ (o.at = r.at /\ ~Supersedes(o, r))}
<1>1. /\ d \in DOMAIN p /\ t = p[d].at /\ row.key = 1 /\ row.at = UpdatedAt(p, w, table, d)
      /\ t \in 0 .. LastTime
  <2>1. d \in DOMAIN p /\ t = p[d].at /\ row.key = 1 /\ row.at = UpdatedAt(p, w, table, d)
    BY DeliveryRows
  <2> QED BY <2>1 DEF IsRecurring
<1>2. row.at <= t
  BY <1>1, DeliveryTimes
<1>3. row \in known
  BY <1>1, <1>2
<1>4. Said(rows, 1, t) = {r.state : r \in best}
  BY DEF Said
<1>5. \A r \in rows : r.at \in Nat /\ r.at \in 0 .. LastTime
  BY VersionRows, LandingsAssumption
<1>6. ASSUME NEW r \in best PROVE r.state = State[d]
  <2>1. r \in rows /\ r.at <= t /\ (row = r \/ row.at <= r.at)
    BY <1>3, <1>5
  <2>2. l[table] = {l.deliveries[e][table] : e \in DOMAIN p} /\ DOMAIN l.deliveries = DOMAIN p
    BY DEF IsRecurring, SnapshotTables, RecurringObjects
  <2>3. PICK e \in DOMAIN p : r = l.deliveries[e][table]
    BY <2>1, <2>2
  <2>4. r.at = UpdatedAt(p, w, table, e) /\ r.state = State[e]
    BY <2>2, <2>3, DeliveryRows
  <2>5. UpdatedAt(p, w, table, d) <= UpdatedAt(p, w, table, e)
    BY <1>1, <1>5, <2>1, <2>4
  <2>6. UpdatedAt(p, w, table, e) <= p[d].at
    BY <1>1, <2>1, <2>4
  <2>7. Changed(p, w, table, e) = Changed(p, w, table, d)
    BY <1>1, <2>3, <2>5, <2>6, ChangedAlike
  <2> QED BY <1>1, <2>3, <2>4, <2>7 DEF OfChange
<1>7. \E r \in best : TRUE
  <2>1. Said(rows, 1, t) = IF AsOf(Deduplicate(rows), 1, t) = {} THEN {}
                           ELSE {Latest(AsOf(Deduplicate(rows), 1, t)).state}
    <3>1. IsVersions(rows) /\ t \in 0 .. LastTime
      BY <1>1
    <3> HIDE DEF t
    <3> QED BY <3>1, SaidIs
  <2>2. \E x \in Deduplicate(rows) : x.key = row.key /\ x.at = row.at
    BY DeduplicateStages
  <2>3. AsOf(Deduplicate(rows), 1, t) # {}
    BY <1>1, <1>2, <2>2 DEF AsOf
  <2> HIDE DEF best
  <2> QED BY <1>4, <2>1, <2>3
<1> HIDE DEF best
<1> QED BY <1>4, <1>6, <1>7

\* The latest content of Silver is that of the newest delivery Bronze has.
LEMMA LatestOfDeliveries ==
  ASSUME NEW l, NEW p, NEW w, IsRecurring(l, p, w),
         NEW rows \in SUBSET l.content, IsVersions(rows),
         NEW m \in DOMAIN l.deliveries, l.deliveries[m].content \in rows,
         \A e \in DOMAIN l.deliveries : l.deliveries[e].content \in rows => e <= m
  PROVE  /\ AsOf(Deduplicate(rows), 1, LastTime) # {}
         /\ Latest(AsOf(Deduplicate(rows), 1, LastTime)).state = l.deliveries[m].content.state
<1> DEFINE D   == Deduplicate(rows)
           A   == AsOf(D, 1, LastTime)
           row == l.deliveries[m].content
           z   == Latest(A)
<1>1. /\ IsFiniteSet(rows)
      /\ \A r \in rows : /\ Numbered(r) /\ r.at \in 0 .. LastTime /\ r.at \in Nat
                         /\ BusinessKey(r) = <<r.key, r.at>> /\ r.at <= LastTime
  BY VersionRows, LandingsAssumption
<1>2. /\ \A x \in D : x \in rows
      /\ \A x \in D : \A o \in rows : BusinessKey(o) = BusinessKey(x) /\ o # x => ~Supersedes(o, x)
      /\ \A r \in rows : \E x \in D : BusinessKey(x) = BusinessKey(r)
  BY <1>1, Deduplicated
<1>3. m \in DOMAIN p /\ row \in rows /\ row.key = 1 /\ row.at = UpdatedAt(p, w, "content", m)
      /\ row.schema = p[m].schema /\ row.state = ContentState(p, w, m)
  BY DeliveryRows DEF SnapshotTables
<1> HIDE DEF D
<1>4. PICK x \in D : x.key = 1 /\ x.at = row.at
  BY <1>1, <1>2, <1>3
<1>5. x \in A
  BY <1>1, <1>2, <1>4 DEF AsOf
<1>6. z \in A /\ \A o \in A : o.at <= z.at
  <2>1. \A v \in A : v.at \in 0 .. LastTime
    BY <1>1, <1>2 DEF AsOf
  <2> QED BY <1>5, <2>1, LatestIs
<1> HIDE DEF z
<1>7. z \in D /\ z \in rows /\ z.key = 1 /\ row.at <= z.at
  BY <1>2, <1>4, <1>5, <1>6 DEF AsOf
<1>8. l.content = {l.deliveries[e].content : e \in DOMAIN p} /\ DOMAIN l.deliveries = DOMAIN p
  BY DEF IsRecurring, RecurringObjects
<1>9. PICK e \in DOMAIN p : z = l.deliveries[e].content
  BY <1>7, <1>8
<1>10. /\ z.at = UpdatedAt(p, w, "content", e) /\ z.schema = p[e].schema
       /\ z.state = ContentState(p, w, e)
  BY <1>8, <1>9, DeliveryRows DEF SnapshotTables
<1>11. e <= m
  BY <1>7, <1>8, <1>9
<1>12. Changed(p, w, "content", e) = Changed(p, w, "content", m)
  BY <1>3, <1>7, <1>10, <1>11, ChangedAlike
<1>13. p[e].schema = p[m].schema
  <2>1. p[e].schema \in {1, Introduced} /\ p[m].schema \in {1, Introduced}
        /\ Introduced \in Nat /\ Introduced >= 2 /\ e \in Nat /\ m \in Nat
        /\ (e < m => p[e].schema <= p[m].schema)
    BY <1>3, IntroducedAssumption DEF IsRecurring, IsConfiguration
  <2>2. CASE Changed(p, w, "content", m)
    BY <1>3, <1>12, <2>2, DeliveryTimes
  <2>3. CASE ~Changed(p, w, "content", m)
    <3>1. z.at = row.at
      BY <1>3, <1>10, <1>12, <2>3, DeliveryTimes
    <3>2. z = row \/ ~Supersedes(row, z)
      BY <1>1, <1>2, <1>3, <1>7, <3>1
    <3>3. z.schema = row.schema \/ ~(row.schema > z.schema)
      BY <3>2 DEF Supersedes
    <3> QED BY <1>3, <1>10, <1>11, <2>1, <3>3
  <2> QED BY <2>2, <2>3
<1>14. ContentState(p, w, e) = ContentState(p, w, m)
  <2>1. Available(p, w, e) = Available(p, w, m)
    BY <1>12 DEF Available
  <2>2. CriticScore(p, w, e) = CriticScore(p, w, m)
    BY <1>13 DEF CriticScore
  <2> QED BY <2>1, <2>2 DEF ContentState
<1> QED BY <1>3, <1>5, <1>10, <1>14 DEF D, z


\* The current versions of a dimension are those valid at the last time.
LEMMA CurrentVersions ==
  ASSUME NEW H, IsHistory(H), NEW plays, \A p \in plays : p.at \in 0 .. LastTime,
         NEW k, \A v \in H : v.key = k
  PROVE  {v \in Dimension(H, plays) : v.to = EndOfTime} = ValidAt(Dimension(H, plays), k, LastTime)
<1> DEFINE D == Dimension(H, plays)
<1>1. PICK Row \in [H -> D] :
           /\ D = {Row[v] : v \in H}
           /\ \A v \in H :
                /\ Row[v].key = v.key /\ Row[v].from \in Nat /\ Row[v].from <= v.at
                /\ Row[v].to = EndOfTime \/ \E o \in H : Row[v].to = o.at
  BY DimensionRows
<1>2. /\ \A v \in H : v.at \in Nat /\ v.at <= LastTime
      /\ LastTime \in Nat /\ EndOfTime \in Nat /\ LastTime < EndOfTime
  BY LandingsAssumption, ClockAssumption DEF IsHistory
<1> HIDE DEF D
<1>3. ASSUME NEW x \in D
      PROVE  x.key = k /\ x.from <= LastTime /\ (x.to = EndOfTime <=> LastTime < x.to)
  <2>1. PICK v \in H : x = Row[v]
    BY <1>1
  <2>2. x.key = k /\ x.from <= LastTime
    BY <1>1, <1>2, <2>1
  <2>3. CASE x.to = EndOfTime
    BY <1>2, <2>2, <2>3
  <2>4. CASE \E o \in H : x.to = o.at
    <3>1. x.to \in Nat /\ x.to <= LastTime
      BY <1>2, <2>4
    <3> QED BY <1>2, <2>2, <3>1
  <2> QED BY <1>1, <2>1, <2>3, <2>4
<1>4. {v \in D : v.to = EndOfTime} = ValidAt(D, k, LastTime)
  BY <1>3 DEF ValidAt
<1> QED BY <1>4 DEF D

\* The latest entry of the timeline of the content is made of its latest row.
LEMMA LatestOfTimeline ==
  ASSUME NEW content, IsStaged(content), NEW k, NEW t \in 0 .. LastTime, AsOf(content, k, t) # {}
  PROVE  /\ AsOf(ContentTimeline(content), k, t) # {}
         /\ Latest(AsOf(ContentTimeline(content), k, t)).state = <<Latest(AsOf(content, k, t)).state>>
<1> DEFINE T == ContentTimeline(content)
           Entry(v) == [key |-> v.key, at |-> v.at, state |-> <<v.state>>, created |-> v.ingested]
           x == Latest(AsOf(content, k, t))
           y == Latest(AsOf(T, k, t))
<1>1. T = {Entry(v) : v \in content}
  BY DEF ContentTimeline
<1>2. \A v \in content : Entry(v).key = v.key /\ Entry(v).at = v.at /\ Entry(v).state = <<v.state>>
  OBVIOUS
<1> HIDE DEF Entry
<1>3. (\A v \in content : Entry(v) \in T) /\ \A r \in T : \E v \in content : r = Entry(v)
  BY <1>1
<1> HIDE DEF T
<1>4. x \in AsOf(content, k, t) /\ \A o \in AsOf(content, k, t) : o.at <= x.at
  <2>1. \A v \in AsOf(content, k, t) : v.at \in 0 .. LastTime
    BY DEF AsOf, IsStaged
  <2> QED BY <2>1, LatestIs
<1> HIDE DEF x
<1>5. Entry(x) \in AsOf(T, k, t)
  BY <1>2, <1>3, <1>4 DEF AsOf
<1>6. y \in AsOf(T, k, t) /\ \A o \in AsOf(T, k, t) : o.at <= y.at
  <2>1. \A v \in AsOf(T, k, t) : v.at \in 0 .. LastTime
    BY <1>2, <1>3 DEF AsOf, IsStaged
  <2> QED BY <1>5, <2>1, LatestIs
<1> HIDE DEF y
<1>7. PICK v \in content : y = Entry(v)
  BY <1>3, <1>6 DEF AsOf
<1>8. v \in AsOf(content, k, t) /\ v.key = x.key
  BY <1>2, <1>4, <1>6, <1>7 DEF AsOf
<1>9. v.at = x.at
  <2>1. v.at \in Nat /\ x.at \in Nat
    BY <1>4, LandingsAssumption DEF AsOf, IsStaged
  <2>2. v.at <= x.at /\ x.at <= v.at
    BY <1>2, <1>4, <1>5, <1>6, <1>7, <1>8 DEF AsOf
  <2> QED BY <2>1, <2>2
<1>10. v = x
  BY <1>4, <1>8, <1>9 DEF AsOf, IsStaged
<1> QED BY <1>2, <1>5, <1>7, <1>10, <1>4 DEF T, x, y, AsOf

\* Deliveries are those of a configuration, or the bucket has none.
DeliveriesRecur ==
  \A l \in Landings : DOMAIN l.deliveries = {} \/ \E p, w : IsRecurring(l, p, w)

\* What the recurring deliveries of a configuration with two schema versions said is
\* what the history says, in whatever order DP1 ran on them and whichever it did not.
THEOREM DeliveriesAreHistory == DeliveriesRecur => (Spec => []HistoryIsDeliveries)
<1> SUFFICES ASSUME DeliveriesRecur PROVE Spec => []HistoryIsDeliveries
  OBVIOUS
<1>1. ASSUME Landed, UserHistoryIsAsOf PROVE HistoryIsDeliveries
  <2> DEFINE gold    == Gold(Silver(bronze))
             Current == {v.state : v \in {x \in gold.content : x.to = EndOfTime}}
             valid   == Valid(bronze.content)
  <2>1. landing \in Landings /\ \A table \in SnapshotTables : bronze[table] \subseteq landing[table]
    BY <1>1 DEF Landed, SnapshotTables
  <2>2. CASE DOMAIN landing.deliveries = {}
    <3>1. \A table : Ingested(table) = {}
      BY <2>2 DEF Ingested
    <3> QED BY <3>1 DEF HistoryIsDeliveries
  <2>3. ASSUME NEW p, NEW w, IsRecurring(landing, p, w) PROVE HistoryIsDeliveries
    <3>1. \A table \in SnapshotTables : \A d \in Ingested(table) :
            d \in DOMAIN landing.deliveries /\ landing.deliveries[d][table] \in bronze[table]
      BY DEF Ingested
    <3>2. \A table \in SnapshotTables : \A r \in bronze[table] : r.valid
      <4> TAKE table \in SnapshotTables
      <4> TAKE r \in bronze[table]
      <4>1. landing[table] = {landing.deliveries[d][table] : d \in DOMAIN p}
        BY <2>3 DEF IsRecurring, SnapshotTables
      <4>2. DOMAIN landing.deliveries = DOMAIN p
        BY <2>3 DEF IsRecurring, RecurringObjects
      <4>3. PICK d \in DOMAIN landing.deliveries : r = landing.deliveries[d][table]
        BY <2>1, <4>1, <4>2
      <4> QED BY <2>3, <4>3, DeliveryRows
    <3>3. /\ Valid(bronze.subscriptions) = bronze.subscriptions
          /\ valid = bronze.content
      BY <3>2 DEF Valid, SnapshotTables
    <3>4. /\ IsVersions(bronze.users) /\ IsVersions(bronze.subscriptions)
          /\ IsVersions(bronze.content)
      BY <1>1, BronzeIsSource
    <3>5. \A d \in DOMAIN landing.deliveries :
            /\ d \in DOMAIN p /\ landing.deliveries[d].at = p[d].at
            /\ landing.deliveries[d].users.state = UserState(p, w, d)
            /\ landing.deliveries[d].subscriptions.state = Tier(p, w, d)
            /\ p[d].at \in 0 .. LastTime
      <4> TAKE d \in DOMAIN landing.deliveries
      <4>1. /\ d \in DOMAIN p /\ landing.deliveries[d].at = p[d].at
            /\ landing.deliveries[d].users.state = UserState(p, w, d)
            /\ landing.deliveries[d].subscriptions.state = Tier(p, w, d)
        BY <2>3, DeliveryRows
      <4> QED BY <2>3, <4>1 DEF IsRecurring
    <3>6. ASSUME NEW d \in Ingested("users") \cap Ingested("subscriptions")
          PROVE  {v.state : v \in ValidAt(gold.users, 1, landing.deliveries[d].at)} =
                   {<<landing.deliveries[d].users.state, landing.deliveries[d].subscriptions.state>>}
      <4> DEFINE t == landing.deliveries[d].at
      <4>1. d \in DOMAIN landing.deliveries
        BY <3>1, <3>6 DEF SnapshotTables
      <4>2. Said(bronze.users, 1, t) = {UserState(p, w, d)}
        <5> DEFINE State == [x \in DOMAIN p |-> UserState(p, w, x)]
        <5>1. OfChange(p, w, "users", State)
          BY DEF OfChange, UserState
        <5>2. \A x \in DOMAIN landing.deliveries : landing.deliveries[x]["users"].state = State[x]
          BY <3>5
        <5>3. /\ "users" \in SnapshotTables /\ bronze.users \in SUBSET landing["users"]
              /\ landing.deliveries[d]["users"] \in bronze.users /\ State[d] = UserState(p, w, d)
          BY <2>1, <3>1, <3>5, <3>6, <4>1 DEF SnapshotTables
        <5> HIDE DEF State
        <5>4. PICK table, rows : table = "users" /\ rows = bronze.users
          OBVIOUS
        <5>5. /\ \A x \in DOMAIN landing.deliveries : landing.deliveries[x][table].state = State[x]
              /\ OfChange(p, w, table, State)
              /\ table \in SnapshotTables /\ rows \in SUBSET landing[table] /\ IsVersions(rows)
              /\ landing.deliveries[d][table] \in rows
          BY <3>4, <5>1, <5>2, <5>3, <5>4
        <5>6. Said(rows, 1, t) = {State[d]}
          BY <2>3, <4>1, <5>5, SaidOfDelivery
        <5> QED BY <5>3, <5>4, <5>6
      <4>3. Said(bronze.subscriptions, 1, t) = {Tier(p, w, d)}
        <5> DEFINE State == [x \in DOMAIN p |-> Tier(p, w, x)]
        <5>1. OfChange(p, w, "subscriptions", State)
          BY DEF OfChange, Tier
        <5>2. \A x \in DOMAIN landing.deliveries :
                landing.deliveries[x]["subscriptions"].state = State[x]
          BY <3>5
        <5>3. /\ "subscriptions" \in SnapshotTables
              /\ bronze.subscriptions \in SUBSET landing["subscriptions"]
              /\ landing.deliveries[d]["subscriptions"] \in bronze.subscriptions
              /\ State[d] = Tier(p, w, d)
          BY <2>1, <3>1, <3>5, <3>6, <4>1 DEF SnapshotTables
        <5> HIDE DEF State
        <5>4. PICK table, rows : table = "subscriptions" /\ rows = bronze.subscriptions
          OBVIOUS
        <5>5. /\ \A x \in DOMAIN landing.deliveries : landing.deliveries[x][table].state = State[x]
              /\ OfChange(p, w, table, State)
              /\ table \in SnapshotTables /\ rows \in SUBSET landing[table] /\ IsVersions(rows)
              /\ landing.deliveries[d][table] \in rows
          BY <3>4, <5>1, <5>2, <5>3, <5>4
        <5>6. Said(rows, 1, t) = {State[d]}
          BY <2>3, <4>1, <5>5, SaidOfDelivery
        <5> QED BY <5>3, <5>4, <5>6
      <4>4. 1 \in {r.key : r \in bronze.users}
        BY <2>3, <3>1, <3>6, <4>1, DeliveryRows DEF SnapshotTables
      <4>5. t \in Times
        BY <3>5, <4>1 DEF Times
      <4>6. {v.state : v \in ValidAt(gold.users, 1, t)} =
              Said(bronze.users, 1, t) \X SaidOrNull(Valid(bronze.subscriptions), 1, t)
        <5>1. Said(bronze.users, 1, t) # {}
          BY <4>2
        <5> HIDE DEF t
        <5> QED BY <1>1, <4>4, <4>5, <5>1 DEF UserHistoryIsAsOf
      <4>7. SaidOrNull(Valid(bronze.subscriptions), 1, t) = {Tier(p, w, d)}
        BY <3>3, <4>3 DEF SaidOrNull
      <4>8. {UserState(p, w, d)} \X {Tier(p, w, d)} = {<<UserState(p, w, d), Tier(p, w, d)>>}
        OBVIOUS
      <4> QED BY <3>5, <4>1, <4>2, <4>6, <4>7, <4>8
    <3>7. ASSUME Ingested("content") # {}
          PROVE  Current = {<<landing.deliveries[Max(Ingested("content"))].content.state>>}
      <4> DEFINE m        == Max(Ingested("content"))
                 silver   == Silver(bronze)
                 viewings == {[key |-> x.content, at |-> x.started] : x \in silver.sessions}
                 T        == ContentTimeline(silver.content)
                 C        == ChangesOnly(T)
      <4>1. m \in Ingested("content") /\ \A e \in Ingested("content") : e <= m
        <5>1. \A e \in Ingested("content") : e \in DOMAIN p
          BY <3>1, <3>5 DEF SnapshotTables
        <5>2. IsFiniteSet(DOMAIN p) /\ \A e \in DOMAIN p : e \in Nat
          BY <2>3 DEF IsRecurring
        <5>3. IsFiniteSet(Ingested("content")) /\ \A e \in Ingested("content") : e \in Nat
          BY <5>1, <5>2, FS_Subset
        <5> QED BY <3>7, <5>3, MaxIs
      <4> HIDE DEF m
      <4>2. /\ m \in DOMAIN landing.deliveries /\ landing.deliveries[m].content \in bronze.content
            /\ \A e \in DOMAIN landing.deliveries :
                 landing.deliveries[e].content \in bronze.content => e <= m
            /\ bronze.content \in SUBSET landing.content
        BY <2>1, <4>1 DEF Ingested, SnapshotTables
      <4>3. /\ silver.content = Deduplicate(bronze.content)
            /\ IsStaged(silver.content) /\ \A x \in silver.sessions : x.started \in 0 .. LastTime
        <5>1. silver.content = Deduplicate(valid)
          BY DEF Silver, StageContent
        <5> QED BY <1>1, <3>3, <5>1, SilverIs
      <4>4. /\ AsOf(silver.content, 1, LastTime) # {}
            /\ Latest(AsOf(silver.content, 1, LastTime)).state = landing.deliveries[m].content.state
        BY <2>3, <3>4, <4>2, <4>3, LatestOfDeliveries
      <4>5. gold.content = Dimension(C, viewings)
        BY DEF Gold, DimContent
      <4>6. \A v \in viewings : v.at \in 0 .. LastTime
        BY <4>3
      <4>7. \A r \in silver.content : r.key = 1
        <5>1. \A r \in silver.content : r \in bronze.content
          BY <3>4, <4>3, DeduplicateStages
        <5>2. landing.content = {landing.deliveries[x].content : x \in DOMAIN landing.deliveries}
          BY <2>3 DEF IsRecurring, RecurringObjects
        <5>3. \A x \in DOMAIN landing.deliveries : landing.deliveries[x].content.key = 1
          BY <2>3, DeliveryRows DEF SnapshotTables
        <5> QED BY <4>2, <5>1, <5>2, <5>3
      <4> HIDE DEF silver, viewings, gold
      <4>8. LastTime \in 0 .. LastTime
        BY LandingsAssumption
      <4>9. /\ IsHistory(T) /\ \A v \in T : v.key = 1
        BY <4>3, <4>7, ContentTimelineIs
      <4>10. /\ AsOf(T, 1, LastTime) # {}
             /\ Latest(AsOf(T, 1, LastTime)).state = <<landing.deliveries[m].content.state>>
        BY <4>3, <4>4, <4>8, LatestOfTimeline
      <4> HIDE DEF T
      <4>11. PICK d : /\ ValidAt(Dimension(C, viewings), 1, LastTime) = {d}
                      /\ d.state = Latest(AsOf(T, 1, LastTime)).state
        BY <4>6, <4>8, <4>9, <4>10, OneVersion
      <4>12. IsHistory(C) /\ \A v \in C : v.key = 1
        BY <4>9, ChangesOnlyIsHistory
      <4> HIDE DEF C
      <4>13. {v \in Dimension(C, viewings) : v.to = EndOfTime} = {d}
        BY <4>6, <4>11, <4>12, CurrentVersions
      <4>14. Current = {d.state}
        BY <4>5, <4>13
      <4> QED BY <4>10, <4>11, <4>14 DEF m
    <3> QED BY <3>6, <3>7 DEF HistoryIsDeliveries
  <2> QED BY <2>1, <2>2, <2>3 DEF DeliveriesRecur
<1> QED BY <1>1, BronzeIsLanded, UserHistory, PTL

=============================================================================
