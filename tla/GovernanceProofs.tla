----------------------------- MODULE GovernanceProofs -----------------------------
(***************************************************************************)
(* What DataHub shows, for any contracts and any number of publications:   *)
(* the evidence of a success is carried from the tests to the artifacts,   *)
(* from there to the publisher and by it to DataHub; a contract comes      *)
(* after its assertions; and a verification leaves nothing out.            *)
(***************************************************************************)
EXTENDS Governance, WellFoundedInduction, TLAPS

-----------------------------------------------------------------------------
(* Induction, and the sequences that FlattenSeq returns *)

\* A set with 0, and with the successor of each of its numbers below n, has all numbers
\* up to n: otherwise take the least that is missing.
LEMMA Induction ==
  ASSUME NEW n \in Nat, NEW G, 0 \in G, \A i \in 0..(n - 1) : i \in G => i + 1 \in G
  PROVE  \A i \in 0..n : i \in G
<1> DEFINE Bad == {i \in Nat : i <= n /\ i \notin G}
<1> SUFFICES ASSUME Bad # {} PROVE FALSE
  OBVIOUS
<1>1. PICK m \in Bad : \A i \in Bad : ~(<<i, m>> \in OpToRel(<, Nat))
  <2>1. Bad \subseteq Nat
    OBVIOUS
  <2> HIDE DEF Bad
  <2> QED BY <2>1, NatLessThanWellFounded, WFMin
<1>2. m \in Nat /\ m # 0 /\ m <= n /\ m \notin G
  OBVIOUS
<1>3. m - 1 \in Nat /\ m - 1 < m /\ m - 1 \in 0..(n - 1)
  BY <1>2
<1>4. m - 1 \in G
  <2>1. <<m - 1, m>> \in OpToRel(<, Nat)
    BY <1>2, <1>3 DEF OpToRel
  <2>2. m - 1 \notin Bad
    BY <1>1, <2>1
  <2> QED BY <1>2, <1>3, <2>2
<1> QED BY <1>2, <1>3, <1>4

\* f has what FlattenSeq builds of the first m sequences, step by step.
FlattensUpTo(f, seqs, m) ==
  f = [i \in 1..m |-> IF i = 1 THEN seqs[i] ELSE f[i - 1] \o seqs[i]]

LEMMA FlattenExists ==
  ASSUME NEW seqs, NEW n \in Nat
  PROVE  \E f : FlattensUpTo(f, seqs, n)
<1> DEFINE G == {m \in 0..n : \E f : FlattensUpTo(f, seqs, m)}
<1>1. 0 \in G
  <2>1. FlattensUpTo([i \in 1..0 |-> <<>>], seqs, 0)
    BY DEF FlattensUpTo
  <2> QED BY <2>1
<1>2. ASSUME NEW m \in 0..(n - 1), m \in G PROVE m + 1 \in G
  <2>1. PICK f : FlattensUpTo(f, seqs, m)
    BY <1>2
  <2> DEFINE next == IF m + 1 = 1 THEN seqs[m + 1] ELSE f[m] \o seqs[m + 1]
  <2> DEFINE g == [i \in 1..(m + 1) |-> IF i = m + 1 THEN next ELSE f[i]]
  <2>2. \A i \in 1..m : f[i] = IF i = 1 THEN seqs[i] ELSE f[i - 1] \o seqs[i]
    BY <2>1 DEF FlattensUpTo
  <2>3. ASSUME NEW i \in 1..(m + 1) PROVE g[i] = IF i = 1 THEN seqs[i] ELSE g[i - 1] \o seqs[i]
    <3>1. CASE i = m + 1
      BY <3>1
    <3>2. CASE i # m + 1
      BY <2>2, <3>2
    <3> QED BY <3>1, <3>2
  <2>4. g = [i \in 1..(m + 1) |-> IF i = 1 THEN seqs[i] ELSE g[i - 1] \o seqs[i]]
    <3> HIDE DEF next
    <3>1. DOMAIN g = 1..(m + 1) /\ g = [i \in DOMAIN g |-> g[i]]
      OBVIOUS
    <3> HIDE DEF g
    <3> QED BY <2>3, <3>1
  <2>5. FlattensUpTo(g, seqs, m + 1)
    BY <2>4 DEF FlattensUpTo
  <2> HIDE DEF g
  <2> QED BY <2>5
<1>3. \A i \in 0..n : i \in G
  <2> HIDE DEF G
  <2> QED BY <1>1, <1>2, Induction
<1> QED BY <1>3

\* s stands in flat from position o + 1 on.
StandsAt(s, flat, o) == \A j \in 1..Len(s) : o + j \in 1..Len(flat) /\ flat[o + j] = s[j]

\* A flattened sequence has each of the sequences in one piece, and nothing else.
LEMMA Flattened ==
  ASSUME NEW T, NEW seqs \in Seq(Seq(T)), seqs # <<>>
  PROVE  /\ FlattenSeq(seqs) \in Seq(T)
         /\ \A i \in 1..Len(seqs) : \E o \in Nat : StandsAt(seqs[i], FlattenSeq(seqs), o)
         /\ \A k \in 1..Len(FlattenSeq(seqs)) : \E i \in 1..Len(seqs), o \in Nat :
              StandsAt(seqs[i], FlattenSeq(seqs), o) /\ k - o \in 1..Len(seqs[i])
<1> DEFINE n == Len(seqs)
<1>0. n \in Nat /\ n # 0 /\ \A i \in 1..n : seqs[i] \in Seq(T)
  OBVIOUS
<1>1. PICK f : FlattensUpTo(f, seqs, n) /\ f[n] = FlattenSeq(seqs)
  <2>1. \E f : FlattensUpTo(f, seqs, n)
    BY <1>0, FlattenExists
  <2>2. FlattensUpTo(CHOOSE f : FlattensUpTo(f, seqs, n), seqs, n)
    BY <2>1
  <2>3. FlattenSeq(seqs) = (CHOOSE f : FlattensUpTo(f, seqs, n))[n]
    BY <1>0 DEF FlattenSeq, FlattensUpTo
  <2> QED BY <2>2, <2>3
<1>rec. \A i \in 1..n : f[i] = IF i = 1 THEN seqs[i] ELSE f[i - 1] \o seqs[i]
  BY <1>1 DEF FlattensUpTo
<1> DEFINE Fits(m) == /\ f[m] \in Seq(T)
                      /\ \A i \in 1..m : \E o \in Nat : StandsAt(seqs[i], f[m], o)
                      /\ \A k \in 1..Len(f[m]) : \E i \in 1..m, o \in Nat :
                           StandsAt(seqs[i], f[m], o) /\ k - o \in 1..Len(seqs[i])
           G == {m \in 0..n : m = 0 \/ Fits(m)}
<1> HIDE DEF n
<1>2. 0 \in G
  BY <1>0
<1>3. ASSUME NEW m \in 0..(n - 1), m \in G PROVE m + 1 \in G
  <2>0. m + 1 \in 1..n /\ seqs[m + 1] \in Seq(T)
    BY <1>0
  <2>1. CASE m = 0
    <3>1. f[1] = seqs[1]
      BY <1>0, <1>1, <2>0, <2>1 DEF FlattensUpTo
    <3>2. StandsAt(seqs[1], f[1], 0)
      BY <2>0, <2>1, <3>1 DEF StandsAt
    <3>3. \A k \in 1..Len(f[1]) : k - 0 \in 1..Len(seqs[1])
      BY <2>0, <2>1, <3>1
    <3>4. Fits(1)
      BY <2>0, <2>1, <3>1, <3>2, <3>3
    <3> QED BY <2>0, <2>1, <3>4
  <2>2. CASE m # 0
    <3>1. Fits(m)
      BY <1>3, <2>2
    <3>2. f[m + 1] = f[m] \o seqs[m + 1]
      <4>1. m + 1 # 1 /\ (m + 1) - 1 = m
        BY <2>2
      <4> QED BY <1>rec, <2>0, <4>1
    <3>abc. PICK a, b, c : a = f[m] /\ b = seqs[m + 1] /\ c = f[m + 1]
      OBVIOUS
    <3>3. a \in Seq(T) /\ b \in Seq(T) /\ c = a \o b
      BY <2>0, <3>1, <3>2, <3>abc
    <3>4. c \in Seq(T) /\ Len(c) = Len(a) + Len(b) /\ Len(a) \in Nat /\ Len(b) \in Nat
          /\ (\A j \in 1..Len(a) : c[j] = a[j]) /\ \A j \in 1..Len(b) : c[Len(a) + j] = b[j]
      BY <3>3
    <3>5. StandsAt(b, c, Len(a))
      BY <3>4 DEF StandsAt
    <3>6. ASSUME NEW i \in 1..m, NEW o \in Nat, StandsAt(seqs[i], a, o) PROVE StandsAt(seqs[i], c, o)
      BY <3>4, <3>6 DEF StandsAt
    <3>7. ASSUME NEW i \in 1..(m + 1) PROVE \E o \in Nat : StandsAt(seqs[i], c, o)
      <4>1. CASE i = m + 1
        BY <3>4, <3>5, <3>abc, <4>1
      <4>2. CASE i # m + 1
        BY <3>1, <3>6, <3>abc, <4>2
      <4> QED BY <4>1, <4>2
    <3>8. ASSUME NEW k \in 1..Len(c)
          PROVE  \E i \in 1..(m + 1), o \in Nat : StandsAt(seqs[i], c, o) /\ k - o \in 1..Len(seqs[i])
      <4>1. CASE k <= Len(a)
        <5>1. PICK i \in 1..m, o \in Nat : StandsAt(seqs[i], a, o) /\ k - o \in 1..Len(seqs[i])
          BY <3>1, <3>4, <3>abc, <4>1
        <5> QED BY <3>6, <5>1
      <4>2. CASE ~(k <= Len(a))
        <5>1. k - Len(a) \in 1..Len(b)
          BY <3>4, <4>2
        <5> QED BY <3>4, <3>5, <3>abc, <5>1, <2>0
      <4> QED BY <4>1, <4>2
    <3>9. Fits(m + 1)
      BY <3>4, <3>7, <3>8, <3>abc
    <3> QED BY <2>0, <3>9
  <2> QED BY <2>1, <2>2
<1>4. \A i \in 0..n : i \in G
  <2> HIDE DEF G
  <2> QED BY <1>0, <1>2, <1>3, Induction
<1>5. Fits(n)
  BY <1>0, <1>4
<1> QED BY <1>0, <1>1, <1>5 DEF n

\* The sequence that EmitsOf flattens.
DefinitionsAndResults(c) ==
  [i \in DOMAIN Assertions[c] |-> <<<<"definition", Assertions[c][i]>>, <<"result", Assertions[c][i]>>>>]

Aspects == ({"definition", "result"} \X AllAssertions) \cup ({"contract"} \X ToSet(Contracts))

\* a's definition and result stand before position k.
BothBefore(emits, k, a) ==
  \E l, m \in 1..(k - 1) : emits[l] = <<"definition", a>> /\ emits[m] = <<"result", a>>

\* What is emitted of a contract: the contract comes last, after all its assertions.
LEMMA EmitsOfIs ==
  ASSUME NEW c \in ToSet(Contracts)
  PROVE  /\ EmitsOf(c) \in Seq(Aspects) /\ Len(EmitsOf(c)) # 0
         /\ \A j \in 1..Len(EmitsOf(c)) : EmitsOf(c)[j][1] = "contract" =>
              j = Len(EmitsOf(c)) /\ EmitsOf(c)[j] = <<"contract", c>>
         /\ \A a \in ToSet(Assertions[c]) : BothBefore(EmitsOf(c), Len(EmitsOf(c)), a)
<1> DEFINE T == {"definition", "result"} \X AllAssertions
           pairs == DefinitionsAndResults(c)
<1>1. PICK n \in Nat \ {0} : DOMAIN Assertions[c] = 1..n
  <2>1. Assertions[c] \in Seq(ToSet(Assertions[c])) /\ Assertions[c] # <<>>
    BY GovernanceAssumption
  <2> QED BY <2>1
<1>2. \A i \in 1..n : Assertions[c][i] \in AllAssertions
  BY <1>1 DEF AllAssertions, ToSet
<1>3. pairs \in Seq(Seq(T)) /\ pairs # <<>> /\ Len(pairs) = n
      /\ \A i \in 1..n : pairs[i] = <<<<"definition", Assertions[c][i]>>, <<"result", Assertions[c][i]>>>>
  BY <1>1, <1>2 DEF DefinitionsAndResults
<1>4. PICK flat : flat = FlattenSeq(pairs)
  OBVIOUS
<1>5. /\ flat \in Seq(T)
      /\ \A i \in 1..Len(pairs) : \E o \in Nat : StandsAt(pairs[i], flat, o)
  BY <1>3, <1>4, Flattened
<1>6. EmitsOf(c) = flat \o <<<<"contract", c>>>>
  BY <1>4 DEF EmitsOf, DefinitionsAndResults
<1>7. /\ Len(EmitsOf(c)) = Len(flat) + 1 /\ Len(flat) \in Nat
      /\ EmitsOf(c) \in Seq(Aspects)
      /\ EmitsOf(c)[Len(flat) + 1] = <<"contract", c>>
      /\ \A j \in 1..Len(flat) : EmitsOf(c)[j] = flat[j] /\ flat[j] \in T
  <2>1. flat \in Seq(Aspects) /\ <<<<"contract", c>>>> \in Seq(Aspects)
    BY <1>5 DEF Aspects
  <2> QED BY <1>5, <1>6, <2>1
<1>8. \A j \in 1..Len(EmitsOf(c)) : EmitsOf(c)[j][1] = "contract" =>
        j = Len(EmitsOf(c)) /\ EmitsOf(c)[j] = <<"contract", c>>
  BY <1>7
<1>9. ASSUME NEW a \in ToSet(Assertions[c]) PROVE BothBefore(EmitsOf(c), Len(EmitsOf(c)), a)
  <2>1. PICK i \in 1..n : a = Assertions[c][i]
    BY <1>1 DEF ToSet
  <2>2. PICK o \in Nat : StandsAt(pairs[i], flat, o)
    BY <1>3, <1>5
  <2>3. pairs[i] = <<<<"definition", a>>, <<"result", a>>>>
    BY <1>3, <2>1
  <2>4. /\ o + 1 \in 1..Len(flat) /\ o + 2 \in 1..Len(flat)
        /\ flat[o + 1] = <<"definition", a>> /\ flat[o + 2] = <<"result", a>>
    <3>1. Len(pairs[i]) = 2 /\ pairs[i][1] = <<"definition", a>> /\ pairs[i][2] = <<"result", a>>
      BY <2>3
    <3> HIDE DEF pairs
    <3> QED BY <2>2, <3>1 DEF StandsAt
  <2> QED BY <1>7, <2>4 DEF BothBefore
<1> QED BY <1>7, <1>8, <1>9

\* What a publication emits: every contract comes after its assertions.
LEMMA EmitsIs ==
  /\ Emits \in Seq(Aspects) /\ Emits # <<>>
  /\ \A k \in 1..Len(Emits) : Emits[k][1] = "contract" =>
       \A a \in ToSet(Assertions[Emits[k][2]]) : BothBefore(Emits, k, a)
<1> DEFINE all == [i \in DOMAIN Contracts |-> EmitsOf(Contracts[i])]
<1>1. PICK n \in Nat \ {0} : DOMAIN Contracts = 1..n
  <2>1. Contracts \in Seq(ToSet(Contracts)) /\ Contracts # <<>>
    BY GovernanceAssumption
  <2> QED BY <2>1
<1>2. \A i \in 1..n : Contracts[i] \in ToSet(Contracts)
  BY <1>1 DEF ToSet
<1>3. \A i \in 1..n : EmitsOf(Contracts[i]) \in Seq(Aspects) /\ Len(EmitsOf(Contracts[i])) # 0
  BY <1>2, EmitsOfIs
<1>4. /\ all \in Seq(Seq(Aspects)) /\ all # <<>> /\ Len(all) = n
      /\ \A i \in 1..n : all[i] = EmitsOf(Contracts[i])
  <2>1. all = [i \in 1..n |-> all[i]] /\ \A i \in 1..n : all[i] = EmitsOf(Contracts[i])
    BY <1>1
  <2>2. all \in [1..n -> Seq(Aspects)]
    <3> HIDE DEF all
    <3> QED BY <1>3, <2>1
  <2> HIDE DEF all
  <2> QED BY <2>1, <2>2
<1>5. Emits = FlattenSeq(all)
  BY DEF Emits
<1>6. /\ Emits \in Seq(Aspects)
      /\ \A i \in 1..Len(all) : \E o \in Nat : StandsAt(all[i], Emits, o)
      /\ \A k \in 1..Len(Emits) : \E i \in 1..Len(all), o \in Nat :
           StandsAt(all[i], Emits, o) /\ k - o \in 1..Len(all[i])
  BY <1>4, <1>5, Flattened
<1>7. Emits # <<>>
  <2>1. PICK o \in Nat : StandsAt(all[1], Emits, o)
    BY <1>4, <1>6
  <2>2. Len(all[1]) \in Nat \ {0}
    BY <1>3, <1>4
  <2>3. o + 1 \in 1..Len(Emits)
    <3> HIDE DEF all
    <3> QED BY <2>1, <2>2 DEF StandsAt
  <2> QED BY <2>3
<1>8. ASSUME NEW k \in 1..Len(Emits), Emits[k][1] = "contract", NEW a \in ToSet(Assertions[Emits[k][2]])
      PROVE  BothBefore(Emits, k, a)
  <2>1. PICK i \in 1..n, o \in Nat : StandsAt(all[i], Emits, o) /\ k - o \in 1..Len(all[i])
    BY <1>4, <1>6
  <2>2. PICK c \in ToSet(Contracts) : c = Contracts[i] /\ all[i] = EmitsOf(c)
    BY <1>2, <1>4
  <2>3. PICK j \in 1..Len(EmitsOf(c)) : j = k - o /\ k = o + j
    BY <2>1, <2>2
  <2>4. StandsAt(EmitsOf(c), Emits, o)
    BY <2>1, <2>2
  <2>5. Emits[k] = EmitsOf(c)[j]
    BY <2>3, <2>4 DEF StandsAt
  <2>6. j = Len(EmitsOf(c)) /\ Emits[k] = <<"contract", c>>
    BY <1>8, <2>5, EmitsOfIs
  <2>7. PICK l, m \in 1..(j - 1) : EmitsOf(c)[l] = <<"definition", a>> /\ EmitsOf(c)[m] = <<"result", a>>
    <3>1. a \in ToSet(Assertions[c])
      BY <1>8, <2>6
    <3>2. BothBefore(EmitsOf(c), Len(EmitsOf(c)), a)
      BY <3>1, EmitsOfIs
    <3> QED BY <2>6, <3>2 DEF BothBefore
  <2>8. o + l \in 1..(k - 1) /\ o + m \in 1..(k - 1)
    BY <2>3, <2>7
  <2>9. Emits[o + l] = <<"definition", a>> /\ Emits[o + m] = <<"result", a>>
    <3>1. l \in 1..Len(EmitsOf(c)) /\ m \in 1..Len(EmitsOf(c))
      BY <2>6, <2>7
    <3> QED BY <2>4, <2>7, <3>1 DEF StandsAt
  <2> QED BY <2>8, <2>9 DEF BothBefore
<1> QED BY <1>6, <1>7, <1>8

\* What a verification checks: every assertion.
LEMMA ChecksIs ==
  /\ Checks \in Seq(AllAssertions) /\ Checks # <<>>
  /\ \A a \in AllAssertions : \E k \in 1..Len(Checks) : Checks[k] = a
<1> DEFINE all == [i \in DOMAIN Contracts |-> Assertions[Contracts[i]]]
<1>1. PICK n \in Nat \ {0} : DOMAIN Contracts = 1..n
  <2>1. Contracts \in Seq(ToSet(Contracts)) /\ Contracts # <<>>
    BY GovernanceAssumption
  <2> QED BY <2>1
<1>2. ASSUME NEW c \in ToSet(Contracts)
      PROVE  Assertions[c] \in Seq(AllAssertions) /\ Len(Assertions[c]) # 0
  <2>1. Assertions[c] \in Seq(ToSet(Assertions[c])) /\ Assertions[c] # <<>>
    BY GovernanceAssumption
  <2>2. \A x \in ToSet(Assertions[c]) : x \in AllAssertions
    BY DEF AllAssertions
  <2> QED BY <2>1, <2>2
<1>3. \A i \in 1..n : Contracts[i] \in ToSet(Contracts)
  BY <1>1 DEF ToSet
<1>4. /\ all \in Seq(Seq(AllAssertions)) /\ all # <<>> /\ Len(all) = n
      /\ \A i \in 1..n : all[i] = Assertions[Contracts[i]]
  BY <1>1, <1>2, <1>3
<1>5. Checks = FlattenSeq(all)
  BY DEF Checks
<1>6. /\ Checks \in Seq(AllAssertions)
      /\ \A i \in 1..Len(all) : \E o \in Nat : StandsAt(all[i], Checks, o)
  BY <1>4, <1>5, Flattened
<1>7. ASSUME NEW a \in AllAssertions PROVE \E k \in 1..Len(Checks) : Checks[k] = a
  <2>1. PICK c \in ToSet(Contracts) : a \in ToSet(Assertions[c])
    BY DEF AllAssertions
  <2>2. PICK i \in 1..n : c = Contracts[i]
    BY <1>1 DEF ToSet
  <2>3. PICK s : s = all[i] /\ s = Assertions[c] /\ s \in Seq(AllAssertions)
    BY <1>2, <1>4, <2>2
  <2>4. PICK j \in 1..Len(s) : a = s[j]
    BY <2>1, <2>3 DEF ToSet
  <2>5. PICK o \in Nat : StandsAt(s, Checks, o)
    BY <1>4, <1>6, <2>3
  <2>6. o + j \in 1..Len(Checks) /\ Checks[o + j] = a
    BY <2>4, <2>5 DEF StandsAt
  <2> QED BY <2>6
<1>8. Checks # <<>>
  <2>1. 1 \in 1..n /\ Contracts[1] \in ToSet(Contracts)
    BY <1>3
  <2>2. \E a : a \in AllAssertions
    <3>1. Assertions[Contracts[1]][1] \in AllAssertions
      BY <1>2, <2>1
    <3> QED BY <3>1
  <2> QED BY <1>7, <2>2
<1> QED BY <1>6, <1>7, <1>8

-----------------------------------------------------------------------------
(* Evidence *)

Results == {"none"} \cup Outcomes

\* Type invariant.
Types ==
  /\ publisher \in [pc : {"idle", "suite", "read", "emit", "done", "failed"},
                    got : [Sources -> Results], emitted : Nat]
  /\ DOMAIN hub = {"enriched", "defined", "result", "contracts"}
  /\ hub.result \in [AllAssertions -> Results]
  /\ evidence \in SUBSET Sources

\* Where a success is carried, its evidence is there.
Carried ==
  /\ \A s \in DbtSources : results[s] = "passing" => s \in evidence
  /\ \A s \in Sources : publisher.got[s] = "passing" => s \in evidence
  /\ \A a \in AllAssertions : hub.result[a] = "passing" => a.source \in evidence

IInv == Types /\ Carried

LEMMA AssertionSource == ASSUME NEW a \in AllAssertions PROVE a.source \in Sources
<1>1. PICK c \in ToSet(Contracts) : a \in ToSet(Assertions[c])
  BY DEF AllAssertions
<1>2. PICK i \in DOMAIN Assertions[c] : a = Assertions[c][i]
  BY <1>1 DEF ToSet
<1> QED BY <1>1, <1>2, GovernanceAssumption

\* What is published next is not lost by what is found out meanwhile.
LEMMA EvidenceStays ==
  ASSUME IInv, evidence \subseteq evidence', evidence' \in SUBSET Sources,
         publisher' \in [pc : {"idle", "suite", "read", "emit", "done", "failed"},
                         got : [Sources -> Results], emitted : Nat],
         \A s \in Sources : publisher'.got[s] = "passing" => s \in evidence',
         \A s \in DbtSources : results'[s] = "passing" => s \in evidence', UNCHANGED hub
  PROVE  IInv'
BY DEF IInv, Types, Carried

\* A source is read, or suite, with its evidence.
LEMMA GotKeeps ==
  ASSUME IInv, NEW s \in Sources, NEW outcome \in Outcomes, NEW pc \in {"read", "failed"},
         publisher' = [publisher EXCEPT !.pc = pc, !.got[s] = outcome],
         evidence \subseteq evidence', evidence' \in SUBSET Sources,
         outcome = "passing" => s \in evidence', UNCHANGED <<results, hub>>
  PROVE  IInv'
<1>1. publisher' \in [pc : {"idle", "suite", "read", "emit", "done", "failed"},
                      got : [Sources -> Results], emitted : Nat]
  BY DEF IInv, Types, Results
<1>2. /\ publisher'.got[s] = outcome
      /\ \A t \in Sources \ {s} : publisher'.got[t] = publisher.got[t]
  BY DEF IInv, Types
<1>3. \A t \in Sources : publisher'.got[t] = "passing" => t \in evidence'
  BY <1>2 DEF IInv, Carried
<1> QED BY <1>1, <1>3, EvidenceStays DEF IInv, Carried

LEMMA EmitKeeps == ASSUME IInv, Emit PROVE IInv'
<1> DEFINE aspect == Emits[publisher.emitted + 1]
<1>1. PICK n \in Nat : n = publisher.emitted + 1
  BY DEF IInv, Types
<1>2. PICK pc \in {"done", "emit"} : publisher' = [publisher EXCEPT !.emitted = n, !.pc = pc]
  BY <1>1 DEF Emit
<1>3. publisher' \in [pc : {"idle", "suite", "read", "emit", "done", "failed"},
                      got : [Sources -> Results], emitted : Nat]
      /\ publisher'.got = publisher.got
  BY <1>2 DEF IInv, Types
<1>4. UNCHANGED <<results, evidence>>
  BY DEF Emit, world
<1>5. DOMAIN hub' = {"enriched", "defined", "result", "contracts"}
  BY DEF Emit, IInv, Types
<1>6. ASSUME hub'.result = hub.result PROVE IInv'
  BY <1>3, <1>4, <1>5, <1>6 DEF IInv, Types, Carried
<1>7. CASE aspect[1] = "definition"
  <2>1. hub'.result = hub.result
    BY <1>7 DEF Emit, IInv, Types
  <2> QED BY <2>1, <1>6
<1>8. CASE aspect[1] = "result"
  <2>1. PICK a : a = aspect[2]
    OBVIOUS
  <2>2. PICK r : r = publisher.got[a.source]
    OBVIOUS
  <2>3. hub' = [hub EXCEPT !.result[a] = r]
    BY <1>8, <2>1, <2>2 DEF Emit
  <2>4. hub'.result = [hub.result EXCEPT ![a] = r]
    BY <2>3 DEF IInv, Types
  <2>5. CASE a \in AllAssertions
    <3>1. r \in Results /\ (r = "passing" => a.source \in evidence)
      BY <2>2, <2>5, AssertionSource DEF IInv, Types, Carried
    <3>2. hub'.result \in [AllAssertions -> Results]
      BY <2>4, <3>1 DEF IInv, Types
    <3>3. \A b \in AllAssertions : hub'.result[b] = "passing" => b.source \in evidence
      BY <2>4, <3>1 DEF IInv, Types, Carried
    <3> QED BY <1>3, <1>4, <1>5, <3>2, <3>3 DEF IInv, Types, Carried
  <2>6. CASE a \notin AllAssertions
    <3>1. hub'.result = hub.result
      BY <2>4, <2>6 DEF IInv, Types
    <3> QED BY <3>1, <1>6
  <2> QED BY <2>5, <2>6
<1>9. CASE aspect[1] # "definition" /\ aspect[1] # "result"
  <2>1. hub'.result = hub.result
    BY <1>9 DEF Emit, IInv, Types
  <2> QED BY <2>1, <1>6
<1> QED BY <1>7, <1>8, <1>9

LEMMA InitInv == Init => IInv
<1> SUFFICES ASSUME Init PROVE IInv
  OBVIOUS
<1>1. publisher.got = NothingRead /\ NothingRead \in [Sources -> Results]
      /\ \A s \in Sources : NothingRead[s] = "none"
  BY DEF Init, NothingRead, Results
<1>2. hub.result \in [AllAssertions -> Results] /\ \A a \in AllAssertions : hub.result[a] = "none"
  BY DEF Init, Results
<1>3. Types
  BY <1>1, <1>2 DEF Init, Types
<1>4. Carried
  BY <1>1, <1>2 DEF Init, Neither, Carried
<1> QED BY <1>3, <1>4 DEF IInv

LEMMA NextKeeps == ASSUME IInv, Next PROVE IInv'
<1>0. Types /\ Carried
  BY DEF IInv
<1>1. CASE MakeTests
  <2>1. UNCHANGED <<publisher, hub>> /\ evidence \subseteq evidence' /\ evidence' \in SUBSET Sources
        /\ \A s \in DbtSources : results'[s] = "passing" => s \in evidence'
    BY <1>0, <1>1 DEF MakeTests, Types, Sources
  <2> QED BY <1>0, <2>1 DEF IInv, Types, Carried
<1>2. CASE MakeRun
  BY <1>0, <1>2 DEF MakeRun, Neither, IInv, Types, Carried
<1>3. CASE Publish
  <2>1. publisher' = [pc |-> "suite", got |-> NothingRead, emitted |-> 0] /\ UNCHANGED <<results, evidence, hub>>
    BY <1>3 DEF Publish, world
  <2>2. NothingRead \in [Sources -> Results] /\ \A s \in Sources : NothingRead[s] = "none"
    BY DEF NothingRead, Results
  <2> QED BY <1>0, <2>1, <2>2 DEF IInv, Types, Carried
<1>4. CASE RunSuite
  <2>1. PICK outcome \in Outcomes :
          /\ publisher' = [publisher EXCEPT !.pc = IF outcome = "passing" THEN "read" ELSE "failed",
                                            !.got["suite"] = outcome]
          /\ evidence' = IF outcome = "passing" THEN evidence \cup {"suite"} ELSE evidence
    BY <1>4 DEF RunSuite
  <2>2. PICK pc \in {"read", "failed"} : pc = IF outcome = "passing" THEN "read" ELSE "failed"
    OBVIOUS
  <2>3. UNCHANGED <<results, hub>> /\ "suite" \in Sources
    BY <1>4 DEF RunSuite, Sources
  <2>4. evidence \subseteq evidence' /\ evidence' \in SUBSET Sources /\ (outcome = "passing" => "suite" \in evidence')
    BY <1>0, <2>1, <2>3 DEF Types
  <2> QED BY <2>1, <2>2, <2>3, <2>4, GotKeeps
<1>5. CASE Enrich
  <2>1. publisher' = [publisher EXCEPT !.pc = "emit"] /\ hub' = [hub EXCEPT !.enriched = TRUE]
        /\ UNCHANGED <<results, evidence>>
    BY <1>5 DEF Enrich, Publisher, world
  <2> QED BY <1>0, <2>1 DEF IInv, Types, Carried
<1>6. CASE Emit
  BY <1>6, EmitKeeps
<1>7. ASSUME Publisher("failed"), UNCHANGED <<results, evidence, hub>> PROVE IInv'
  BY <1>0, <1>7 DEF Publisher, IInv, Types, Carried
<1>8. CASE PublisherDies
  BY <1>7, <1>8 DEF PublisherDies, world
<1>9. ASSUME NEW s \in DbtSources, ReadTests(s) PROVE IInv'
  <2>1. UNCHANGED <<results, evidence, hub>> /\ s \in Sources /\ publisher.pc = "read"
    BY <1>9 DEF ReadTests, world, Sources
  <2>2. CASE Summary(results[s]) = "raise"
    BY <1>7, <1>9, <2>1, <2>2 DEF ReadTests
  <2>3. CASE Summary(results[s]) # "raise"
    <3>1. PICK outcome \in Outcomes : outcome = results[s] /\ Got(s, outcome)
      BY <1>9, <2>3 DEF ReadTests, Summary
    <3>2. publisher' = [publisher EXCEPT !.pc = "read", !.got[s] = outcome]
      BY <1>0, <2>1, <3>1 DEF Got, Types
    <3>3. outcome = "passing" => s \in evidence'
      BY <1>0, <1>9, <2>1, <3>1 DEF Carried
    <3>4. evidence' \in SUBSET Sources
      BY <1>0, <2>1 DEF Types
    <3> QED BY <2>1, <3>2, <3>3, <3>4, GotKeeps
  <2> QED BY <2>2, <2>3
<1>10. ASSUME NEW s \in {"catalog", "registry"}, ReadSchema(s) PROVE IInv'
  <2>1. UNCHANGED <<results, hub>> /\ s \in Sources /\ publisher.pc = "read"
    BY <1>10 DEF ReadSchema, Sources
  <2>2. CASE Publisher("failed") /\ UNCHANGED evidence
    BY <1>7, <2>1, <2>2
  <2>3. ASSUME NEW outcome \in Outcomes, Got(s, outcome),
               evidence' = IF outcome = "passing" THEN evidence \cup {s} ELSE evidence
        PROVE  IInv'
    <3>1. publisher' = [publisher EXCEPT !.pc = "read", !.got[s] = outcome]
      BY <1>0, <2>1, <2>3 DEF Got, Types
    <3>2. evidence \subseteq evidence' /\ evidence' \in SUBSET Sources /\ (outcome = "passing" => s \in evidence')
      BY <1>0, <2>1, <2>3 DEF Types
    <3> QED BY <2>1, <3>1, <3>2, GotKeeps
  <2> QED BY <1>10, <2>2, <2>3 DEF ReadSchema
<1>11. CASE Verify \/ Check
  BY <1>0, <1>11 DEF Verify, Check, world, IInv, Types, Carried
<1> QED BY <1>1, <1>2, <1>3, <1>4, <1>5, <1>6, <1>8, <1>9, <1>10, <1>11 DEF Next

LEMMA Invariance == Spec => []IInv
<1>1. IInv /\ UNCHANGED vars => IInv'
  BY DEF vars, IInv, Types, Carried
<1> QED BY <1>1, InitInv, NextKeeps, PTL DEF Spec

\* The state has its type throughout.
THEOREM Typing == Spec => []Types
<1>1. IInv => Types
  BY DEF IInv
<1> QED BY <1>1, Invariance, PTL

\* DataHub shows no success of a source that never passed.
THEOREM SuccessesHaveEvidence == Spec => []SuccessHasEvidence
<1>1. IInv => SuccessHasEvidence
  BY DEF IInv, Carried, SuccessHasEvidence
<1> QED BY <1>1, Invariance, PTL

-----------------------------------------------------------------------------
(* Contracts and verifications *)

\* The definitions and results among the first n aspects are there.
Shown(n) ==
  \A k \in 1..n :
    /\ Emits[k][1] = "definition" => Emits[k][2] \in hub.defined
    /\ Emits[k][1] = "result" => hub.result[Emits[k][2]] # "none"

\* A publisher that emits has read every source and shown what is behind it.
Emitting ==
  /\ publisher.pc = "emit" => EverythingRead /\ publisher.emitted < Len(Emits)
  /\ publisher.pc \in {"suite", "read"} => publisher.emitted = 0
  /\ publisher.emitted <= Len(Emits)
  /\ Shown(publisher.emitted)

\* What was checked is good until DataHub changes.
Verifying ==
  /\ verifier \in [pc : {"idle", "check", "passed", "failed"}, checked : Nat]
  /\ verifier.pc = "check" => verifier.checked < Len(Checks)
  /\ verifier.pc = "passed" => verifier.checked = Len(Checks)
  /\ verifier.pc \in {"check", "passed"} /\ ~disturbed => \A k \in 1..verifier.checked : Good(Checks[k])

\* DataHub has contracts of the publications only.
ContractsAreKnown == hub.contracts \subseteq ToSet(Contracts)

\* Inductive: what is behind a publisher is why a contract it shows is complete.
ShownInv == Emitting /\ ContractIsComplete /\ ContractsAreKnown

LEMMA InitShown == Init => ShownInv /\ Verifying
<1> SUFFICES ASSUME Init PROVE ShownInv /\ Verifying
  OBVIOUS
<1>1. Len(Emits) \in Nat \ {0} /\ Len(Checks) \in Nat \ {0}
  BY EmitsIs, ChecksIs
<1>2. publisher.pc = "idle" /\ publisher.emitted = 0 /\ hub.contracts = {}
  BY DEF Init
<1>3. ShownInv
  BY <1>1, <1>2 DEF ShownInv, Emitting, Shown, ContractIsComplete, ContractsAreKnown
<1>4. Verifying
  BY <1>1 DEF Init, Verifying
<1> QED BY <1>3, <1>4

\* Neither emits nor starts to.
LEMMA QuietKeeps ==
  ASSUME ShownInv, UNCHANGED hub, publisher'.emitted = publisher.emitted \/ publisher'.emitted = 0,
         publisher'.pc = "emit" => EverythingRead' /\ publisher'.emitted < Len(Emits),
         publisher'.pc \in {"suite", "read"} => publisher'.emitted = 0
  PROVE  ShownInv'
<1>1. Len(Emits) \in Nat
  BY EmitsIs
<1>2. ContractIsComplete' /\ ContractsAreKnown'
  BY DEF ShownInv, ContractIsComplete, ContractsAreKnown
<1>3. CASE publisher'.emitted = 0
  BY <1>1, <1>2, <1>3 DEF ShownInv, Emitting, Shown
<1>4. CASE publisher'.emitted = publisher.emitted
  BY <1>1, <1>2, <1>4 DEF ShownInv, Emitting, Shown
<1> QED BY <1>3, <1>4

LEMMA EmitShows == ASSUME Types, ShownInv, Emit PROVE ShownInv'
<1>1. PICK n \in Nat : n = publisher.emitted /\ n < Len(Emits) /\ Len(Emits) \in Nat
  BY EmitsIs DEF Types, Emit
<1>2. PICK aspect : aspect = Emits[n + 1] /\ aspect \in Aspects
  BY <1>1, EmitsIs
<1>3. /\ publisher'.emitted = n + 1 /\ publisher'.got = publisher.got
      /\ publisher'.pc = IF n + 1 = Len(Emits) THEN "done" ELSE "emit"
  BY <1>1 DEF Emit, Types
<1>4. EverythingRead /\ EverythingRead'
  BY <1>3 DEF ShownInv, Emitting, Emit, EverythingRead
<1>5. /\ hub.defined \subseteq hub'.defined /\ hub.contracts \subseteq hub'.contracts
      /\ \A a \in AllAssertions : hub.result[a] # "none" => hub'.result[a] # "none"
      /\ aspect[1] = "definition" => aspect[2] \in hub'.defined
      /\ aspect[1] = "result" => hub'.result[aspect[2]] # "none"
      /\ hub'.contracts \subseteq ToSet(Contracts)
      /\ \A c \in hub'.contracts : c \in hub.contracts \/ aspect = <<"contract", c>>
  <2>0. hub' = CASE aspect[1] = "definition" -> [hub EXCEPT !.defined = @ \cup {aspect[2]}]
                 [] aspect[1] = "result" -> [hub EXCEPT !.result[aspect[2]] = publisher.got[aspect[2].source]]
                 [] OTHER -> [hub EXCEPT !.contracts = @ \cup {aspect[2]}]
    BY <1>1, <1>2 DEF Emit
  <2>1. DOMAIN hub = {"enriched", "defined", "result", "contracts"} /\ DOMAIN hub.result = AllAssertions
    BY DEF Types
  <2>2. hub.contracts \subseteq ToSet(Contracts)
    BY DEF ShownInv, ContractsAreKnown
  <2>3. CASE aspect[1] = "definition"
    BY <2>0, <2>1, <2>2, <2>3
  <2>4. CASE aspect[1] = "result"
    <3>1. PICK a \in AllAssertions : a = aspect[2]
      BY <1>2, <2>4 DEF Aspects
    <3>2. PICK r : r = publisher.got[a.source] /\ r # "none"
      BY <1>4, AssertionSource DEF EverythingRead
    <3>3. hub' = [hub EXCEPT !.result[a] = r]
      BY <2>0, <2>4, <3>1, <3>2
    <3>4. hub'.result = [hub.result EXCEPT ![a] = r] /\ hub'.defined = hub.defined /\ hub'.contracts = hub.contracts
      BY <2>1, <3>3
    <3> QED BY <2>1, <2>2, <2>4, <3>1, <3>2, <3>4
  <2>5. CASE aspect[1] # "definition" /\ aspect[1] # "result"
    <3>1. PICK c \in ToSet(Contracts) : aspect = <<"contract", c>>
      BY <1>2, <2>5 DEF Aspects
    <3>2. hub' = [hub EXCEPT !.contracts = @ \cup {c}]
      BY <2>0, <3>1
    <3>3. hub'.contracts = hub.contracts \cup {c} /\ hub'.result = hub.result /\ hub'.defined = hub.defined
      BY <2>1, <3>2
    <3> QED BY <2>2, <2>5, <3>1, <3>3
  <2> QED BY <2>3, <2>4, <2>5
<1>6. ASSUME NEW k \in 1..(n + 1)
      PROVE  /\ Emits[k][1] = "definition" => Emits[k][2] \in hub'.defined
             /\ Emits[k][1] = "result" => hub'.result[Emits[k][2]] # "none"
  <2>1. CASE k = n + 1
    BY <1>2, <1>5, <2>1
  <2>2. CASE k # n + 1
    <3>1. k \in 1..n /\ Emits[k] \in Aspects
      BY <1>1, <2>2, EmitsIs
    <3>2. /\ Emits[k][1] = "definition" => Emits[k][2] \in hub.defined
          /\ Emits[k][1] = "result" => hub.result[Emits[k][2]] # "none"
      BY <1>1, <3>1 DEF ShownInv, Emitting, Shown
    <3>3. Emits[k][1] = "result" => Emits[k][2] \in AllAssertions
      BY <3>1 DEF Aspects
    <3> QED BY <1>5, <3>2, <3>3
  <2> QED BY <2>1, <2>2
<1>7. Emitting'
  <2>1. Shown(publisher.emitted)'
    BY <1>3, <1>6 DEF Shown
  <2> QED BY <1>1, <1>3, <1>4, <2>1 DEF Emitting
<1>8. ASSUME NEW c \in hub'.contracts, NEW a \in ToSet(Assertions[c])
      PROVE  a \in hub'.defined /\ hub'.result[a] # "none"
  <2>1. CASE c \in hub.contracts
    <3>1. a \in AllAssertions
      BY <1>5, <1>8 DEF AllAssertions
    <3> QED BY <1>5, <2>1, <3>1 DEF ShownInv, ContractIsComplete
  <2>2. CASE aspect = <<"contract", c>>
    <3>1. BothBefore(Emits, n + 1, a)
      <4>1. n + 1 \in 1..Len(Emits) /\ Emits[n + 1][1] = "contract" /\ Emits[n + 1][2] = c
        BY <1>1, <1>2, <2>2
      <4> QED BY <1>8, <4>1, EmitsIs
    <3>2. PICK l, m \in 1..n : Emits[l] = <<"definition", a>> /\ Emits[m] = <<"result", a>>
      BY <1>1, <3>1 DEF BothBefore
    <3> QED BY <1>6, <3>2
  <2> QED BY <1>5, <2>1, <2>2
<1> QED BY <1>5, <1>7, <1>8 DEF ShownInv, ContractIsComplete, ContractsAreKnown

LEMMA NextShows == ASSUME Types, ShownInv, Next PROVE ShownInv'
<1>1. CASE MakeTests \/ MakeRun \/ Verify \/ Check
  <2>1. UNCHANGED <<hub, publisher>>
    BY <1>1 DEF MakeTests, MakeRun, Verify, Check
  <2> QED BY <2>1 DEF ShownInv, Emitting, Shown, EverythingRead, ContractIsComplete, ContractsAreKnown
<1>2. CASE Publish
  BY <1>2, QuietKeeps DEF Publish
<1>3. CASE RunSuite
  <2>1. /\ UNCHANGED hub /\ publisher'.emitted = publisher.emitted
        /\ publisher'.pc \in {"read", "failed"}
    BY <1>3 DEF RunSuite, Types
  <2>2. publisher.emitted = 0
    BY <1>3 DEF RunSuite, ShownInv, Emitting
  <2> QED BY <2>1, <2>2, QuietKeeps
<1>4. CASE Enrich
  <2>1. /\ publisher'.emitted = publisher.emitted /\ publisher'.got = publisher.got
        /\ hub'.defined = hub.defined /\ hub'.result = hub.result /\ hub'.contracts = hub.contracts
    BY <1>4 DEF Enrich, Publisher, Types
  <2>2. publisher.emitted < Len(Emits)
    <3>1. publisher.emitted = 0
      BY <1>4 DEF Enrich, ShownInv, Emitting
    <3> QED BY <3>1, EmitsIs
  <2> QED BY <1>4, <2>1, <2>2 DEF Enrich, ShownInv, Emitting, Shown, EverythingRead, ContractIsComplete, ContractsAreKnown
<1>5. CASE Emit
  BY <1>5, EmitShows
<1>6. ASSUME Publisher("failed"), UNCHANGED hub PROVE ShownInv'
  <2>1. publisher'.emitted = publisher.emitted /\ publisher'.pc = "failed"
    BY <1>6 DEF Publisher, Types
  <2> QED BY <1>6, <2>1, QuietKeeps
<1>7. ASSUME NEW s, NEW outcome, publisher.pc = "read", Got(s, outcome), UNCHANGED hub PROVE ShownInv'
  <2>1. publisher'.emitted = publisher.emitted /\ publisher'.pc = "read"
    BY <1>7 DEF Got, Types
  <2>2. publisher.emitted = 0
    BY <1>7 DEF ShownInv, Emitting
  <2> QED BY <1>7, <2>1, <2>2, QuietKeeps
<1>8. CASE PublisherDies
  BY <1>6, <1>8 DEF PublisherDies
<1>9. ASSUME NEW s \in DbtSources, ReadTests(s) PROVE ShownInv'
  BY <1>6, <1>7, <1>9 DEF ReadTests
<1>10. ASSUME NEW s \in {"catalog", "registry"}, ReadSchema(s) PROVE ShownInv'
  BY <1>6, <1>7, <1>10 DEF ReadSchema
<1> QED BY <1>1, <1>2, <1>3, <1>4, <1>5, <1>8, <1>9, <1>10 DEF Next

LEMMA NextVerifies == ASSUME Verifying, Next PROVE Verifying'
<1>1. PICK m \in Nat : m = Len(Checks) /\ m # 0
  BY ChecksIs
<1>2. CASE MakeTests \/ MakeRun \/ Publish \/ RunSuite \/ PublisherDies
           \/ (\E s \in DbtSources : ReadTests(s)) \/ \E s \in {"catalog", "registry"} : ReadSchema(s)
  <2>1. UNCHANGED <<hub, verifier, disturbed>>
    BY <1>2 DEF MakeTests, MakeRun, Publish, RunSuite, PublisherDies, ReadTests, ReadSchema
  <2> QED BY <2>1 DEF Verifying, Good
<1>3. CASE Enrich \/ Emit
  <2>1. UNCHANGED verifier /\ disturbed'
    BY <1>3 DEF Enrich, Emit
  <2> QED BY <2>1 DEF Verifying
<1>4. CASE Verify
  BY <1>1, <1>4 DEF Verify, Verifying
<1>5. CASE Check
  <2>0. UNCHANGED <<hub, disturbed>>
    BY <1>5 DEF Check
  <2>1. PICK n \in Nat : n = verifier.checked /\ n < m
    BY <1>1, <1>5 DEF Check, Verifying
  <2>2. CASE ~Good(Checks[n + 1])
    <3>1. verifier' = [verifier EXCEPT !.pc = "failed"]
      BY <1>5, <2>1, <2>2 DEF Check
    <3> QED BY <3>1 DEF Verifying
  <2>3. CASE Good(Checks[n + 1])
    <3>1. verifier' = [pc |-> IF n + 1 = m THEN "passed" ELSE "check", checked |-> n + 1]
      BY <1>1, <1>5, <2>1, <2>3 DEF Check
    <3>2. ASSUME ~disturbed, NEW k \in 1..(n + 1) PROVE Good(Checks[k])
      <4>1. CASE k = n + 1
        BY <2>3, <4>1
      <4>2. CASE k # n + 1
        BY <1>5, <2>1, <3>2, <4>2 DEF Check, Verifying
      <4> QED BY <4>1, <4>2
    <3>3. \A k \in 1..(n + 1) : ~disturbed => Good(Checks[k])'
      BY <2>0, <3>2 DEF Good
    <3> QED BY <1>1, <2>0, <2>1, <3>1, <3>3 DEF Verifying
  <2> QED BY <2>2, <2>3
<1> QED BY <1>2, <1>3, <1>4, <1>5 DEF Next

\* DataHub shows no contract without the definition and a result of each assertion.
THEOREM ContractsAreComplete == Spec => []ContractIsComplete
<1>1. Spec => []ShownInv
  <2>1. ShownInv /\ UNCHANGED vars => ShownInv'
    BY DEF vars, ShownInv, Emitting, Shown, EverythingRead, ContractIsComplete, ContractsAreKnown
  <2> QED BY <2>1, InitShown, NextShows, Typing, PTL DEF Spec
<1>2. ShownInv => ContractIsComplete
  BY DEF ShownInv
<1> QED BY <1>1, <1>2, PTL

\* A verification that passed undisturbed leaves every contract and only successes.
THEOREM VerifiedArePassing == Spec => []VerifiedIsPassing
<1>1. Spec => [](ShownInv /\ Verifying)
  <2>1. ShownInv /\ Verifying /\ UNCHANGED vars => (ShownInv /\ Verifying)'
    BY DEF vars, ShownInv, Emitting, Shown, EverythingRead, ContractIsComplete, ContractsAreKnown, Verifying, Good
  <2> QED BY <2>1, InitShown, NextShows, NextVerifies, Typing, PTL DEF Spec
<1>2. ASSUME ShownInv, Verifying PROVE VerifiedIsPassing
  <2> SUFFICES ASSUME verifier.pc = "passed", ~disturbed
               PROVE  hub.contracts = ToSet(Contracts)
                      /\ \A a \in AllAssertions : a \in hub.defined /\ hub.result[a] = "passing"
    BY DEF VerifiedIsPassing
  <2>1. \A a \in AllAssertions : Good(a)
    <3>1. \A k \in 1..Len(Checks) : Good(Checks[k])
      BY <1>2 DEF Verifying
    <3> QED BY <3>1, ChecksIs
  <2>2. ASSUME NEW c \in ToSet(Contracts) PROVE c \in hub.contracts
    <3>1. PICK a : a \in ToSet(Assertions[c])
      <4>1. Assertions[c] \in Seq(ToSet(Assertions[c])) /\ Assertions[c] # <<>>
        BY GovernanceAssumption
      <4>2. 1 \in DOMAIN Assertions[c]
        BY <4>1
      <4> QED BY <4>2 DEF ToSet
    <3>2. ContractOf(a) = c
      BY <3>1, GovernanceAssumption DEF ContractOf
    <3> QED BY <2>1, <3>1, <3>2 DEF AllAssertions, Good
  <2> QED BY <1>2, <2>1, <2>2 DEF Good, ShownInv, ContractsAreKnown
<1> QED BY <1>1, <1>2, PTL
=============================================================================
