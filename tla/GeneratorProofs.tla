-------------------------- MODULE GeneratorProofs --------------------------
(***************************************************************************)
(* What holds of the generator for any number of commands, executions and  *)
(* objects.  Landing: what the bucket holds, as long as commands that      *)
(* disagree on an object do not run at the same time.  StreamPublisher, an *)
(* instance beside it with a TopicLog of its own: what the topic holds,    *)
(* whatever the client and the broker do.  StreamEvents: which of the      *)
(* events sent are flagged and late.  Batches: what the files of a command *)
(* have, and what its report says of them.                                 *)
(***************************************************************************)
EXTENDS Generator, TopicLog, SequenceTheorems, FiniteSetTheorems, WellFoundedInduction, TLAPS

Labels == {"new", "stat", "put", "done", "failed"}
Running(c) == pc[c] \in {"stat", "put"}

Contents == [Names -> Bytes \cup {Absent}]
Reports  == [rows : Nat, files : Nat, uploaded : Nat, duplicates : Int]

TypeInv ==
  /\ store \in Contents
  /\ report \in [Commands -> Reports]
  /\ pc \in [Commands -> Labels]
  /\ at \in [Commands -> Nat \ {0}]
  /\ \A c \in Commands : (Running(c) => at[c] <= Len(Objects[c])) /\ at[c] <= Len(Objects[c]) + 1
  /\ \A c \in Commands : pc[c] = "done" <=> at[c] > Len(Objects[c])

\* Commands that have to be apart do not run together.
RunApart ==
  \A c, d \in Commands : c # d /\ {c, d} \in Apart => ~(Running(c) /\ Running(d))

\* The objects a command has behind it are stored as it has them.
Behind(c) ==
  pc[c] \in {"stat", "put", "done"} =>
    \A i \in DOMAIN Objects[c] : i < at[c] => store[Objects[c][i].name] = Objects[c][i].bytes

\* A command about to put will not replace another object.
PutIsSafe(c) ==
  pc[c] = "put" => Stored(c) \in {Absent, Current(c).bytes}

IInv ==
  /\ TypeInv /\ RunApart
  /\ \A c \in Commands : Behind(c) /\ PutIsSafe(c)

StoreGrows == \A n \in Names : store[n] # Absent => store'[n] = store[n]

-----------------------------------------------------------------------------
(* Objects *)

\* The domain of a command's objects.
LEMMA ObjectDomain ==
  ASSUME NEW c \in Commands
  PROVE  /\ Len(Objects[c]) \in Nat \ {0}
         /\ DOMAIN Objects[c] = 1 .. Len(Objects[c])
<1>1. Objects[c] \in Seq(Object) /\ Objects[c] # <<>>
  BY LandingAssumption
<1> QED
  BY <1>1

\* Every object has a name and bytes.
LEMMA ObjectType ==
  ASSUME NEW c \in Commands, NEW i \in DOMAIN Objects[c]
  PROVE  /\ Objects[c][i] \in Object
         /\ Objects[c][i].name \in Names
         /\ Objects[c][i].bytes \in Bytes \ {Absent}
<1>1. Objects[c] \in Seq(Object)
  BY LandingAssumption
<1>2. i \in 1 .. Len(Objects[c])
  BY ObjectDomain
<1>3. Objects[c][i] \in Object
  BY <1>1, <1>2, ElementOfSeq
<1> QED
  BY <1>3, LandingAssumption DEF Object

\* The current object of a running command.
LEMMA CurrentType ==
  ASSUME TypeInv, NEW c \in Commands, Running(c)
  PROVE  /\ at[c] \in DOMAIN Objects[c]
         /\ Current(c) \in Object
         /\ Current(c).name \in Names
         /\ Current(c).bytes \in Bytes \ {Absent}
<1>1. at[c] \in 1 .. Len(Objects[c])
  BY ObjectDomain DEF TypeInv
<1> QED
  BY <1>1, ObjectDomain, ObjectType DEF Current

\* What a put that is safe does to the bucket.
LEMMA SafePut ==
  ASSUME TypeInv, NEW c \in Commands, PutIsSafe(c), pc[c] = "put",
         store' = [store EXCEPT ![Current(c).name] = Current(c).bytes]
  PROVE  /\ store' \in Contents
         /\ StoreGrows
         /\ store'[Current(c).name] = Current(c).bytes
         /\ \A n \in Names : n # Current(c).name => store'[n] = store[n]
<1>1. Current(c).name \in Names /\ Current(c).bytes \in Bytes
  BY CurrentType DEF Running
<1>2. store \in Contents
  BY DEF TypeInv
<1>3. store[Current(c).name] \in {Absent, Current(c).bytes}
  BY DEF PutIsSafe, Stored
<1> QED
  BY <1>1, <1>2, <1>3 DEF StoreGrows, Contents

\* What a command has behind it stays as long as the store only grows.
LEMMA BehindStays ==
  ASSUME NEW d \in Commands, Behind(d), StoreGrows, pc'[d] = pc[d], at'[d] = at[d]
  PROVE  Behind(d)'
BY ObjectType DEF Behind, StoreGrows

\* A put next to another command about to put leaves that one safe.
LEMMA PutStaysSafe ==
  ASSUME ConflictsApart, TypeInv, RunApart, NEW c \in Commands, NEW d \in Commands, c # d,
         PutIsSafe(c), PutIsSafe(d), pc[c] = "put",
         store' = [store EXCEPT ![Current(c).name] = Current(c).bytes],
         pc'[d] = pc[d], at'[d] = at[d]
  PROVE  PutIsSafe(d)'
<1> SUFFICES ASSUME pc[d] = "put"
             PROVE  store'[Current(d).name] \in {Absent, Current(d).bytes}
  BY DEF PutIsSafe, Stored, Current
<1>1. /\ at[c] \in DOMAIN Objects[c] /\ at[d] \in DOMAIN Objects[d]
      /\ Current(c).name \in Names /\ Current(d).name \in Names
  BY CurrentType DEF Running
<1>2. {c, d} \notin Apart
  BY DEF RunApart, Running
<1>3. CASE Current(c).name = Current(d).name
  <2>1. Current(c).bytes = Current(d).bytes
    BY <1>1, <1>2, <1>3 DEF ConflictsApart, Current
  <2> QED
    BY <1>3, <2>1, SafePut
<1>4. CASE Current(c).name # Current(d).name
  <2>1. store'[Current(d).name] = store[Current(d).name]
    BY <1>1, <1>4, SafePut
  <2> QED
    BY <2>1 DEF PutIsSafe, Stored
<1> QED
  BY <1>3, <1>4
-----------------------------------------------------------------------------
(* Types *)

\* A command that has stored or found its object goes on to the next.
LEMMA NextType ==
  ASSUME TypeInv, NEW c \in Commands, Running(c), NEW n \in {0, 1}, NextObject(c, n),
         store' \in Contents
  PROVE  TypeInv'
<1>1. at[c] \in Nat \ {0} /\ at[c] <= Len(Objects[c]) /\ Len(Objects[c]) \in Nat \ {0}
  BY ObjectDomain DEF TypeInv
<1>2. at' = [at EXCEPT ![c] = at[c] + 1]
  BY DEF NextObject
<1>r. report' \in [Commands -> Reports]
  <2>1. Current(c) \in Object /\ report[c] \in Reports
    BY CurrentType DEF TypeInv
  <2>2. Observed(report[c], Current(c), n) \in Reports
    BY <2>1 DEF Observed, Object, Reports
  <2> QED
    BY <2>2 DEF NextObject, TypeInv
<1>3. CASE at[c] = Len(Objects[c])
  <2>1. pc' = [pc EXCEPT ![c] = "done"]
    BY <1>3 DEF NextObject, Goto
  <2> QED
    BY <1>1, <1>2, <1>r, <1>3, <2>1, ObjectDomain DEF TypeInv, Labels, Running
<1>4. CASE at[c] # Len(Objects[c])
  <2>1. pc' = [pc EXCEPT ![c] = "stat"]
    BY <1>4 DEF NextObject, Goto
  <2> QED
    BY <1>1, <1>2, <1>r, <1>4, <2>1, ObjectDomain DEF TypeInv, Labels, Running
<1> QED
  BY <1>1, <1>3, <1>4

\* A running command goes to another label that is not done, and stays where it is.
LEMMA GotoType ==
  ASSUME TypeInv, NEW c \in Commands, Running(c), NEW label \in {"put", "failed"},
         Goto(c, label), UNCHANGED <<at, report>>, store' \in Contents
  PROVE  TypeInv'
<1>1. at[c] <= Len(Objects[c]) /\ at[c] \in Nat /\ Len(Objects[c]) \in Nat
  BY ObjectDomain DEF TypeInv
<1>2. pc' = [pc EXCEPT ![c] = label] /\ label # "done"
  BY DEF Goto
<1> QED
  BY <1>1, <1>2 DEF TypeInv, Labels, Running

\* The bucket after the current object of a running command was put.
LEMMA PutType ==
  ASSUME TypeInv, NEW c \in Commands, Running(c),
         store' = [store EXCEPT ![Current(c).name] = Current(c).bytes]
  PROVE  store' \in Contents
BY CurrentType DEF TypeInv, Contents

\* Every step keeps the types.
LEMMA TypeStep == TypeInv /\ [Next]_vars => TypeInv'
<1> SUFFICES ASSUME TypeInv, [Next]_vars PROVE TypeInv'
  OBVIOUS
<1>0. store \in Contents
  BY DEF TypeInv
<1>1. ASSUME NEW c \in Commands, Start(c) PROVE TypeInv'
  <2>1. pc' = [pc EXCEPT ![c] = "stat"] /\ at' = [at EXCEPT ![c] = 1] /\ store' = store
    BY <1>1 DEF Start, Goto
  <2>3. report' \in [Commands -> Reports]
    BY <1>1 DEF Start, TypeInv, NoReport, Reports
  <2>2. 1 <= Len(Objects[c]) /\ Len(Objects[c]) \in Nat
    BY ObjectDomain
  <2>4. at \in [Commands -> Nat \ {0}] /\ pc \in [Commands -> Labels]
    BY DEF TypeInv
  <2>5. ASSUME NEW d \in Commands
        PROVE  /\ (Running(d)' => at'[d] <= Len(Objects[d])) /\ at'[d] <= Len(Objects[d]) + 1
               /\ pc'[d] = "done" <=> at'[d] > Len(Objects[d])
    BY <2>1, <2>2, <2>4 DEF TypeInv, Running
  <2> QED
    BY <1>0, <2>1, <2>3, <2>4, <2>5 DEF TypeInv, Labels
<1>2. ASSUME NEW c \in Commands, StatAbsent(c) \/ Refuse(c) PROVE TypeInv'
  BY <1>0, <1>2, GotoType DEF StatAbsent, Refuse, Running
<1>3. ASSUME NEW c \in Commands, StatSame(c) PROVE TypeInv'
  BY <1>0, <1>3, NextType DEF StatSame, Running
<1>4. ASSUME NEW c \in Commands, Put(c) PROVE TypeInv'
  BY <1>4, NextType, PutType DEF Put, Running
<1>5. ASSUME NEW c \in Commands, Dies(c) PROVE TypeInv'
  <2>1. Running(c) /\ Goto(c, "failed") /\ UNCHANGED <<at, report>>
    BY <1>5 DEF Dies, Running
  <2>2. store' \in Contents
    BY <1>0, <1>5, <2>1, PutType DEF Dies
  <2> QED
    BY <2>1, <2>2, GotoType
<1>6. CASE UNCHANGED vars
  BY <1>6 DEF vars, TypeInv, Running
<1> QED
  BY <1>1, <1>2, <1>3, <1>4, <1>5, <1>6 DEF Next, Step

\* Types hold in every behaviour.
LEMMA Types == Spec => []TypeInv
<1>1. Init => TypeInv
  BY ObjectDomain DEF Init, TypeInv, Labels, Running, Contents, NoReport, Reports
<1> QED
  BY <1>1, TypeStep, PTL DEF Spec

\* Type correctness, and a command is done exactly when it is past its last object.
THEOREM Typing == Spec => []TypeOK
<1>1. TypeInv => TypeOK
  BY ObjectDomain DEF TypeInv, TypeOK, Labels, Contents, Reports
<1> QED
  BY <1>1, Types, PTL

-----------------------------------------------------------------------------
(* The bucket *)

\* A step that does not touch the bucket and leaves nobody more running than
\* before, in which only c moves, and c has behind it what it had.
LEMMA QuietStep ==
  ASSUME IInv, NEW c \in Commands, UNCHANGED store,
         \A d \in Commands \ {c} : pc'[d] = pc[d] /\ at'[d] = at[d],
         Running(c)' => Running(c),
         Behind(c)', PutIsSafe(c)'
  PROVE  RunApart' /\ \A d \in Commands : (Behind(d) /\ PutIsSafe(d))'
<1>1. RunApart'
  BY DEF IInv, RunApart, Running
<1>2. ASSUME NEW d \in Commands, d # c PROVE (Behind(d) /\ PutIsSafe(d))'
  <2>1. pc'[d] = pc[d] /\ at'[d] = at[d] /\ Behind(d) /\ PutIsSafe(d)
    BY <1>2 DEF IInv
  <2> QED
    BY <2>1 DEF Behind, PutIsSafe, Stored, Current
<1> QED
  BY <1>1, <1>2

\* What a command has behind it after it went on from an object the bucket has.
LEMMA BehindNext ==
  ASSUME TypeInv, NEW c \in Commands, Running(c), Behind(c),
         NEW n \in {0, 1}, NextObject(c, n), StoreGrows,
         store'[Current(c).name] = Current(c).bytes
  PROVE  Behind(c)' /\ PutIsSafe(c)' /\ at'[c] = at[c] + 1
<1>1. at'[c] = at[c] + 1 /\ at[c] \in Nat /\ pc'[c] \in {"done", "stat"}
  BY DEF NextObject, Goto, TypeInv
<1>2. ASSUME NEW i \in DOMAIN Objects[c], i < at[c] + 1
      PROVE  store'[Objects[c][i].name] = Objects[c][i].bytes
  <2>1. CASE i = at[c]
    BY <2>1 DEF Current
  <2>2. CASE i # at[c]
    <3>1. i < at[c]
      BY <1>1, <1>2, <2>2, ObjectDomain
    <3>2. store[Objects[c][i].name] = Objects[c][i].bytes
      BY <3>1 DEF Behind, Running
    <3> QED
      BY <3>2, ObjectType DEF StoreGrows
  <2> QED
    BY <2>1, <2>2
<1> QED
  BY <1>1, <1>2 DEF Behind, PutIsSafe

\* The bucket only grows, and the invariant is kept, as the types are.
LEMMA BucketStep ==
  ConflictsApart /\ IInv /\ [Next]_vars => IInv' /\ StoreGrows
<1> SUFFICES ASSUME ConflictsApart, IInv, [Next]_vars PROVE IInv' /\ StoreGrows
  OBVIOUS
<1>0. TypeInv /\ TypeInv' /\ RunApart
  BY TypeStep DEF IInv
<1> DEFINE Rest == RunApart' /\ \A d \in Commands : (Behind(d) /\ PutIsSafe(d))'
<1>s. UNCHANGED store => StoreGrows
  BY DEF StoreGrows
<1>1. ASSUME NEW c \in Commands, Start(c) PROVE Rest /\ StoreGrows
  <2>1. /\ pc' = [pc EXCEPT ![c] = "stat"] /\ at' = [at EXCEPT ![c] = 1] /\ UNCHANGED store
        /\ \A d \in Commands : {c, d} \in Apart => ~Running(d)
    BY <1>1 DEF Start, Goto, Running
  <2>2. pc'[c] = "stat" /\ at'[c] = 1
        /\ \A d \in Commands \ {c} : pc'[d] = pc[d] /\ at'[d] = at[d]
    BY <1>0, <2>1 DEF TypeInv
  <2>3. RunApart'
    <3> SUFFICES ASSUME NEW d \in Commands, NEW e \in Commands, d # e, {d, e} \in Apart,
                        Running(d)', Running(e)'
                 PROVE  FALSE
      BY DEF RunApart
    <3>1. CASE d = c
      BY <2>1, <2>2, <3>1 DEF Running
    <3>2. CASE e = c
      <4>1. {c, d} \in Apart
        BY <3>2, {d, e} = {e, d}
      <4> QED
        BY <2>1, <2>2, <3>2, <4>1 DEF Running
    <3>3. CASE d # c /\ e # c
      BY <1>0, <2>2, <3>3 DEF RunApart, Running
    <3> QED
      BY <3>1, <3>2, <3>3
  <2>4. (Behind(c) /\ PutIsSafe(c))'
    BY <2>2, ObjectDomain DEF Behind, PutIsSafe
  <2>5. ASSUME NEW d \in Commands, d # c PROVE (Behind(d) /\ PutIsSafe(d))'
    <3>1. pc'[d] = pc[d] /\ at'[d] = at[d] /\ Behind(d) /\ PutIsSafe(d)
      BY <2>2, <2>5 DEF IInv
    <3> QED
      BY <2>1, <3>1 DEF Behind, PutIsSafe, Stored, Current
  <2> QED
    BY <1>s, <2>1, <2>3, <2>4, <2>5
<1>2. ASSUME NEW c \in Commands, StatAbsent(c) PROVE Rest /\ StoreGrows
  <2>1. pc[c] = "stat" /\ pc' = [pc EXCEPT ![c] = "put"] /\ UNCHANGED <<store, at>>
    BY <1>2 DEF StatAbsent, Goto
  <2>2. Stored(c) = Absent
    BY <1>2 DEF StatAbsent
  <2>3. (Behind(c) /\ PutIsSafe(c))'
    BY <1>0, <2>1, <2>2 DEF IInv, Behind, PutIsSafe, Stored, Current
  <2>4. Running(c) /\ \A d \in Commands \ {c} : pc'[d] = pc[d] /\ at'[d] = at[d]
    BY <1>0, <2>1 DEF TypeInv, Running
  <2> QED
    BY <1>s, <2>1, <2>3, <2>4, QuietStep
<1>3. ASSUME NEW c \in Commands, StatSame(c) PROVE Rest /\ StoreGrows
  <2>1. /\ Running(c) /\ NextObject(c, 0) /\ UNCHANGED store
        /\ store'[Current(c).name] = Current(c).bytes /\ Behind(c)
    BY <1>3 DEF StatSame, SameBytes, Stored, Running, IInv
  <2>2. Behind(c)' /\ PutIsSafe(c)'
    BY <1>0, <1>s, <2>1, BehindNext
  <2>3. \A d \in Commands \ {c} : pc'[d] = pc[d] /\ at'[d] = at[d]
    BY <1>0, <2>1 DEF TypeInv, NextObject, Goto
  <2> QED
    BY <1>s, <2>1, <2>2, <2>3, QuietStep
<1>4. ASSUME NEW c \in Commands, Refuse(c) PROVE Rest /\ StoreGrows
  <2>1. /\ Running(c) /\ pc' = [pc EXCEPT ![c] = "failed"] /\ UNCHANGED <<store, at>>
    BY <1>4 DEF Refuse, Goto, Running
  <2>2. pc'[c] = "failed" /\ \A d \in Commands \ {c} : pc'[d] = pc[d] /\ at'[d] = at[d]
    BY <1>0, <2>1 DEF TypeInv
  <2>3. (Behind(c) /\ PutIsSafe(c))'
    BY <2>2 DEF Behind, PutIsSafe
  <2> QED
    BY <1>s, <2>1, <2>2, <2>3, QuietStep
<1>5. ASSUME NEW c \in Commands, pc[c] = "put", Behind(c)', PutIsSafe(c)',
             store' = [store EXCEPT ![Current(c).name] = Current(c).bytes],
             \A d \in Commands \ {c} : pc'[d] = pc[d] /\ at'[d] = at[d]
      PROVE  Rest /\ StoreGrows
  <2>1. PutIsSafe(c) /\ StoreGrows
    BY <1>0, <1>5, SafePut DEF IInv
  <2>2. RunApart'
    BY <1>0, <1>5 DEF RunApart, Running
  <2>3. ASSUME NEW d \in Commands, d # c PROVE (Behind(d) /\ PutIsSafe(d))'
    <3>1. pc'[d] = pc[d] /\ at'[d] = at[d] /\ Behind(d) /\ PutIsSafe(d)
      BY <1>5, <2>3 DEF IInv
    <3> QED
      BY <1>0, <1>5, <2>1, <2>3, <3>1, BehindStays, PutStaysSafe
  <2> QED
    BY <1>5, <2>1, <2>2, <2>3
<1>6. ASSUME NEW c \in Commands, Put(c) PROVE Rest /\ StoreGrows
  <2>1. /\ pc[c] = "put" /\ Running(c) /\ NextObject(c, 1) /\ Behind(c) /\ PutIsSafe(c)
        /\ store' = [store EXCEPT ![Current(c).name] = Current(c).bytes]
    BY <1>6 DEF Put, Running, IInv
  <2>2. StoreGrows /\ store'[Current(c).name] = Current(c).bytes
    BY <1>0, <2>1, SafePut
  <2>3. Behind(c)' /\ PutIsSafe(c)'
    BY <1>0, <2>1, <2>2, BehindNext
  <2>4. \A d \in Commands \ {c} : pc'[d] = pc[d] /\ at'[d] = at[d]
    BY <1>0, <2>1 DEF TypeInv, NextObject, Goto
  <2> QED
    BY <1>5, <2>1, <2>3, <2>4
<1>7. ASSUME NEW c \in Commands, Dies(c) PROVE Rest /\ StoreGrows
  <2>1. Running(c) /\ pc' = [pc EXCEPT ![c] = "failed"] /\ UNCHANGED at
    BY <1>7 DEF Dies, Goto, Running
  <2>2. pc'[c] = "failed" /\ \A d \in Commands \ {c} : pc'[d] = pc[d] /\ at'[d] = at[d]
    BY <1>0, <2>1 DEF TypeInv
  <2>3. (Behind(c) /\ PutIsSafe(c))'
    BY <2>2 DEF Behind, PutIsSafe
  <2>4. CASE UNCHANGED store
    BY <1>s, <2>1, <2>2, <2>3, <2>4, QuietStep
  <2>5. CASE pc[c] = "put" /\ store' = [store EXCEPT ![Current(c).name] = Current(c).bytes]
    BY <1>5, <2>2, <2>3, <2>5
  <2> QED
    BY <1>7, <2>4, <2>5 DEF Dies
<1>8. CASE UNCHANGED vars
  <2>1. store' = store /\ pc' = pc /\ at' = at
    BY <1>8 DEF vars
  <2>2. RunApart'
    BY <1>0, <2>1 DEF RunApart, Running
  <2>3. ASSUME NEW d \in Commands PROVE (Behind(d) /\ PutIsSafe(d))'
    BY <2>1 DEF IInv, Behind, PutIsSafe, Stored, Current
  <2> QED
    BY <1>0, <1>s, <2>1, <2>2, <2>3 DEF IInv
<1> QED
  BY <1>0, <1>1, <1>2, <1>3, <1>4, <1>6, <1>7, <1>8 DEF Next, Step, IInv

\* So does the invariant.
LEMMA Bucket == ConflictsApart => (Spec => []IInv)
<1> SUFFICES ASSUME ConflictsApart PROVE Spec => []IInv
  OBVIOUS
<1>1. Init => IInv
  <2> SUFFICES ASSUME Init PROVE IInv
    OBVIOUS
  <2>1. TypeInv
    BY ObjectDomain DEF Init, TypeInv, Labels, Running, Contents, NoReport, Reports
  <2> QED
    BY <2>1 DEF Init, IInv, RunApart, Running, Behind, PutIsSafe
<1>2. IInv /\ [Next]_vars => IInv'
  BY BucketStep
<1> QED
  BY <1>1, <1>2, PTL DEF Spec

\* As long as commands that disagree run apart, an object that was stored never
\* changes: stat-then-put is as good as an atomic put-if-absent.
THEOREM Immutable == ConflictsApart => (Spec => ObjectsAreImmutable)
<1> SUFFICES ASSUME ConflictsApart PROVE Spec => ObjectsAreImmutable
  OBVIOUS
<1>1. IInv /\ [Next]_vars => [\A n \in Names : store[n] # Absent => store'[n] = store[n]]_vars
  BY BucketStep DEF StoreGrows
<1> QED
  BY <1>1, Bucket, PTL DEF Spec, ObjectsAreImmutable

\* Under the same condition the bucket holds all objects of every command that
\* ended well, whatever ran before, beside and after it.
THEOREM DoneStored == ConflictsApart => (Spec => []DoneIsStored)
<1> SUFFICES ASSUME ConflictsApart PROVE Spec => []DoneIsStored
  OBVIOUS
<1>1. IInv => DoneIsStored
  <2> SUFFICES ASSUME IInv, NEW c \in Commands, pc[c] = "done", NEW i \in DOMAIN Objects[c]
               PROVE  store[Objects[c][i].name] = Objects[c][i].bytes
    BY DEF DoneIsStored
  <2>1. at[c] > Len(Objects[c]) /\ at[c] \in Nat /\ Behind(c)
    BY DEF IInv, TypeInv
  <2>2. i < at[c]
    BY <2>1, ObjectDomain
  <2> QED
    BY <2>1, <2>2 DEF Behind
<1> QED
  BY <1>1, Bucket, PTL

-----------------------------------------------------------------------------
(* Induction and sums *)

\* Numbers up to n are reached one after the other.
LEMMA Induction ==
  ASSUME NEW n \in Nat, NEW G, 0 \in G, \A i \in 0..(n - 1) : i \in G => i + 1 \in G
  PROVE  \A i \in 0..n : i \in G
<1> DEFINE Bad == {i \in Nat : i <= n /\ i \notin G}
<1> SUFFICES ASSUME Bad # {} PROVE FALSE
  OBVIOUS
<1>1. PICK m \in Bad : \A i \in Bad : ~(<<i, m>> \in OpToRel(<, Nat))
  <2>1. Bad \subseteq Nat
    OBVIOUS
  <2> HIDE DEF Bad
  <2> QED BY <2>1, NatLessThanWellFounded, WFMin
<1>2. m \in Nat /\ m # 0 /\ m <= n /\ m \notin G
  OBVIOUS
<1>3. m - 1 \in Nat /\ m - 1 < m /\ m - 1 \in 0..(n - 1)
  BY <1>2
<1>4. m - 1 \in G
  <2>1. <<m - 1, m>> \in OpToRel(<, Nat)
    BY <1>2, <1>3 DEF OpToRel
  <2>2. m - 1 \notin Bad
    BY <1>1, <2>1
  <2> QED BY <1>2, <1>3, <2>2
<1> QED BY <1>2, <1>3, <1>4

\* Finite sets are built one element after the other.
LEMMA SetInduction ==
  ASSUME NEW S, IsFiniteSet(S), NEW G, {} \in G,
         \A s \in SUBSET S : s # {} /\ (\A x \in s : s \ {x} \in G) => s \in G
  PROVE  \A s \in SUBSET S : s \in G
<1>0. Cardinality(S) \in Nat /\ \A s \in SUBSET S : IsFiniteSet(s) /\ Cardinality(s) \in Nat /\ Cardinality(s) <= Cardinality(S)
  BY FS_CardinalityType, FS_Subset
<1> DEFINE Small(n) == \A s \in SUBSET S : Cardinality(s) <= n => s \in G
           N == {n \in Nat : Small(n)}
<1>1. \A s \in SUBSET S : s = {} <=> Cardinality(s) = 0
  BY <1>0, FS_EmptySet
<1>2. 0 \in N
  <2>1. ASSUME NEW s \in SUBSET S, Cardinality(s) <= 0 PROVE s \in G
    <3>1. Cardinality(s) = 0
      BY <1>0, <2>1
    <3> QED BY <1>1, <3>1
  <2>2. Small(0)
    BY <2>1
  <2> HIDE DEF Small
  <2> QED BY <2>2
<1>3. ASSUME NEW n \in Nat, n \in N PROVE n + 1 \in N
  <2>1. \A s \in SUBSET S : Cardinality(s) <= n => s \in G
    BY <1>3
  <2>2. ASSUME NEW s \in SUBSET S, Cardinality(s) <= n + 1 PROVE s \in G
    <3>1. CASE s = {}
      BY <3>1
    <3>2. CASE s # {}
      <4>1. ASSUME NEW x \in s PROVE s \ {x} \in G
        <5>1. Cardinality(s \ {x}) = Cardinality(s) - 1
          BY <1>0, FS_RemoveElement
        <5>2. Cardinality(s) \in Nat /\ Cardinality(s) - 1 <= n
          BY <1>0, <2>2
        <5> QED BY <2>1, <5>1, <5>2
      <4> QED BY <3>2, <4>1
    <3> QED BY <3>1, <3>2
  <2>3. Small(n + 1)
    BY <2>2
  <2> HIDE DEF Small
  <2> QED BY <2>3
<1>4. \A i \in 0 .. Cardinality(S) : i \in N
  <2> HIDE DEF N
  <2> QED BY <1>0, <1>2, <1>3, Induction
<1>5. Small(Cardinality(S))
  <2>1. Cardinality(S) \in N
    <3> HIDE DEF N
    <3> QED BY <1>0, <1>4
  <2> QED BY <2>1
<1> QED BY <1>0, <1>5

\* The iteration of MapThenFoldSet that adds the weights of a set to base.
Adds(g, w, base, S) ==
  g = [s \in SUBSET S |-> IF s = {} THEN base
                          ELSE LET x == CHOOSE x \in s : TRUE IN w[x] + g[s \ {x}]]

\* There is such an iteration.
LEMMA AddsExists ==
  ASSUME NEW S, IsFiniteSet(S), NEW w, NEW base
  PROVE  \E g : Adds(g, w, base, S)
<1> DEFINE Upto(n) == {s \in SUBSET S : Cardinality(s) <= n}
           Iterate(g, s) == IF s = {} THEN base ELSE LET x == CHOOSE x \in s : TRUE IN w[x] + g[s \ {x}]
           Part(g, n) == \A s \in Upto(n) : g[s] = Iterate(g, s)
           N == Cardinality(S)
           G == {n \in 0..N : \E g : DOMAIN g = Upto(n) /\ Part(g, n)}
<1>0. N \in Nat /\ \A s \in SUBSET S : IsFiniteSet(s) /\ Cardinality(s) \in Nat /\ Cardinality(s) <= N
  BY FS_CardinalityType, FS_Subset
<1> HIDE DEF N
<1>1. \A s \in SUBSET S : s # {} => LET x == CHOOSE x \in s : TRUE
        IN  x \in s /\ s \ {x} \in SUBSET S /\ Cardinality(s \ {x}) = Cardinality(s) - 1 /\ Cardinality(s) # 0
  <2> TAKE s \in SUBSET S
  <2> HAVE s # {}
  <2>1. PICK x : x = CHOOSE y \in s : TRUE
    OBVIOUS
  <2>2. x \in s /\ s \ {x} \in SUBSET S
    BY <2>1
  <2>3. Cardinality(s \ {x}) = Cardinality(s) - 1
    BY <1>0, <2>2, FS_RemoveElement
  <2>4. Cardinality(s) # 0
    BY <1>0, FS_EmptySet
  <2> QED BY <2>1, <2>2, <2>3, <2>4
<1>2. 0 \in G
  <2> DEFINE g == [s \in Upto(0) |-> base]
  <2>1. \A s \in Upto(0) : s = {}
    <3> TAKE s \in Upto(0)
    <3>1. s \in SUBSET S /\ Cardinality(s) <= 0 /\ Cardinality(s) \in Nat
      BY <1>0
    <3>2. Cardinality(s) = 0
      BY <3>1
    <3>3. s # {} => Cardinality(s) # 0
      <4> HAVE s # {}
      <4> QED BY <1>1, <3>1
    <3> QED BY <3>2, <3>3
  <2>2. Part(g, 0)
    BY <2>1
  <2>3. DOMAIN g = Upto(0)
    OBVIOUS
  <2>4. \E f : DOMAIN f = Upto(0) /\ Part(f, 0)
    <3> HIDE DEF g, Part, Upto
    <3> QED BY <2>2, <2>3
  <2>5. 0 \in 0..N
    BY <1>0
  <2> HIDE DEF Part, Upto
  <2> QED BY <2>4, <2>5
<1>3. ASSUME NEW n \in 0..(N - 1), n \in G PROVE n + 1 \in G
  <2>1. PICK g : DOMAIN g = Upto(n) /\ Part(g, n)
    BY <1>3
  <2> DEFINE h == [s \in Upto(n + 1) |-> IF Cardinality(s) <= n THEN g[s] ELSE Iterate(g, s)]
  <2>2. ASSUME NEW s \in Upto(n + 1) PROVE h[s] = Iterate(h, s)
    <3>1. CASE s = {}
      <4>1. s \in Upto(n)
        BY <1>0, <3>1, FS_EmptySet
      <4>2. g[s] = Iterate(g, s)
        BY <2>1, <4>1
      <4> QED BY <2>2, <3>1, <4>1, <4>2
    <3>2. CASE s # {}
      <4>1. PICK x : x = CHOOSE y \in s : TRUE
        OBVIOUS
      <4>2. s \ {x} \in SUBSET S /\ Cardinality(s \ {x}) = Cardinality(s) - 1 /\ s \in SUBSET S
        BY <1>1, <2>2, <3>2, <4>1
      <4>3. s \ {x} \in Upto(n) /\ s \ {x} \in Upto(n + 1) /\ Cardinality(s \ {x}) <= n
        BY <1>0, <1>3, <2>2, <4>2
      <4>4. h[s \ {x}] = g[s \ {x}]
        BY <4>3
      <4>5. h[s] = Iterate(g, s)
        <5>1. CASE Cardinality(s) <= n
          <6>1. s \in Upto(n) /\ h[s] = g[s]
            BY <2>2, <5>1, <4>2
          <6> QED BY <2>1, <6>1
        <5>2. CASE ~(Cardinality(s) <= n)
          BY <2>2, <5>2
        <5> QED BY <5>1, <5>2
      <4>6. Iterate(g, s) = w[x] + g[s \ {x}] /\ Iterate(h, s) = w[x] + h[s \ {x}]
        <5> HIDE DEF h
        <5> QED BY <3>2, <4>1
      <4> HIDE DEF h, Iterate
      <4> QED BY <4>4, <4>5, <4>6
    <3> QED BY <3>1, <3>2
  <2>3. DOMAIN h = Upto(n + 1)
    OBVIOUS
  <2>4. Part(h, n + 1)
    <3> HIDE DEF h, Iterate
    <3> QED BY <2>2
  <2>5. \E f : DOMAIN f = Upto(n + 1) /\ Part(f, n + 1)
    <3> HIDE DEF h, Part, Upto
    <3> QED BY <2>3, <2>4
  <2>6. n + 1 \in 0..N
    BY <1>0
  <2> HIDE DEF Part, Upto
  <2> QED BY <2>5, <2>6
<1>4. N \in G
  <2> HIDE DEF G
  <2> QED BY <1>0, <1>2, <1>3, Induction
<1>5. PICK g : DOMAIN g = Upto(N) /\ Part(g, N)
  BY <1>4
<1>6. Upto(N) = SUBSET S
  BY <1>0
<1> DEFINE h == [s \in SUBSET S |-> Iterate(g, s)]
<1>7. \A s \in SUBSET S : h[s] = g[s]
  BY <1>5, <1>6
<1>8. ASSUME NEW s \in SUBSET S PROVE Iterate(h, s) = Iterate(g, s)
  <2>1. CASE s = {}
    BY <2>1
  <2>2. CASE s # {}
    <3>1. PICK x : x = CHOOSE y \in s : TRUE
      OBVIOUS
    <3>2. h[s \ {x}] = g[s \ {x}]
      BY <1>7
    <3> HIDE DEF h
    <3> QED BY <2>2, <3>1, <3>2
  <2> QED BY <2>1, <2>2
<1>9. h = [s \in SUBSET S |-> Iterate(h, s)]
  <2>1. h = [s \in SUBSET S |-> h[s]] /\ \A s \in SUBSET S : h[s] = Iterate(g, s)
    OBVIOUS
  <2> HIDE DEF h, Iterate
  <2> QED BY <1>8, <2>1
<1>10. Adds(h, w, base, S)
  <2> HIDE DEF h
  <2> QED BY <1>9 DEF Adds
<1> HIDE DEF h
<1> QED BY <1>10

\* What it is for a set.
LEMMA AddsIs ==
  ASSUME NEW S, NEW w, NEW base, NEW g, Adds(g, w, base, S), NEW s \in SUBSET S
  PROVE  /\ s = {} => g[s] = base
         /\ s # {} => \E x \in s : g[s] = w[x] + g[s \ {x}]
<1>1. g[s] = IF s = {} THEN base ELSE LET x == CHOOSE x \in s : TRUE IN w[x] + g[s \ {x}]
  BY DEF Adds
<1>2. PICK x : x = CHOOSE y \in s : TRUE
  OBVIOUS
<1>3. s # {} => x \in s /\ g[s] = w[x] + g[s \ {x}]
  BY <1>1, <1>2
<1> QED BY <1>1, <1>3

\* A sum of natural numbers is none of them less.
LEMMA AddsAtLeast ==
  ASSUME NEW S, IsFiniteSet(S), NEW w, NEW base \in Nat, \A x \in S : w[x] \in Nat,
         NEW g, Adds(g, w, base, S)
  PROVE  g[S] \in Nat /\ base <= g[S] /\ \A x \in S : w[x] <= g[S]
<1> DEFINE AtLeast(s) == g[s] \in Nat /\ base <= g[s] /\ \A x \in s : w[x] <= g[s]
           G == {s \in SUBSET S : AtLeast(s)}
<1>1. {} \in G
  <2>1. g[{}] = base
    BY AddsIs
  <2> QED BY <2>1
<1>2. ASSUME NEW s \in SUBSET S, s # {}, \A x \in s : s \ {x} \in G PROVE s \in G
  <2>1. PICK x \in s : g[s] = w[x] + g[s \ {x}]
    BY <1>2, AddsIs
  <2>2. g[s \ {x}] \in Nat /\ base <= g[s \ {x}] /\ \A y \in s \ {x} : w[y] <= g[s \ {x}]
    BY <1>2
  <2>3. w[x] \in Nat /\ \A y \in s : w[y] \in Nat
    OBVIOUS
  <2>4. g[s] \in Nat /\ base <= g[s] /\ w[x] <= g[s] /\ g[s \ {x}] <= g[s]
    BY <2>1, <2>2, <2>3
  <2>5. \A y \in s : w[y] <= g[s]
    BY <2>2, <2>3, <2>4
  <2> QED BY <2>4, <2>5
<1>3. \A s \in SUBSET S : s \in G
  <2> HIDE DEF G
  <2> QED BY <1>1, <1>2, SetInduction
<1> QED BY <1>3

-----------------------------------------------------------------------------
(* StreamPublisher *)

CONSTANT QueueLimit
VARIABLES next, queue, reports, acked, errors

Publisher == INSTANCE StreamPublisher

Messages == 1 .. Publisher!Count
Ended(e) == phase[e] \in {"done", "failed"}

PublisherTypes ==
  /\ phase \in [Executions -> {"prepare", "publish", "flush", "done", "failed"}]
  /\ next \in [Executions -> 1 .. Publisher!Count + 1]
  /\ queue \in [Executions -> [Partitions -> Seq(Messages)]]
  /\ reports \in [Executions -> [ok : Nat, failed : Nat]]
  /\ acked \in [Executions -> Nat] /\ errors \in [Executions -> Nat]
  /\ log \in [Partitions -> Seq(Executions \X Messages)]

\* An execution has published what comes before next, and holds nothing once it ended.
Progress(e) ==
  /\ phase[e] = "prepare" => next[e] = 1
  /\ phase[e] = "publish" => next[e] \in Messages
  /\ phase[e] \in {"flush", "done"} => next[e] = Publisher!Count + 1
  /\ phase[e] = "done" => errors[e] = 0 /\ reports[e].failed = 0
  /\ Ended(e) => \A p \in Partitions : queue[e][p] = <<>>

\* Of the messages before n of an execution e, l says which are in partition p and q
\* which are on their way to it: in order, the former before the latter, and no others.
InOrder(l, q, e, p, n) ==
  /\ \A k \in DOMAIN q : q[k] < n /\ PartitionOf[q[k]] = p
  /\ \A j, k \in DOMAIN q : j < k => q[j] < q[k]
  /\ \A k \in DOMAIN l : l[k][1] = e => l[k][2] < n /\ PartitionOf[l[k][2]] = p
  /\ \A j, k \in DOMAIN l : j < k /\ l[j][1] = e /\ l[k][1] = e => l[j][2] < l[k][2]
  /\ \A k \in DOMAIN l, m \in DOMAIN q : l[k][1] = e => l[k][2] < q[m]

\* A message of e on its way or in the partition.
Held(l, q, e, i) ==
  \/ \E k \in DOMAIN q : q[k] = i
  \/ \E k \in DOMAIN l : l[k] = <<e, i>>

\* As long as no message was given up, none is lost.
NothingLost(e) ==
  phase[e] # "failed" /\ errors[e] = 0 /\ reports[e].failed = 0 =>
    \A i \in 1 .. next[e] - 1 : Held(log[PartitionOf[i]], queue[e][PartitionOf[i]], e, i)

PublisherInv ==
  /\ PublisherTypes
  /\ \A e \in Executions : Progress(e) /\ NothingLost(e)
  /\ \A e \in Executions, p \in Partitions : InOrder(log[p], queue[e][p], e, p, next[e])

-----------------------------------------------------------------------------
(* Sequences of messages *)

\* What a queue holds.
LEMMA QueueEntries ==
  ASSUME NEW q \in Seq(Messages)
  PROVE  \A k \in DOMAIN q : q[k] \in Messages /\ q[k] \in Int
<1>1. \A m \in Messages : m \in Int
  BY DEF Messages
<1> QED BY <1>1

\* What a partition holds.
LEMMA LogEntries ==
  ASSUME NEW l \in Seq(Executions \X Messages)
  PROVE  \A k \in DOMAIN l : l[k][1] \in Executions /\ l[k][2] \in Messages /\ l[k][2] \in Int
<1>1. \A m \in Messages : m \in Int
  BY DEF Messages
<1> QED BY <1>1

\* A message put into the queue is younger than those before it.
LEMMA OrderWhenQueued ==
  ASSUME NEW l \in Seq(Executions \X Messages), NEW q \in Seq(Messages), NEW e, NEW p,
         NEW n \in Messages, InOrder(l, q, e, p, n)
  PROVE  /\ InOrder(l, q, e, p, n + 1)
         /\ PartitionOf[n] = p => InOrder(l, Append(q, n), e, p, n + 1)
<1>1. \A k \in DOMAIN q : q[k] \in Messages /\ q[k] \in Int
  BY QueueEntries
<1>2. \A k \in DOMAIN l : l[k][2] \in Messages /\ l[k][2] \in Int
  BY LogEntries
<1>3. n \in Int
  BY DEF Messages
<1>4. InOrder(l, q, e, p, n + 1)
  BY <1>1, <1>2, <1>3 DEF InOrder
<1>5. ASSUME PartitionOf[n] = p PROVE InOrder(l, Append(q, n), e, p, n + 1)
  <2>1. PICK s : s = Append(q, n)
    OBVIOUS
  <2>2. /\ Len(q) \in Nat /\ DOMAIN q = 1 .. Len(q) /\ DOMAIN s = 1 .. Len(q) + 1
        /\ s[Len(q) + 1] = n /\ \A k \in DOMAIN q : s[k] = q[k]
    BY <2>1
  <2>3. \A k \in DOMAIN s : k \in DOMAIN q \/ k = Len(q) + 1
    BY <2>2
  <2>4. InOrder(l, s, e, p, n + 1)
    BY <1>1, <1>2, <1>3, <1>5, <2>2, <2>3 DEF InOrder
  <2> QED BY <2>1, <2>4
<1> QED BY <1>4, <1>5

\* The oldest message of the queue leaves it, and may be in the partition.
LEMMA OrderWhenLeaving ==
  ASSUME NEW l \in Seq(Executions \X Messages), NEW q \in Seq(Messages), q # <<>>,
         NEW e \in Executions, NEW p, NEW n \in Nat, InOrder(l, q, e, p, n)
  PROVE  /\ InOrder(l, Tail(q), e, p, n)
         /\ InOrder(Append(l, <<e, Head(q)>>), Tail(q), e, p, n)
<1>1. \A k \in DOMAIN q : q[k] \in Messages /\ q[k] \in Int
  BY QueueEntries
<1>2. \A k \in DOMAIN l : l[k][2] \in Messages /\ l[k][2] \in Int
  BY LogEntries
<1>3. PICK t : t = Tail(q)
  OBVIOUS
<1>4. /\ DOMAIN t = 1 .. Len(q) - 1 /\ DOMAIN q = 1 .. Len(q) /\ Len(q) \in Nat \ {0}
      /\ \A k \in DOMAIN t : t[k] = q[k + 1] /\ k + 1 \in DOMAIN q
      /\ 1 \in DOMAIN q /\ Head(q) = q[1]
  BY <1>3
<1>5. /\ \A k \in DOMAIN t : t[k] < n /\ PartitionOf[t[k]] = p /\ t[k] \in Int /\ q[1] < t[k]
      /\ \A j, k \in DOMAIN t : j < k => t[j] < t[k]
      /\ \A k \in DOMAIN l, m \in DOMAIN t : l[k][1] = e => l[k][2] < t[m]
  BY <1>1, <1>2, <1>4 DEF InOrder
<1>6. InOrder(l, t, e, p, n)
  BY <1>5 DEF InOrder
<1>7. PICK h : h = Append(l, <<e, q[1]>>)
  OBVIOUS
<1>8. /\ DOMAIN h = 1 .. Len(l) + 1 /\ DOMAIN l = 1 .. Len(l) /\ Len(l) \in Nat
      /\ h[Len(l) + 1] = <<e, q[1]>> /\ \A k \in DOMAIN l : h[k] = l[k]
  BY <1>4, <1>7
<1>9. \A k \in DOMAIN h : k \in DOMAIN l \/ k = Len(l) + 1
  BY <1>8
<1>10. h[Len(l) + 1][1] = e /\ h[Len(l) + 1][2] = q[1]
  BY <1>8
<1>11. \A k \in DOMAIN l : l[k][1] = e => l[k][2] < q[1]
  BY <1>4 DEF InOrder
<1>12. q[1] < n /\ PartitionOf[q[1]] = p
  BY <1>4 DEF InOrder
<1>13. InOrder(h, t, e, p, n)
  <2>1. \A k \in DOMAIN h : h[k][1] = e => h[k][2] < n /\ PartitionOf[h[k][2]] = p
    BY <1>8, <1>9, <1>10, <1>12 DEF InOrder
  <2>2. \A j, k \in DOMAIN h : j < k /\ h[j][1] = e /\ h[k][1] = e => h[j][2] < h[k][2]
    BY <1>8, <1>9, <1>10, <1>11 DEF InOrder
  <2>3. \A k \in DOMAIN h, m \in DOMAIN t : h[k][1] = e => h[k][2] < t[m]
    BY <1>5, <1>8, <1>9, <1>10
  <2> QED BY <1>5, <2>1, <2>2, <2>3 DEF InOrder
<1> QED BY <1>3, <1>4, <1>6, <1>7, <1>13

\* What an execution that ends leaves to the broker: the first written of its queue.
Left(e, q, written) == [i \in 1 .. written |-> <<e, q[i]>>]

\* An execution that ends leaves its queue in order.
LEMMA OrderWhenEnding ==
  ASSUME NEW l \in Seq(Executions \X Messages), NEW q \in Seq(Messages), NEW written \in 0 .. Len(q),
         NEW e \in Executions, NEW p, NEW n \in Nat, InOrder(l, q, e, p, n)
  PROVE  InOrder(l \o Left(e, q, written), <<>>, e, p, n)
<1>1. \A k \in DOMAIN q : q[k] \in Messages /\ q[k] \in Int
  BY QueueEntries
<1>2. \A k \in DOMAIN l : l[k][2] \in Messages /\ l[k][2] \in Int
  BY LogEntries
<1>3. PICK h : h = l \o Left(e, q, written)
  OBVIOUS
<1>4. PICK r : r = Left(e, q, written)
  OBVIOUS
<1>5. /\ written \in Nat /\ r \in Seq(Executions \X Messages) /\ DOMAIN r = 1 .. written /\ Len(r) = written
      /\ \A k \in 1 .. written : r[k] = <<e, q[k]>> /\ k \in DOMAIN q
  BY <1>1, <1>4 DEF Left
<1>6. /\ DOMAIN h = 1 .. Len(l) + written /\ DOMAIN l = 1 .. Len(l) /\ Len(l) \in Nat
      /\ \A k \in DOMAIN h : \/ k \in DOMAIN l /\ h[k] = l[k]
                             \/ k - Len(l) \in 1 .. written /\ h[k] = r[k - Len(l)] /\ k > Len(l)
  <2>0. h = l \o r
    BY <1>3, <1>4
  <2> r \in Seq(Executions \X Messages)
    BY <1>5
  <2>1. Len(l) \in Nat /\ DOMAIN l = 1 .. Len(l) /\ Len(h) = Len(l) + Len(r) /\ DOMAIN h = 1 .. Len(h)
    BY <2>0
  <2>2. ASSUME NEW k \in DOMAIN h
        PROVE  \/ k \in DOMAIN l /\ h[k] = l[k]
               \/ k - Len(l) \in 1 .. written /\ h[k] = r[k - Len(l)] /\ k > Len(l)
    BY <1>5, <2>0, <2>1
  <2> QED BY <1>5, <2>1, <2>2
<1>7. ASSUME NEW k \in DOMAIN h, h[k][1] = e
      PROVE  h[k][2] < n /\ PartitionOf[h[k][2]] = p
  BY <1>5, <1>6, <1>7 DEF InOrder
<1>8. ASSUME NEW j \in DOMAIN h, NEW k \in DOMAIN h, j < k, h[j][1] = e, h[k][1] = e
      PROVE  h[j][2] < h[k][2]
  <2>1. CASE k \in DOMAIN l /\ h[k] = l[k]
    BY <1>6, <1>8, <2>1 DEF InOrder
  <2>2. CASE k - Len(l) \in 1 .. written /\ h[k] = r[k - Len(l)]
    <3>1. h[k][2] = q[k - Len(l)] /\ k - Len(l) \in DOMAIN q
      BY <1>5, <2>2
    <3>2. CASE j \in DOMAIN l /\ h[j] = l[j]
      BY <1>8, <3>1, <3>2 DEF InOrder
    <3>3. CASE j - Len(l) \in 1 .. written /\ h[j] = r[j - Len(l)]
      <4>1. h[j][2] = q[j - Len(l)] /\ j - Len(l) \in DOMAIN q /\ j - Len(l) < k - Len(l)
        BY <1>5, <1>6, <1>8, <3>3
      <4> QED BY <3>1, <4>1 DEF InOrder
    <3> QED BY <1>6, <3>2, <3>3
  <2> QED BY <1>6, <2>1, <2>2
<1>9. InOrder(h, <<>>, e, p, n)
  <2>1. DOMAIN <<>> = {}
    OBVIOUS
  <2> QED BY <1>7, <1>8, <2>1 DEF InOrder
<1> QED BY <1>3, <1>9

\* What others add to a partition does not disturb the order.
LEMMA OrderBesideOthers ==
  ASSUME NEW l \in Seq(Executions \X Messages), NEW r \in Seq(Executions \X Messages),
         NEW q, NEW e, NEW p, NEW n, InOrder(l, q, e, p, n),
         \A k \in DOMAIN r : r[k][1] # e
  PROVE  InOrder(l \o r, q, e, p, n)
<1>1. PICK h : h = l \o r
  OBVIOUS
<1>2. /\ DOMAIN h = 1 .. Len(l) + Len(r) /\ DOMAIN l = 1 .. Len(l) /\ Len(l) \in Nat /\ Len(r) \in Nat
      /\ \A k \in DOMAIN h : \/ k \in DOMAIN l /\ h[k] = l[k]
                             \/ k - Len(l) \in DOMAIN r /\ h[k] = r[k - Len(l)]
  BY <1>1
<1>3. \A k \in DOMAIN h : h[k][1] = e => k \in DOMAIN l /\ h[k] = l[k]
  BY <1>2
<1>4. InOrder(h, q, e, p, n)
  BY <1>3 DEF InOrder
<1> QED BY <1>1, <1>4

\* What is in a partition stays there.
LEMMA HeldWhenAppending ==
  ASSUME NEW l \in Seq(Executions \X Messages), NEW r \in Seq(Executions \X Messages),
         NEW q, NEW e, NEW i, Held(l, q, e, i)
  PROVE  Held(l \o r, q, e, i)
<1>1. PICK h : h = l \o r
  OBVIOUS
<1>2. \A k \in DOMAIN l : k \in DOMAIN h /\ h[k] = l[k]
  BY <1>1
<1>3. Held(h, q, e, i)
  BY <1>2 DEF Held
<1> QED BY <1>1, <1>3

\* A message put into the queue is held, and so is what was.
LEMMA HeldWhenQueued ==
  ASSUME NEW l, NEW q \in Seq(Messages), NEW e, NEW i, NEW n \in Messages, Held(l, q, e, i) \/ i = n
  PROVE  Held(l, Append(q, n), e, i)
<1>1. PICK s : s = Append(q, n)
  OBVIOUS
<1>2. Len(q) + 1 \in DOMAIN s /\ s[Len(q) + 1] = n /\ \A k \in DOMAIN q : k \in DOMAIN s /\ s[k] = q[k]
  BY <1>1
<1>3. Held(l, s, e, i)
  BY <1>2 DEF Held
<1> QED BY <1>1, <1>3

\* A message that moves from the queue to the partition is still held.
LEMMA HeldWhenDelivered ==
  ASSUME NEW l \in Seq(Executions \X Messages), NEW q \in Seq(Messages), q # <<>>,
         NEW e \in Executions, NEW i, Held(l, q, e, i)
  PROVE  Held(Append(l, <<e, Head(q)>>), Tail(q), e, i)
<1>1. PICK h : h = Append(l, <<e, q[1]>>)
  OBVIOUS
<1>2. PICK t : t = Tail(q)
  OBVIOUS
<1>3. /\ Len(q) \in Nat /\ DOMAIN q = 1 .. Len(q) /\ DOMAIN t = 1 .. Len(q) - 1 /\ Head(q) = q[1]
      /\ 1 \in DOMAIN q /\ \A k \in DOMAIN q : k = 1 \/ (k - 1 \in DOMAIN t /\ t[k - 1] = q[k])
  BY <1>2
<1>4. Len(l) + 1 \in DOMAIN h /\ h[Len(l) + 1] = <<e, q[1]>> /\ \A k \in DOMAIN l : k \in DOMAIN h /\ h[k] = l[k]
  BY <1>1, <1>3
<1>5. Held(h, t, e, i)
  BY <1>3, <1>4 DEF Held
<1> QED BY <1>1, <1>2, <1>3, <1>5

-----------------------------------------------------------------------------
\* Publishing

\* Count is the number of messages, and each has its partition.
LEMMA MessageTypes ==
  ASSUME Publisher!IsPublisher
  PROVE  /\ Publisher!Count \in Nat \ {0}
         /\ \A i \in Messages : i \in Nat \ {0} /\ i <= Publisher!Count /\ PartitionOf[i] \in Partitions
<1>1. PartitionOf \in Seq(Partitions) /\ PartitionOf # <<>>
  BY DEF Publisher!IsPublisher
<1>2. Len(PartitionOf) \in Nat \ {0} /\ \A i \in 1 .. Len(PartitionOf) : PartitionOf[i] \in Partitions
  BY <1>1
<1> QED BY <1>2 DEF Messages, Publisher!Count

\* len(producer) is 0 only if nothing is on its way and all was reported.
LEMMA NothingOutstanding ==
  ASSUME Publisher!IsPublisher, PublisherTypes, NEW e \in Executions, Publisher!Outstanding(e) = 0
  PROVE  /\ reports[e].ok = 0 /\ reports[e].failed = 0
         /\ \A p \in Partitions : queue[e][p] = <<>>
<1> DEFINE w == [p \in Partitions |-> Len(queue[e][p])]
           base == reports[e].ok + reports[e].failed
           Sums(g) == g = [s \in SUBSET Partitions |->
                             IF s = {} THEN base
                             ELSE LET x == CHOOSE x \in s : TRUE IN Len(queue[e][x]) + g[s \ {x}]]
<1>0. IsFiniteSet(Partitions)
  BY DEF Publisher!IsPublisher, Publisher!IsFiniteSet, IsFiniteSet
<1>1. base \in Nat /\ \A p \in Partitions : w[p] \in Nat /\ queue[e][p] \in Seq(Messages)
  BY DEF PublisherTypes
<1>2. ASSUME NEW g PROVE Sums(g) <=> Adds(g, w, base, Partitions)
  <2>1. \A s \in SUBSET Partitions :
          (IF s = {} THEN base ELSE LET x == CHOOSE x \in s : TRUE IN Len(queue[e][x]) + g[s \ {x}])
            = (IF s = {} THEN base ELSE LET x == CHOOSE x \in s : TRUE IN w[x] + g[s \ {x}])
    OBVIOUS
  <2> HIDE DEF w, base
  <2> QED BY <2>1 DEF Adds
<1>3. \E g : Sums(g)
  <2> HIDE DEF Sums, w, base
  <2> QED BY <1>0, <1>2, AddsExists
<1>4. PICK g : g = CHOOSE h : Sums(h)
  OBVIOUS
<1>5. Sums(g)
  <2> HIDE DEF Sums
  <2> QED BY <1>3, <1>4
<1>6. Publisher!Outstanding(e) = g[Partitions]
  BY <1>4 DEF Publisher!Outstanding, Publisher!FoldSet, Publisher!MapThenFoldSet
<1>7. g[Partitions] \in Nat /\ base <= g[Partitions] /\ \A p \in Partitions : w[p] <= g[Partitions]
  <2>1. Adds(g, w, base, Partitions)
    <3> HIDE DEF Sums, w, base
    <3> QED BY <1>2, <1>5
  <2> HIDE DEF Sums, w, base
  <2> QED BY <1>0, <1>1, <2>1, AddsAtLeast
<1>8. base = 0 /\ \A p \in Partitions : w[p] = 0
  <2> HIDE DEF Sums, w, base
  <2> QED BY <1>1, <1>6, <1>7
<1>9. reports[e].ok \in Nat /\ reports[e].failed \in Nat
  BY DEF PublisherTypes
<1> QED BY <1>1, <1>8, <1>9

\* What the steps of other executions leave of an execution, and do to the partitions.
Untouched(d) ==
  /\ phase'[d] = phase[d] /\ next'[d] = next[d] /\ queue'[d] = queue[d]
  /\ reports'[d] = reports[d] /\ errors'[d] = errors[d]

OthersWrite(d) ==
  \A p \in Partitions : \E r \in Seq(Executions \X Messages) :
    log'[p] = log[p] \o r /\ \A k \in DOMAIN r : r[k][1] # d

\* What a step of e has to show.
StepOf(e) ==
  /\ PublisherTypes'
  /\ Progress(e)' /\ NothingLost(e)'
  /\ \A p \in Partitions : InOrder(log'[p], queue'[e][p], e, p, next'[e])
  /\ \A d \in Executions : d # e => Untouched(d) /\ OthersWrite(d)

\* The invariant holds at first.
LEMMA PublisherInit ==
  ASSUME Publisher!IsPublisher, Publisher!Init PROVE PublisherInv
<1>1. PublisherTypes
  <2>1. 1 \in 1 .. Publisher!Count + 1
    BY MessageTypes
  <2>2. \A e \in Executions, p \in Partitions : <<>> \in Seq(Messages)
    OBVIOUS
  <2> QED BY <2>1, <2>2 DEF PublisherTypes, Publisher!Init, Publisher!NoReports
<1>2. ASSUME NEW e \in Executions PROVE Progress(e) /\ NothingLost(e)
  BY <1>2 DEF Progress, NothingLost, Ended, Publisher!Init
<1>3. ASSUME NEW e \in Executions, NEW p \in Partitions PROVE InOrder(log[p], queue[e][p], e, p, next[e])
  <2>1. log[p] = <<>> /\ queue[e][p] = <<>> /\ DOMAIN <<>> = {}
    BY DEF Publisher!Init
  <2> QED BY <2>1 DEF InOrder
<1> QED BY <1>1, <1>2, <1>3 DEF PublisherInv

\* An execution that takes no step keeps what it has in the partitions.
LEMMA OthersKeep ==
  ASSUME PublisherInv, NEW d \in Executions, Untouched(d), OthersWrite(d), Publisher!IsPublisher
  PROVE  /\ Progress(d)' /\ NothingLost(d)'
         /\ \A p \in Partitions : InOrder(log'[p], queue'[d][p], d, p, next'[d])
<1>1. Progress(d)'
  <2>1. Progress(d)
    BY DEF PublisherInv
  <2> QED BY <2>1 DEF Progress, Ended, Untouched
<1>2. ASSUME NEW p \in Partitions PROVE log[p] \in Seq(Executions \X Messages)
  BY DEF PublisherInv, PublisherTypes
<1>3. NothingLost(d)'
  <2> SUFFICES ASSUME phase[d] # "failed", errors[d] = 0, reports[d].failed = 0, NEW i \in 1 .. next[d] - 1
               PROVE  Held(log'[PartitionOf[i]], queue[d][PartitionOf[i]], d, i)
    BY DEF NothingLost, Untouched
  <2>1. i \in Messages
    <3>1. next[d] \in 1 .. Publisher!Count + 1 /\ Publisher!Count \in Nat
      BY MessageTypes DEF PublisherInv, PublisherTypes
    <3> QED BY <3>1 DEF Messages
  <2>2. PartitionOf[i] \in Partitions
    BY <2>1, MessageTypes
  <2>3. Held(log[PartitionOf[i]], queue[d][PartitionOf[i]], d, i)
    BY DEF PublisherInv, NothingLost
  <2>4. PICK r \in Seq(Executions \X Messages) : log'[PartitionOf[i]] = log[PartitionOf[i]] \o r
    BY <2>2 DEF OthersWrite
  <2> QED BY <1>2, <2>2, <2>3, <2>4, HeldWhenAppending
<1>4. ASSUME NEW p \in Partitions PROVE InOrder(log'[p], queue'[d][p], d, p, next'[d])
  <2>1. InOrder(log[p], queue[d][p], d, p, next[d])
    BY DEF PublisherInv
  <2>2. PICK r \in Seq(Executions \X Messages) : log'[p] = log[p] \o r /\ \A k \in DOMAIN r : r[k][1] # d
    BY DEF OthersWrite
  <2>3. InOrder(log[p] \o r, queue[d][p], d, p, next[d])
    BY <1>2, <2>1, <2>2, OrderBesideOthers
  <2> QED BY <2>2, <2>3 DEF Untouched
<1> QED BY <1>1, <1>3, <1>4

\* A step that writes nothing, or a message of e.
LEMMA AtMostOneWritten ==
  ASSUME PublisherTypes, NEW e \in Executions, NEW m \in Messages, NEW d, d # e,
         \A p \in Partitions : log'[p] = log[p] \/ log'[p] = Append(log[p], <<e, m>>)
  PROVE  OthersWrite(d)
<1>1. ASSUME NEW p \in Partitions
      PROVE  \E r \in Seq(Executions \X Messages) : log'[p] = log[p] \o r /\ \A k \in DOMAIN r : r[k][1] # d
  <2>0. PICK l \in Seq(Executions \X Messages) : l = log[p]
    BY DEF PublisherTypes
  <2>1. PICK x \in Executions \X Messages : x = <<e, m>>
    OBVIOUS
  <2>2. <<>> \in Seq(Executions \X Messages) /\ l \o <<>> = l /\ \A k \in DOMAIN <<>> : <<>>[k][1] # d
    OBVIOUS
  <2>3. <<x>> \in Seq(Executions \X Messages) /\ l \o <<x>> = Append(l, x) /\ \A k \in DOMAIN <<x>> : <<x>>[k] = x
    OBVIOUS
  <2>4. x[1] # d
    BY <2>1
  <2>5. CASE log'[p] = l
    BY <2>0, <2>2, <2>5
  <2>6. CASE log'[p] = Append(l, x)
    BY <2>0, <2>3, <2>4, <2>6
  <2> QED BY <2>0, <2>1, <2>5, <2>6
<1> QED BY <1>1 DEF OthersWrite

\* A step that leaves the partitions alone writes nothing of another execution.
LEMMA NothingWritten ==
  ASSUME PublisherTypes, log' = log, NEW d PROVE OthersWrite(d)
<1>1. ASSUME NEW p \in Partitions
      PROVE  \E r \in Seq(Executions \X Messages) : log'[p] = log[p] \o r /\ \A k \in DOMAIN r : r[k][1] # d
  <2>1. PICK l \in Seq(Executions \X Messages) : l = log[p]
    BY DEF PublisherTypes
  <2>2. <<>> \in Seq(Executions \X Messages) /\ l \o <<>> = l /\ \A k \in DOMAIN <<>> : <<>>[k][1] # d
    OBVIOUS
  <2> QED BY <2>1, <2>2
<1> QED BY <1>1 DEF OthersWrite

\* The steps of an execution, one after the other.
LEMMA PrepareStep ==
  ASSUME Publisher!IsPublisher, PublisherInv, NEW e \in Executions, Publisher!Prepare(e) PROVE StepOf(e)
<1>1. /\ phase[e] = "prepare" /\ phase' = [phase EXCEPT ![e] = "publish"]
      /\ next' = next /\ queue' = queue /\ reports' = reports /\ acked' = acked /\ errors' = errors /\ log' = log
  BY DEF Publisher!Prepare, Publisher!Goto
<1>2. PublisherTypes /\ Progress(e) /\ NothingLost(e)
  BY DEF PublisherInv
<1>3. phase' \in [Executions -> {"prepare", "publish", "flush", "done", "failed"}] /\ phase'[e] = "publish"
  BY <1>1, <1>2 DEF PublisherTypes
<1>4. PublisherTypes'
  BY <1>1, <1>2, <1>3 DEF PublisherTypes
<1>5. Progress(e)'
  <2>1. 1 \in Messages
    BY MessageTypes DEF Messages
  <2> QED BY <1>1, <1>2, <1>3, <2>1 DEF Progress, Ended
<1>6. NothingLost(e)'
  BY <1>1, <1>2, <1>3 DEF NothingLost
<1>7. \A p \in Partitions : InOrder(log'[p], queue'[e][p], e, p, next'[e])
  BY <1>1 DEF PublisherInv
<1>8. ASSUME NEW d \in Executions, d # e PROVE Untouched(d) /\ OthersWrite(d)
  <2>1. Untouched(d)
    BY <1>1, <1>2, <1>8 DEF Untouched, PublisherTypes
  <2> QED BY <1>1, <1>2, <2>1, NothingWritten
<1> QED BY <1>4, <1>5, <1>6, <1>7, <1>8 DEF StepOf

\* Serving the reports keeps the counts, and what failed is not forgotten.
LEMMA Served ==
  ASSUME PublisherTypes, NEW e \in Executions, Publisher!Serve(e)
  PROVE  /\ acked' \in [Executions -> Nat] /\ errors' \in [Executions -> Nat]
         /\ reports' \in [Executions -> [ok : Nat, failed : Nat]]
         /\ reports'[e].failed = 0
         /\ errors'[e] = 0 => errors[e] = 0 /\ reports[e].failed = 0
         /\ \A d \in Executions : d # e => reports'[d] = reports[d] /\ errors'[d] = errors[d]
<1>1. reports[e].ok \in Nat /\ reports[e].failed \in Nat /\ acked[e] \in Nat /\ errors[e] \in Nat
  BY DEF PublisherTypes
<1>2. [ok |-> 0, failed |-> 0] \in [ok : Nat, failed : Nat]
  OBVIOUS
<1>3. acked' \in [Executions -> Nat] /\ errors' \in [Executions -> Nat]
  BY <1>1 DEF PublisherTypes, Publisher!Serve
<1>4. reports' \in [Executions -> [ok : Nat, failed : Nat]] /\ reports'[e] = [ok |-> 0, failed |-> 0]
  BY <1>2 DEF PublisherTypes, Publisher!Serve, Publisher!NoReports
<1>5. errors'[e] = errors[e] + reports[e].failed
  BY DEF PublisherTypes, Publisher!Serve
<1>6. \A d \in Executions : d # e => reports'[d] = reports[d] /\ errors'[d] = errors[d]
  BY DEF PublisherTypes, Publisher!Serve
<1> QED BY <1>1, <1>3, <1>4, <1>5, <1>6

\* A message is put into the queue of its partition.
LEMMA PublishStep ==
  ASSUME Publisher!IsPublisher, PublisherInv, NEW e \in Executions, Publisher!Publish(e) PROVE StepOf(e)
<1> DEFINE n == next[e]
           goal == PartitionOf[n]
<1>1. PublisherTypes /\ Progress(e) /\ NothingLost(e)
  BY DEF PublisherInv
<1>2. /\ phase[e] = "publish" /\ Publisher!Serve(e)
      /\ queue' = [queue EXCEPT ![e][goal] = Append(@, n)]
      /\ next' = [next EXCEPT ![e] = @ + 1] /\ log' = log
      /\ phase' = [phase EXCEPT ![e] = IF n = Publisher!Count THEN "flush" ELSE "publish"]
  BY DEF Publisher!Publish, Publisher!Goto
<1>3. n \in Messages /\ goal \in Partitions /\ n \in Nat \ {0} /\ n <= Publisher!Count /\ Publisher!Count \in Nat
  BY <1>1, <1>2, MessageTypes DEF Progress
<1>4. /\ \A p \in Partitions : queue'[e][p] = IF p = goal THEN Append(queue[e][p], n) ELSE queue[e][p]
      /\ \A d \in Executions : d # e => queue'[d] = queue[d]
      /\ \A p \in Partitions : queue[e][p] \in Seq(Messages) /\ log[p] \in Seq(Executions \X Messages)
  <2>1. queue \in [Executions -> [Partitions -> Seq(Messages)]] /\ log \in [Partitions -> Seq(Executions \X Messages)]
    BY <1>1 DEF PublisherTypes
  <2> HIDE DEF n, goal
  <2> QED BY <1>2, <1>3, <2>1
<1>5. queue' \in [Executions -> [Partitions -> Seq(Messages)]]
  <2>1. queue \in [Executions -> [Partitions -> Seq(Messages)]]
    BY <1>1 DEF PublisherTypes
  <2>2. Append(queue[e][goal], n) \in Seq(Messages)
    BY <1>3, <1>4
  <2> HIDE DEF n, goal
  <2> QED BY <1>2, <1>3, <2>1, <2>2
<1>6. next' \in [Executions -> 1 .. Publisher!Count + 1] /\ next'[e] = n + 1
  <2>1. n + 1 \in 1 .. Publisher!Count + 1
    BY <1>3
  <2> QED BY <1>1, <1>2, <2>1 DEF PublisherTypes
<1>7. /\ phase' \in [Executions -> {"prepare", "publish", "flush", "done", "failed"}]
      /\ phase'[e] = IF n = Publisher!Count THEN "flush" ELSE "publish"
  BY <1>1, <1>2 DEF PublisherTypes
<1>8. PublisherTypes'
  <2>1. log' \in [Partitions -> Seq(Executions \X Messages)]
    BY <1>1, <1>2 DEF PublisherTypes
  <2> QED BY <1>1, <1>2, <1>5, <1>6, <1>7, <2>1, Served DEF PublisherTypes
<1>9. Progress(e)'
  <2>1. n = Publisher!Count \/ n + 1 \in Messages
    BY <1>3 DEF Messages
  <2> QED BY <1>6, <1>7, <2>1 DEF Progress, Ended
<1>10. NothingLost(e)'
  <2> SUFFICES ASSUME errors'[e] = 0, NEW i \in 1 .. n
               PROVE  Held(log[PartitionOf[i]], queue'[e][PartitionOf[i]], e, i)
    BY <1>2, <1>3, <1>6 DEF NothingLost
  <2>1. i \in Messages /\ PartitionOf[i] \in Partitions
    BY <1>3, MessageTypes DEF Messages
  <2>2. i = n \/ Held(log[PartitionOf[i]], queue[e][PartitionOf[i]], e, i)
    <3>1. errors[e] = 0 /\ reports[e].failed = 0
      BY <1>1, <1>2, Served
    <3>2. i = n \/ i \in 1 .. n - 1
      BY <1>3
    <3> QED BY <1>1, <1>2, <3>1, <3>2 DEF NothingLost
  <2>3. CASE PartitionOf[i] = goal
    BY <1>3, <1>4, <2>1, <2>2, <2>3, HeldWhenQueued
  <2>4. CASE PartitionOf[i] # goal
    BY <1>4, <2>1, <2>2, <2>4
  <2> QED BY <2>3, <2>4
<1>11. ASSUME NEW p \in Partitions PROVE InOrder(log'[p], queue'[e][p], e, p, next'[e])
  <2>1. InOrder(log[p], queue[e][p], e, p, n)
    BY DEF PublisherInv
  <2>2. /\ InOrder(log[p], queue[e][p], e, p, n + 1)
        /\ goal = p => InOrder(log[p], Append(queue[e][p], n), e, p, n + 1)
    BY <1>3, <1>4, <2>1, OrderWhenQueued
  <2> QED BY <1>2, <1>4, <1>6, <2>2
<1>12. ASSUME NEW d \in Executions, d # e PROVE Untouched(d) /\ OthersWrite(d)
  <2>1. phase'[d] = phase[d] /\ next'[d] = next[d]
    BY <1>1, <1>2, <1>12 DEF PublisherTypes
  <2>2. Untouched(d)
    BY <1>1, <1>2, <1>4, <1>12, <2>1, Served DEF Untouched
  <2> QED BY <1>1, <1>2, <2>2, NothingWritten
<1> QED BY <1>8, <1>9, <1>10, <1>11, <1>12 DEF StepOf

\* Reports are counted.
LEMMA FlushServesStep ==
  ASSUME PublisherInv, NEW e \in Executions, Publisher!FlushServes(e) PROVE StepOf(e)
<1>1. PublisherTypes /\ Progress(e) /\ NothingLost(e)
  BY DEF PublisherInv
<1>2. phase[e] = "flush" /\ Publisher!Serve(e) /\ phase' = phase /\ next' = next /\ queue' = queue /\ log' = log
  BY DEF Publisher!FlushServes, Publisher!process
<1>3. PublisherTypes'
  BY <1>1, <1>2, Served DEF PublisherTypes
<1>4. Progress(e)'
  BY <1>1, <1>2 DEF Progress, Ended
<1>5. NothingLost(e)'
  <2>1. errors'[e] = 0 => errors[e] = 0 /\ reports[e].failed = 0
    BY <1>1, <1>2, Served
  <2> QED BY <1>1, <1>2, <2>1 DEF NothingLost
<1>6. \A p \in Partitions : InOrder(log'[p], queue'[e][p], e, p, next'[e])
  BY <1>2 DEF PublisherInv
<1>7. ASSUME NEW d \in Executions, d # e PROVE Untouched(d) /\ OthersWrite(d)
  <2>1. Untouched(d)
    BY <1>1, <1>2, <1>7, Served DEF Untouched
  <2> QED BY <1>1, <1>2, <2>1, NothingWritten
<1> QED BY <1>3, <1>4, <1>5, <1>6, <1>7 DEF StepOf

\* A message that leaves the queue of e, written or not.
LEMMA LeaveStep ==
  ASSUME Publisher!IsPublisher, PublisherInv, NEW e \in Executions, NEW p \in Partitions,
         Publisher!Deliver(e, p) \/ Publisher!GiveUp(e, p)
  PROVE  StepOf(e)
<1>1. PublisherTypes /\ Progress(e) /\ NothingLost(e)
  BY DEF PublisherInv
<1>2. /\ queue[e][p] # <<>> /\ queue' = [queue EXCEPT ![e][p] = Tail(@)]
      /\ phase' = phase /\ next' = next /\ acked' = acked /\ errors' = errors
      /\ \/ /\ log' = [log EXCEPT ![p] = Append(@, <<e, Head(queue[e][p])>>)]
            /\ reports' = [reports EXCEPT ![e].ok = @ + 1]
         \/ /\ log' = [log EXCEPT ![p] = Append(@, <<e, Head(queue[e][p])>>)] \/ log' = log
            /\ reports' = [reports EXCEPT ![e].failed = @ + 1]
  BY DEF Publisher!Deliver, Publisher!GiveUp, Publisher!Written, Publisher!Leaves, Publisher!process
<1>3. /\ \A x \in Partitions : queue[e][x] \in Seq(Messages) /\ log[x] \in Seq(Executions \X Messages)
      /\ reports[e].ok \in Nat /\ reports[e].failed \in Nat /\ errors[e] \in Nat
      /\ queue \in [Executions -> [Partitions -> Seq(Messages)]] /\ log \in [Partitions -> Seq(Executions \X Messages)]
      /\ reports \in [Executions -> [ok : Nat, failed : Nat]]
  BY <1>1 DEF PublisherTypes
<1>4. PICK h : h = Head(queue[e][p])
  OBVIOUS
<1>5. h \in Messages /\ Tail(queue[e][p]) \in Seq(Messages) /\ <<e, h>> \in Executions \X Messages
  BY <1>2, <1>3, <1>4
<1>6. /\ queue' \in [Executions -> [Partitions -> Seq(Messages)]] /\ queue'[e][p] = Tail(queue[e][p])
      /\ \A x \in Partitions : x # p => queue'[e][x] = queue[e][x]
      /\ \A d \in Executions : d # e => queue'[d] = queue[d]
  BY <1>2, <1>3, <1>5
<1>7. /\ log' \in [Partitions -> Seq(Executions \X Messages)] /\ \A x \in Partitions : x # p => log'[x] = log[x]
      /\ log'[p] = Append(log[p], <<e, h>>) \/ log'[p] = log[p]
  <2>1. Append(log[p], <<e, h>>) \in Seq(Executions \X Messages)
    BY <1>3, <1>5
  <2> QED BY <1>2, <1>3, <1>4, <2>1
<1>8. /\ reports' \in [Executions -> [ok : Nat, failed : Nat]]
      /\ \A d \in Executions : d # e => reports'[d] = reports[d]
      /\ reports'[e].failed = 0 => reports[e].failed = 0 /\ log'[p] = Append(log[p], <<e, h>>)
  <2>1. CASE log' = [log EXCEPT ![p] = Append(@, <<e, h>>)] /\ reports' = [reports EXCEPT ![e].ok = @ + 1]
    BY <1>3, <2>1
  <2>2. CASE reports' = [reports EXCEPT ![e].failed = @ + 1]
    <3>1. reports'[e].failed = reports[e].failed + 1
      BY <1>3, <2>2
    <3> QED BY <1>3, <2>2, <3>1
  <2> QED BY <1>2, <1>4, <2>1, <2>2
<1>9. PublisherTypes'
  BY <1>1, <1>2, <1>6, <1>7, <1>8 DEF PublisherTypes
<1>10. Progress(e)'
  <2>1. ~Ended(e) /\ phase[e] # "done"
    BY <1>1, <1>2 DEF Progress, Ended
  <2> QED BY <1>1, <1>2, <2>1 DEF Progress, Ended
<1>11. NothingLost(e)'
  <2> SUFFICES ASSUME phase[e] # "failed", errors[e] = 0, reports'[e].failed = 0, NEW i \in 1 .. next[e] - 1
               PROVE  Held(log'[PartitionOf[i]], queue'[e][PartitionOf[i]], e, i)
    BY <1>2 DEF NothingLost
  <2>1. next[e] \in 1 .. Publisher!Count + 1 /\ Publisher!Count \in Nat
    BY <1>1, MessageTypes DEF PublisherTypes
  <2>2. i \in Messages /\ PartitionOf[i] \in Partitions
    <3>1. i \in Messages
      BY <2>1 DEF Messages
    <3> QED BY <3>1, MessageTypes
  <2>3. Held(log[PartitionOf[i]], queue[e][PartitionOf[i]], e, i)
    BY <1>1, <1>8 DEF NothingLost
  <2>4. CASE PartitionOf[i] = p
    <3>1. Held(Append(log[p], <<e, Head(queue[e][p])>>), Tail(queue[e][p]), e, i)
      BY <1>2, <1>3, <2>3, <2>4, HeldWhenDelivered
    <3>2. log'[p] = Append(log[p], <<e, Head(queue[e][p])>>) /\ queue'[e][p] = Tail(queue[e][p])
      BY <1>4, <1>6, <1>8
    <3> QED BY <2>4, <3>1, <3>2
  <2>5. CASE PartitionOf[i] # p
    BY <1>6, <1>7, <2>2, <2>3, <2>5
  <2> QED BY <2>4, <2>5
<1>12. ASSUME NEW x \in Partitions PROVE InOrder(log'[x], queue'[e][x], e, x, next'[e])
  <2>1. InOrder(log[x], queue[e][x], e, x, next[e]) /\ next[e] \in Nat
    BY <1>1, MessageTypes DEF PublisherInv, PublisherTypes
  <2>2. CASE x = p
    <3>1. /\ InOrder(log[p], Tail(queue[e][p]), e, p, next[e])
          /\ InOrder(Append(log[p], <<e, Head(queue[e][p])>>), Tail(queue[e][p]), e, p, next[e])
      BY <1>2, <1>3, <2>1, <2>2, OrderWhenLeaving
    <3>2. log'[p] = Append(log[p], <<e, Head(queue[e][p])>>) \/ log'[p] = log[p]
      BY <1>4, <1>7
    <3>3. queue'[e][p] = Tail(queue[e][p]) /\ next'[e] = next[e]
      BY <1>2, <1>6
    <3> QED BY <2>2, <3>1, <3>2, <3>3
  <2>3. CASE x # p
    BY <1>2, <1>6, <1>7, <2>1, <2>3
  <2> QED BY <2>2, <2>3
<1>13. ASSUME NEW d \in Executions, d # e PROVE Untouched(d) /\ OthersWrite(d)
  <2>1. Untouched(d)
    BY <1>2, <1>6, <1>8, <1>13 DEF Untouched
  <2>2. \A x \in Partitions : log'[x] = log[x] \/ log'[x] = Append(log[x], <<e, h>>)
    BY <1>7
  <2>3. OthersWrite(d)
    BY <1>1, <1>5, <1>13, <2>2, AtMostOneWritten
  <2> QED BY <2>1, <2>3
<1> QED BY <1>9, <1>10, <1>11, <1>12, <1>13 DEF StepOf

\* An execution ends well only if nothing it holds is unreported.
LEMMA EndStep ==
  ASSUME Publisher!IsPublisher, PublisherInv, NEW e \in Executions, NEW label \in {"done", "failed"},
         Publisher!Exit(e, label), ~Ended(e),
         label = "done" => /\ phase[e] = "flush" /\ errors[e] = 0
                           /\ Publisher!Outstanding(e) = 0
  PROVE  StepOf(e)
<1>1. PublisherTypes /\ Progress(e) /\ NothingLost(e)
  BY DEF PublisherInv
<1>2. /\ phase' = [phase EXCEPT ![e] = label] /\ next' = next /\ reports' = reports
      /\ acked' = acked /\ errors' = errors
      /\ queue' = [queue EXCEPT ![e] = [p \in Partitions |-> <<>>]]
  BY DEF Publisher!Exit, Publisher!Goto
<1>3. PICK written \in [Partitions -> 0 .. Publisher!Count] :
        /\ \A p \in Partitions : written[p] <= Len(queue[e][p])
        /\ log' = [p \in Partitions |-> log[p] \o [i \in 1 .. written[p] |-> <<e, queue[e][p][i]>>]]
  BY DEF Publisher!Exit
<1>4. /\ \A p \in Partitions : queue[e][p] \in Seq(Messages) /\ log[p] \in Seq(Executions \X Messages)
      /\ queue \in [Executions -> [Partitions -> Seq(Messages)]]
  BY <1>1 DEF PublisherTypes
<1>5. ASSUME NEW p \in Partitions
      PROVE  /\ written[p] \in 0 .. Len(queue[e][p])
             /\ Left(e, queue[e][p], written[p]) \in Seq(Executions \X Messages)
             /\ \A k \in DOMAIN Left(e, queue[e][p], written[p]) : Left(e, queue[e][p], written[p])[k][1] = e
             /\ log'[p] = log[p] \o Left(e, queue[e][p], written[p])
  <2>1. PICK w : w = written[p]
    OBVIOUS
  <2>2. PICK q \in Seq(Messages) : q = queue[e][p]
    BY <1>4
  <2>3. w \in 0 .. Len(q)
    BY <1>3, <2>1, <2>2, MessageTypes
  <2>4. /\ Left(e, q, w) \in Seq(Executions \X Messages)
        /\ \A k \in DOMAIN Left(e, q, w) : Left(e, q, w)[k][1] = e
    BY <2>3 DEF Left
  <2>5. log'[p] = log[p] \o Left(e, q, w)
    BY <1>3, <2>1, <2>2 DEF Left
  <2> QED BY <2>1, <2>2, <2>3, <2>4, <2>5
<1>6. /\ queue' \in [Executions -> [Partitions -> Seq(Messages)]]
      /\ \A p \in Partitions : queue'[e][p] = <<>>
      /\ \A d \in Executions : d # e => queue'[d] = queue[d]
  <2>1. [p \in Partitions |-> <<>>] \in [Partitions -> Seq(Messages)]
    OBVIOUS
  <2> QED BY <1>2, <1>4, <2>1
<1>7. log' \in [Partitions -> Seq(Executions \X Messages)]
  <2>0. \A l, r \in Seq(Executions \X Messages) : l \o r \in Seq(Executions \X Messages)
    OBVIOUS
  <2>1. ASSUME NEW p \in Partitions PROVE log'[p] \in Seq(Executions \X Messages)
    <3>1. /\ log[p] \in Seq(Executions \X Messages)
          /\ Left(e, queue[e][p], written[p]) \in Seq(Executions \X Messages)
          /\ log'[p] = log[p] \o Left(e, queue[e][p], written[p])
      BY <1>4, <1>5
    <3> HIDE DEF Left
    <3> QED BY <2>0, <3>1
  <2>2. log' = [p \in Partitions |-> log'[p]]
    BY <1>3
  <2> QED BY <2>1, <2>2
<1>8. /\ phase' \in [Executions -> {"prepare", "publish", "flush", "done", "failed"}] /\ phase'[e] = label
      /\ \A d \in Executions : d # e => phase'[d] = phase[d]
  BY <1>1, <1>2 DEF PublisherTypes
<1>9. PublisherTypes'
  BY <1>1, <1>2, <1>6, <1>7, <1>8 DEF PublisherTypes
<1>10. label = "done" => reports[e].failed = 0 /\ \A p \in Partitions : queue[e][p] = <<>>
  BY <1>1, NothingOutstanding
<1>11. Progress(e)'
  BY <1>1, <1>2, <1>6, <1>8, <1>10 DEF Progress, Ended
<1>12. NothingLost(e)'
  <2> SUFFICES ASSUME label = "done", NEW i \in 1 .. next[e] - 1
               PROVE  Held(log'[PartitionOf[i]], queue'[e][PartitionOf[i]], e, i)
    BY <1>2, <1>8 DEF NothingLost
  <2>1. next[e] \in 1 .. Publisher!Count + 1 /\ Publisher!Count \in Nat
    BY <1>1, MessageTypes DEF PublisherTypes
  <2>2. i \in Messages /\ PartitionOf[i] \in Partitions
    <3>1. i \in Messages
      BY <2>1 DEF Messages
    <3> QED BY <3>1, MessageTypes
  <2>3. Held(log[PartitionOf[i]], queue[e][PartitionOf[i]], e, i)
    BY <1>1, <1>10 DEF NothingLost
  <2>4. queue[e][PartitionOf[i]] = queue'[e][PartitionOf[i]]
    BY <1>6, <1>10, <2>2
  <2>5. Held(log[PartitionOf[i]] \o Left(e, queue[e][PartitionOf[i]], written[PartitionOf[i]]),
             queue[e][PartitionOf[i]], e, i)
    BY <1>4, <1>5, <2>2, <2>3, HeldWhenAppending
  <2> QED BY <1>5, <2>2, <2>4, <2>5
<1>13. ASSUME NEW p \in Partitions PROVE InOrder(log'[p], queue'[e][p], e, p, next'[e])
  <2>1. InOrder(log[p], queue[e][p], e, p, next[e]) /\ next[e] \in Nat
    BY <1>1, MessageTypes DEF PublisherInv, PublisherTypes
  <2>2. InOrder(log[p] \o Left(e, queue[e][p], written[p]), <<>>, e, p, next[e])
    BY <1>4, <1>5, <2>1, OrderWhenEnding
  <2> QED BY <1>2, <1>5, <1>6, <2>2
<1>14. ASSUME NEW d \in Executions, d # e PROVE Untouched(d) /\ OthersWrite(d)
  <2>1. Untouched(d)
    BY <1>2, <1>6, <1>8, <1>14 DEF Untouched
  <2>2. ASSUME NEW p \in Partitions
        PROVE  \E r \in Seq(Executions \X Messages) : log'[p] = log[p] \o r /\ \A k \in DOMAIN r : r[k][1] # d
    <3>1. PICK r \in Seq(Executions \X Messages) : r = Left(e, queue[e][p], written[p])
      BY <1>5
    <3> QED BY <1>5, <1>14, <3>1
  <2> QED BY <2>1, <2>2 DEF OthersWrite
<1> QED BY <1>9, <1>11, <1>12, <1>13, <1>14 DEF StepOf

\* Every step keeps the invariant.
LEMMA PublisherStep ==
  ASSUME Publisher!IsPublisher, PublisherInv, [Publisher!Next]_(Publisher!vars) PROVE PublisherInv'
<1>1. CASE UNCHANGED Publisher!vars
  BY <1>1 DEF Publisher!vars, PublisherInv, PublisherTypes, Progress, NothingLost, Ended
<1>2. CASE Publisher!Next
  <2>1. PICK e \in Executions : StepOf(e)
    <3>1. PICK e \in Executions :
            \/ Publisher!Run(e)
            \/ Publisher!Dies(e)
            \/ \E p \in Partitions : Publisher!Deliver(e, p) \/ Publisher!GiveUp(e, p)
      BY <1>2 DEF Publisher!Next
    <3>2. CASE Publisher!Prepare(e)
      BY <3>2, PrepareStep
    <3>3. CASE Publisher!Publish(e)
      BY <3>3, PublishStep
    <3>4. CASE Publisher!PublishRaises(e)
      BY <3>4, EndStep DEF Publisher!PublishRaises, Ended
    <3>5. CASE Publisher!FlushServes(e)
      BY <3>5, FlushServesStep
    <3>6. CASE Publisher!FlushTimesOut(e)
      BY <3>6, EndStep DEF Publisher!FlushTimesOut, Ended
    <3>7. CASE Publisher!FlushReturns(e)
      <4>1. phase[e] = "flush" /\ Publisher!Outstanding(e) = 0
        BY <3>7 DEF Publisher!FlushReturns
      <4>2. CASE Publisher!AllDelivered(e)
        <5>1. Publisher!Exit(e, "done") /\ errors[e] = 0
          BY <3>7, <4>2 DEF Publisher!FlushReturns, Publisher!AllDelivered
        <5> QED BY <4>1, <5>1, EndStep DEF Ended
      <4>3. CASE ~Publisher!AllDelivered(e)
        <5>1. Publisher!Exit(e, "failed")
          BY <3>7, <4>3 DEF Publisher!FlushReturns
        <5> QED BY <4>1, <5>1, EndStep DEF Ended
      <4> QED BY <4>2, <4>3
    <3>8. CASE Publisher!Dies(e)
      BY <3>8, EndStep DEF Publisher!Dies, Ended
    <3>9. CASE \E p \in Partitions : Publisher!Deliver(e, p) \/ Publisher!GiveUp(e, p)
      BY <3>9, LeaveStep
    <3> QED BY <3>1, <3>2, <3>3, <3>4, <3>5, <3>6, <3>7, <3>8, <3>9 DEF Publisher!Run, Publisher!Flush
  <2>2. ASSUME NEW d \in Executions
        PROVE  /\ Progress(d)' /\ NothingLost(d)'
               /\ \A p \in Partitions : InOrder(log'[p], queue'[d][p], d, p, next'[d])
    <3>1. CASE d = e
      BY <2>1, <3>1 DEF StepOf
    <3>2. CASE d # e
      BY <2>1, <3>2, OthersKeep DEF StepOf
    <3> QED BY <3>1, <3>2
  <2> QED BY <2>1, <2>2 DEF StepOf, PublisherInv
<1> QED BY <1>1, <1>2

\* The invariant holds of every publisher.
LEMMA PublisherInvariant ==
  Publisher!IsPublisher => (Publisher!Spec => []PublisherInv)
<1> SUFFICES ASSUME Publisher!IsPublisher PROVE Publisher!Spec => []PublisherInv
  OBVIOUS
<1>1. Publisher!Init => PublisherInv
  BY PublisherInit
<1>2. PublisherInv /\ [Publisher!Next]_(Publisher!vars) => PublisherInv'
  BY PublisherStep
<1> QED BY <1>1, <1>2, PTL DEF Publisher!Spec

\* Whatever dies or is given up, a partition has the messages of an execution at most
\* once and in the order in which it published them.
THEOREM WritesInOrder ==
  Publisher!IsPublisher => (Publisher!Spec => []WrittenInOrder)
<1> SUFFICES ASSUME Publisher!IsPublisher PROVE Publisher!Spec => []WrittenInOrder
  OBVIOUS
<1>1. ASSUME PublisherInv PROVE WrittenInOrder
  <2> SUFFICES ASSUME NEW p \in Partitions, NEW j \in DOMAIN log[p], NEW k \in DOMAIN log[p],
                      j < k, log[p][j][1] = log[p][k][1]
               PROVE  log[p][j][2] < log[p][k][2]
    BY DEF WrittenInOrder
  <2>1. log[p] \in Seq(Executions \X Messages)
    BY <1>1 DEF PublisherInv, PublisherTypes
  <2>2. log[p][j][1] \in Executions
    BY <2>1, LogEntries
  <2>3. InOrder(log[p], queue[log[p][j][1]][p], log[p][j][1], p, next[log[p][j][1]])
    BY <1>1, <2>2 DEF PublisherInv
  <2> QED BY <2>3 DEF InOrder
<1> QED BY <1>1, PublisherInvariant, PTL

\* An execution that reports success wrote each of its messages, once, and to the
\* partition of its session only.
THEOREM SuccessIsDelivery ==
  Publisher!IsPublisher => (Publisher!Spec => []DoneIsComplete)
<1> SUFFICES ASSUME Publisher!IsPublisher PROVE Publisher!Spec => []DoneIsComplete
  OBVIOUS
<1>1. ASSUME PublisherInv PROVE DoneIsComplete
  <2> SUFFICES ASSUME NEW e \in Executions, phase[e] = "done", NEW i \in 1 .. Publisher!Count, NEW p \in Partitions
               PROVE  Cardinality(Positions(p, e, i)) = IF p = PartitionOf[i] THEN 1 ELSE 0
    BY DEF DoneIsComplete, Publisher!Count
  <2>1. i \in Messages /\ PartitionOf[i] \in Partitions /\ Publisher!Count \in Nat
    <3>1. i \in Messages
      BY DEF Messages
    <3> QED BY <3>1, MessageTypes
  <2>2. InOrder(log[p], queue[e][p], e, p, next[e])
    BY <1>1 DEF PublisherInv
  <2>3. DOMAIN log[p] \subseteq Int
    BY <1>1 DEF PublisherInv, PublisherTypes
  <2>4. ASSUME NEW j \in Positions(p, e, i), NEW k \in Positions(p, e, i)
        PROVE  j = k
    <3>1. /\ j \in DOMAIN log[p] /\ k \in DOMAIN log[p] /\ j \in Int /\ k \in Int
          /\ log[p][j] = <<e, i>> /\ log[p][k] = <<e, i>>
      BY <2>3 DEF Positions
    <3>2. i \in Int /\ log[p][j][1] = e /\ log[p][j][2] = i /\ log[p][k][1] = e /\ log[p][k][2] = i
      BY <3>1
    <3>3. ~(j < k) /\ ~(k < j)
      BY <2>2, <3>1, <3>2 DEF InOrder
    <3> QED BY <3>1, <3>3
  <2>5. CASE p = PartitionOf[i]
    <3>1. Held(log[p], queue[e][p], e, i)
      <4>1. Progress(e) /\ NothingLost(e)
        BY <1>1 DEF PublisherInv
      <4>2. errors[e] = 0 /\ reports[e].failed = 0 /\ next[e] = Publisher!Count + 1
        BY <4>1 DEF Progress
      <4>3. i \in 1 .. next[e] - 1
        BY <2>1, <4>2
      <4> QED BY <2>5, <4>1, <4>2, <4>3 DEF NothingLost
    <3>2. queue[e][p] = <<>>
      BY <1>1 DEF PublisherInv, Progress, Ended
    <3>3. DOMAIN queue[e][p] = {}
      BY <3>2
    <3>4. PICK k : k \in Positions(p, e, i)
      BY <3>1, <3>3 DEF Held, Positions
    <3>5. Positions(p, e, i) = {k}
      BY <2>4, <3>4
    <3> QED BY <2>5, <3>5, FS_Singleton
  <2>6. CASE p # PartitionOf[i]
    <3>1. Positions(p, e, i) = {}
      <4> SUFFICES ASSUME NEW k \in Positions(p, e, i) PROVE FALSE
        OBVIOUS
      <4>1. k \in DOMAIN log[p] /\ log[p][k] = <<e, i>>
        BY DEF Positions
      <4>2. log[p][k][1] = e /\ log[p][k][2] = i
        BY <4>1
      <4> QED BY <2>2, <2>6, <4>1, <4>2 DEF InOrder
    <3> QED BY <2>6, <3>1, FS_EmptySet
  <2> QED BY <2>5, <2>6
<1> QED BY <1>1, PublisherInvariant, PTL

-----------------------------------------------------------------------------
(* The schedule of the stream *)

\* Products grow with a factor.
LEMMA Products ==
  /\ \A a, b \in Int : \A k \in Nat \ {0} : a < b => a * k < b * k
  /\ \A a, b \in Int : \A k \in Nat : a <= b => a * k <= b * k
  /\ \A a, b \in Nat : a * b \in Nat
  /\ \A a, b \in Nat \ {0} : a * b \in Nat \ {0}
<1>1. \A a, b \in Nat : a * b \in Nat
  OBVIOUS
<1>2. \A a, b \in Int : \A k \in Nat : a <= b => a * k <= b * k
  OBVIOUS
<1>3. \A a, b \in Int : \A k \in Nat \ {0} : a < b => a * k < b * k
  OBVIOUS
<1>4. ASSUME NEW a \in Nat \ {0}, NEW b \in Nat \ {0} PROVE a * b \in Nat \ {0}
  <2>1. 0 * b < a * b
    BY <1>3
  <2> QED BY <1>1, <2>1
<1> QED BY <1>1, <1>2, <1>3, <1>4

\* Quotient and remainder.
LEMMA DivMod ==
  ASSUME NEW x \in Nat, NEW d \in Nat \ {0}
  PROVE  \E q, m \in Nat : q = x \div d /\ m = x % d /\ m < d /\ x = q * d + m
<1>1. PICK q \in Int, m \in Int : q = x \div d /\ m = x % d
  OBVIOUS
<1>2. q \in Nat /\ m \in 0 .. d - 1 /\ x = q * d + m
  BY <1>1
<1>3. m \in Nat /\ m < d
  BY <1>2
<1> QED BY <1>1, <1>2, <1>3, Zenon

\* A rounded capacity of at least one exceeds what it rounds by less than one.
LEMMA Capacity ==
  ASSUME NEW x \in Nat \ {0}, NEW d \in Nat \ {0}
  PROVE  LET b == Stream!AtLeastOne(Stream!Round(x, d))
         IN  b \in Nat \ {0} /\ (b - 1) * d < x
<1>1. PICK q \in Int, m \in Int : q = x \div d /\ m = x % d
  OBVIOUS
<1>2. q \in Nat /\ m \in 0 .. d - 1 /\ x = q * d + m
  BY <1>1
<1>3. PICK b : b = Stream!Round(x, d)
  OBVIOUS
<1>4. b = q \/ (b = q + 1 /\ m > 0)
  <2>1. b = IF 2 * m < d \/ (2 * m = d /\ q % 2 = 0) THEN q ELSE q + 1
    BY <1>1, <1>3 DEF Stream!Round
  <2>2. m = 0 => 2 * m < d
    BY <1>2
  <2>3. m \in Nat /\ (m # 0 => m > 0)
    BY <1>2
  <2>4. ASSUME b # q PROVE b = q + 1 /\ m > 0
    <3>1. ~(2 * m < d \/ (2 * m = d /\ q % 2 = 0))
      BY <2>1, <2>4
    <3>2. b = q + 1 /\ ~(2 * m < d)
      BY <2>1, <2>4, <3>1
    <3> QED BY <2>2, <2>3, <3>2
  <2> QED BY <2>4
<1>5. b \in Nat /\ (b - 1) * d < x
  <2>1. CASE b = q
    <3>1. (q - 1) * d < q * d
      BY <1>2, Products
    <3>2. q * d \in Nat /\ (q - 1) * d \in Int
      BY <1>2
    <3> QED BY <1>2, <2>1, <3>1, <3>2
  <2>2. CASE b = q + 1 /\ m > 0
    <3>1. (b - 1) * d = q * d /\ q * d \in Nat
      BY <1>2, <2>2
    <3> QED BY <1>2, <2>2, <3>1
  <2> QED BY <1>4, <2>1, <2>2
<1>6. Stream!AtLeastOne(b) = IF b < 1 THEN 1 ELSE b
  BY DEF Stream!AtLeastOne
<1>7. (1 - 1) * d = 0
  OBVIOUS
<1> QED BY <1>3, <1>5, <1>6, <1>7

\* The numbers of a schedule and its capacities.
LEMMA ScheduleIs ==
  ASSUME NEW s \in Schedules
  PROVE  LET L     == s.cycle * s.rate * s.multiplier * s.den
             burst == s.cycle * s.num * s.rate * s.multiplier
             B     == Stream!BurstCapacity(s)
             N     == Stream!NormalCapacity(s)
         IN  /\ s.den \in Nat \ {0} /\ s.multiplier \in Nat \ {0}
             /\ L \in Nat \ {0} /\ burst \in Nat \ {0}
             /\ B \in Nat \ {0} /\ (B - 1) * s.den < burst
             /\ N \in Nat \ {0} /\ burst + (N - 1) * s.multiplier * s.den < L /\ burst < L
<1>1. /\ s.rate \in Nat \ {0} /\ s.cycle \in Nat \ {0} /\ s.num \in Nat \ {0}
      /\ s.den \in Nat \ {0} /\ s.multiplier \in Nat \ {0} /\ s.num < s.den
  BY ConfigurationAssumption DEF Stream!IsStream
<1>2. PICK r, c, n, d, m : r = s.rate /\ c = s.cycle /\ n = s.num /\ d = s.den /\ m = s.multiplier
  OBVIOUS
<1>3. r \in Nat \ {0} /\ c \in Nat \ {0} /\ n \in Nat \ {0} /\ d \in Nat \ {0} /\ m \in Nat \ {0}
      /\ d - n \in Nat \ {0}
  BY <1>1, <1>2
<1>4. PICK x, y, B, N : /\ x = r * m * c * n /\ y = r * c * (d - n)
                        /\ B = Stream!AtLeastOne(Stream!Round(x, d))
                        /\ N = Stream!AtLeastOne(Stream!Round(y, d))
  OBVIOUS
<1>5. x \in Nat \ {0} /\ y \in Nat \ {0}
  BY <1>3, <1>4, Products
<1>6. B \in Nat \ {0} /\ (B - 1) * d < x /\ N \in Nat \ {0} /\ (N - 1) * d < y
  BY <1>3, <1>4, <1>5, Capacity
<1>7. B = Stream!BurstCapacity(s) /\ N = Stream!NormalCapacity(s)
  BY <1>2, <1>4 DEF Stream!BurstCapacity, Stream!NormalCapacity
<1>8. PICK L, burst : L = c * r * m * d /\ burst = c * n * r * m
  OBVIOUS
<1>9. L \in Nat \ {0} /\ burst \in Nat \ {0} /\ x = burst
  <2>1. L \in Nat \ {0} /\ burst \in Nat \ {0}
    BY <1>3, <1>8, Products
  <2>2. r * m * c * n = c * n * r * m
    BY <1>3
  <2> QED BY <1>4, <1>8, <2>1, <2>2
<1>10. y * m = L - burst
  BY <1>3, <1>4, <1>8
<1>11. (N - 1) * m * d < L - burst
  <2>1. ((N - 1) * d) * m < y * m
    <3>1. (N - 1) * d \in Int /\ y \in Int
      BY <1>3, <1>5, <1>6
    <3> QED BY <1>3, <1>6, <3>1, Products
  <2>2. ((N - 1) * d) * m = (N - 1) * m * d
    BY <1>3, <1>6
  <2> QED BY <1>10, <2>1, <2>2
<1>12. y * m \in Nat \ {0}
  BY <1>3, <1>5, Products
<1>13. (N - 1) * m * d \in Int
  BY <1>3, <1>6
<1>14. burst + (N - 1) * m * d < L /\ burst < L
  BY <1>9, <1>10, <1>11, <1>12, <1>13
<1> QED BY <1>2, <1>3, <1>6, <1>7, <1>8, <1>9, <1>14

\* The time within a cycle grows with the position in it, and ends before the next cycle.
LEMMA WithinCycle ==
  ASSUME NEW d \in Nat \ {0}, NEW m \in Nat \ {0}, NEW L \in Nat \ {0}, NEW burst \in Nat \ {0},
         NEW B \in Nat \ {0}, (B - 1) * d < burst,
         NEW N \in Nat \ {0}, burst + (N - 1) * m * d < L, burst < L,
         NEW v \in 0 .. B + N - 1
  PROVE  LET W(x) == IF x < B THEN x * d ELSE burst + (x - B) * m * d
         IN  W(v) \in Nat /\ W(v) < L /\ \A u \in 0 .. v - 1 : W(u) < W(v)
<1> DEFINE W(x) == IF x < B THEN x * d ELSE burst + (x - B) * m * d
<1>1. ASSUME NEW x \in 0 .. B + N - 1, x < B PROVE x * d \in Nat /\ x * d < burst
  <2>1. x <= B - 1 /\ x \in Nat /\ B - 1 \in Nat
    BY <1>1
  <2>2. x * d <= (B - 1) * d /\ x * d \in Nat /\ (B - 1) * d \in Nat
    BY <2>1, Products
  <2> QED BY <2>2
<1>2. m * d \in Nat \ {0}
  BY Products
<1>3. ASSUME NEW x \in 0 .. B + N - 1, ~(x < B)
      PROVE  (x - B) * m * d \in Nat /\ (x - B) * m * d = (x - B) * (m * d) /\ burst + (x - B) * m * d < L
  <2>1. x - B <= N - 1 /\ x - B \in Nat /\ N - 1 \in Nat
    BY <1>3
  <2>2. (x - B) * (m * d) <= (N - 1) * (m * d) /\ (x - B) * (m * d) \in Nat /\ (N - 1) * (m * d) \in Nat
    BY <1>2, <2>1, Products
  <2>3. (x - B) * (m * d) = (x - B) * m * d /\ (N - 1) * (m * d) = (N - 1) * m * d
    BY <2>1
  <2> QED BY <2>2, <2>3
<1>4. W(v) \in Nat /\ W(v) < L
  BY <1>1, <1>3
<1>5. ASSUME NEW u \in 0 .. v - 1 PROVE W(u) < W(v)
  <2>1. u \in 0 .. B + N - 1 /\ u < v /\ u \in Nat /\ v \in Nat
    OBVIOUS
  <2>2. CASE v < B
    <3>1. u * d < v * d
      BY <2>1, Products
    <3> QED BY <2>1, <2>2, <3>1
  <2>3. CASE u < B /\ ~(v < B)
    BY <1>1, <1>3, <2>1, <2>3
  <2>4. CASE ~(u < B)
    <3>1. (u - B) * (m * d) < (v - B) * (m * d)
      BY <1>2, <2>1, Products
    <3>2. (u - B) * m * d < (v - B) * m * d
      BY <1>3, <2>1, <2>4, <3>1
    <3> QED BY <1>3, <2>1, <2>4, <3>2
  <2> QED BY <2>1, <2>2, <2>3, <2>4
<1> QED BY <1>4, <1>5

\* Events have natural times that grow with their index, at the edges of bursts and
\* cycles, whose capacities are rounded, too.
LEMMA OffsetGrows ==
  ASSUME NEW s \in Schedules, NEW i \in Nat, NEW j \in Nat
  PROVE  /\ Stream!Offset(s, i) \in Nat
         /\ i < j => Stream!Offset(s, i) < Stream!Offset(s, j)
<1>1. PICK L, burst, B, N, d, m :
        /\ L = s.cycle * s.rate * s.multiplier * s.den
        /\ burst = s.cycle * s.num * s.rate * s.multiplier
        /\ B = Stream!BurstCapacity(s) /\ N = Stream!NormalCapacity(s)
        /\ d = s.den /\ m = s.multiplier
  OBVIOUS
<1>2. /\ d \in Nat \ {0} /\ m \in Nat \ {0} /\ L \in Nat \ {0} /\ burst \in Nat \ {0}
      /\ B \in Nat \ {0} /\ (B - 1) * d < burst
      /\ N \in Nat \ {0} /\ burst + (N - 1) * m * d < L /\ burst < L
  BY <1>1, ScheduleIs
<1>3. PICK cap : cap = B + N
  OBVIOUS
<1> DEFINE W(x) == IF x < B THEN x * d ELSE burst + (x - B) * m * d
<1>4. ASSUME NEW x \in Nat
      PROVE  \E q \in Nat : \E w \in 0 .. cap - 1 : x = q * cap + w /\ Stream!Offset(s, x) = q * L + W(w)
  <2>1. cap \in Nat \ {0}
    BY <1>2, <1>3
  <2>2. PICK q, w \in Nat : q = x \div cap /\ w = x % cap /\ w < cap /\ x = q * cap + w
    BY <2>1, DivMod
  <2>4. Stream!Offset(s, x) = LET start0 == q * s.cycle * s.rate * s.multiplier * s.den
                              IN  IF w < B THEN start0 + w * d ELSE start0 + burst + (w - B) * m * d
    BY <1>1, <1>3, <2>2 DEF Stream!Offset
  <2>5. q * s.cycle * s.rate * s.multiplier * s.den = q * L
    <3>1. /\ s.cycle \in Nat /\ s.rate \in Nat /\ s.multiplier \in Nat /\ s.den \in Nat
      BY ConfigurationAssumption DEF Stream!IsStream
    <3>2. PICK a, b, e, g : a = s.cycle /\ b = s.rate /\ e = s.multiplier /\ g = s.den
      OBVIOUS
    <3>3. a \in Nat /\ b \in Nat /\ e \in Nat /\ g \in Nat
      BY <3>1, <3>2
    <3>4. q * a * b * e * g = q * (a * b * e * g)
      BY <3>3
    <3> QED BY <1>1, <3>2, <3>4
  <2>6. Stream!Offset(s, x) = q * L + W(w)
    <3>1. q * L \in Nat /\ (w - B) * m * d \in Int /\ burst \in Nat /\ w * d \in Int
      BY <1>2
    <3> QED BY <2>4, <2>5, <3>1
  <2>7. w \in 0 .. cap - 1
    BY <2>1, <2>2
  <2> HIDE DEF W
  <2> QED BY <2>2, <2>6, <2>7
<1>5. ASSUME NEW v \in 0 .. cap - 1 PROVE W(v) \in Nat /\ W(v) < L /\ \A u \in 0 .. v - 1 : W(u) < W(v)
  BY <1>2, <1>3, WithinCycle
<1> HIDE DEF W
<1>6. Stream!Offset(s, i) \in Nat
  <2>1. PICK q \in Nat, w \in 0 .. cap - 1 : Stream!Offset(s, i) = q * L + W(w)
    BY <1>4
  <2>2. W(w) \in Nat
    BY <1>5
  <2> QED BY <1>2, <2>1, <2>2
<1>7. ASSUME i < j PROVE Stream!Offset(s, i) < Stream!Offset(s, j)
  <2>1. cap \in Nat
    BY <1>2, <1>3
  <2>2. PICK p \in Nat, q \in Nat, u \in 0 .. cap - 1, v \in 0 .. cap - 1 :
          /\ i = p * cap + u /\ Stream!Offset(s, i) = p * L + W(u)
          /\ j = q * cap + v /\ Stream!Offset(s, j) = q * L + W(v)
    <3>1. PICK p \in Nat, u \in 0 .. cap - 1 : i = p * cap + u /\ Stream!Offset(s, i) = p * L + W(u)
      BY <1>4
    <3>2. PICK q \in Nat, v \in 0 .. cap - 1 : j = q * cap + v /\ Stream!Offset(s, j) = q * L + W(v)
      BY <1>4
    <3> QED BY <3>1, <3>2
  <2>3. W(u) \in Nat /\ W(u) < L /\ W(v) \in Nat
    BY <1>5, <2>2
  <2>4. p <= q
    <3>1. SUFFICES ASSUME q < p PROVE FALSE
      BY <2>1, <2>2
    <3>2. (q + 1) * cap <= p * cap /\ (q + 1) * cap = q * cap + cap /\ q * cap \in Nat /\ p * cap \in Nat
      BY <2>1, <2>2, <3>1, Products
    <3> QED BY <1>7, <2>1, <2>2, <3>2
  <2>5. CASE p = q
    <3>1. u \in 0 .. v - 1 /\ p * cap \in Nat /\ p * L \in Nat
      BY <1>2, <1>7, <2>1, <2>2, <2>5, Products
    <3>2. W(u) < W(v)
      BY <1>5, <2>2, <3>1
    <3> QED BY <2>2, <2>3, <2>5, <3>1, <3>2
  <2>6. CASE p < q
    <3>1. (p + 1) * L <= q * L /\ (p + 1) * L = p * L + L /\ p * L \in Nat /\ q * L \in Nat /\ L \in Nat
      <4>1. p + 1 <= q /\ p + 1 \in Nat /\ L \in Nat
        BY <1>2, <2>2, <2>6
      <4>2. (p + 1) * L <= q * L /\ p * L \in Nat /\ q * L \in Nat
        BY <2>2, <4>1, Products
      <4>3. (p + 1) * L = p * L + L
        BY <2>2, <4>1
      <4> QED BY <4>1, <4>2, <4>3
    <3> QED BY <2>2, <2>3, <3>1
  <2> QED BY <2>2, <2>4, <2>5, <2>6
<1> QED BY <1>6, <1>7

\* Rounding keeps the order, though not the distance, of what it rounds.
LEMMA RoundGrows ==
  ASSUME NEW a \in Nat, NEW b \in Nat, NEW d \in Nat \ {0}
  PROVE  /\ Stream!Round(a, d) \in Nat
         /\ a <= b => Stream!Round(a, d) <= Stream!Round(b, d)
<1>1. PICK q, m \in Nat : q = a \div d /\ m = a % d /\ m < d /\ a = q * d + m
  BY DivMod
<1>2. PICK r, n \in Nat : r = b \div d /\ n = b % d /\ n < d /\ b = r * d + n
  BY DivMod
<1>3. PICK u, v : u = Stream!Round(a, d) /\ v = Stream!Round(b, d)
  OBVIOUS
<1>4. u = IF 2 * m < d \/ (2 * m = d /\ q % 2 = 0) THEN q ELSE q + 1
  BY <1>1, <1>3 DEF Stream!Round
<1>5. v = IF 2 * n < d \/ (2 * n = d /\ r % 2 = 0) THEN r ELSE r + 1
  BY <1>2, <1>3 DEF Stream!Round
<1>6. u \in {q, q + 1} /\ v \in {r, r + 1}
  BY <1>4, <1>5
<1>7. ASSUME a <= b PROVE q <= r
  <2>1. SUFFICES ASSUME r + 1 <= q PROVE FALSE
    BY <1>1, <1>2
  <2>2. (r + 1) * d <= q * d /\ (r + 1) * d = r * d + d
    BY <1>1, <1>2, <2>1, Products
  <2>3. q * d \in Nat /\ r * d \in Nat
    BY <1>1, <1>2
  <2> QED BY <1>1, <1>2, <1>7, <2>2, <2>3
<1>8. ASSUME a <= b PROVE u <= v
  <2>1. CASE q = r
    <3>1. m <= n
      <4>1. q * d \in Nat
        BY <1>1
      <4> QED BY <1>1, <1>2, <1>8, <2>1, <4>1
    <3> QED BY <1>1, <1>2, <1>4, <1>5, <2>1, <3>1
  <2>2. CASE q < r
    BY <1>1, <1>2, <1>6, <2>2
  <2> QED BY <1>1, <1>2, <1>7, <1>8, <2>1, <2>2
<1> QED BY <1>1, <1>3, <1>6, <1>8

\* Produced timestamps are natural and do not decrease with the index.
LEMMA MillisecondsGrow ==
  ASSUME NEW s \in Schedules, NEW i \in Nat, NEW j \in Nat
  PROVE  /\ Stream!Milliseconds(s, i) \in Nat
         /\ i <= j => Stream!Milliseconds(s, i) <= Stream!Milliseconds(s, j)
<1>1. /\ s.rate \in Nat \ {0} /\ s.den \in Nat \ {0} /\ s.multiplier \in Nat \ {0}
      /\ s.acceleration \in Nat \ {0}
  BY ConfigurationAssumption DEF Stream!IsStream
<1>2. PICK o, p, g, u : /\ o = Stream!Offset(s, i) /\ p = Stream!Offset(s, j)
                        /\ g = s.acceleration /\ u = s.rate * s.multiplier * s.den
  OBVIOUS
<1>3. o \in Nat /\ p \in Nat /\ (i <= j => o <= p) /\ g \in Nat
  <2>1. i < j => o < p
    BY <1>2, OffsetGrows
  <2>2. i = j => o = p
    BY <1>2
  <2>3. o \in Nat /\ p \in Nat
    BY <1>2, OffsetGrows
  <2> QED BY <1>1, <1>2, <2>1, <2>2, <2>3
<1>4. u \in Nat \ {0}
  <2>1. s.rate * s.multiplier \in Nat \ {0}
    BY <1>1, Products
  <2> QED BY <1>1, <1>2, <2>1, Products
<1>5. PICK x, y : x = o * g /\ y = p * g
  OBVIOUS
<1>6. x \in Nat /\ y \in Nat /\ (i <= j => x <= y)
  BY <1>3, <1>5, Products
<1>7. x * 1000 \in Nat /\ y * 1000 \in Nat /\ (i <= j => x * 1000 <= y * 1000)
  BY <1>6
<1>8. /\ Stream!Milliseconds(s, i) = Stream!Round(x * 1000, u)
      /\ Stream!Milliseconds(s, j) = Stream!Round(y * 1000, u)
  BY <1>2, <1>5 DEF Stream!Milliseconds, Stream!Second
<1> QED BY <1>4, <1>7, <1>8, RoundGrows

-----------------------------------------------------------------------------
(* The sequences that FlattenSeq returns *)

\* f has what FlattenSeq builds of the first m sequences, step by step.
FlattensUpTo(f, seqs, m) ==
  f = [i \in 1 .. m |-> IF i = 1 THEN seqs[i] ELSE f[i - 1] \o seqs[i]]

\* FlattenSeq is defined.
LEMMA FlattenExists ==
  ASSUME NEW seqs, NEW n \in Nat
  PROVE  \E f : FlattensUpTo(f, seqs, n)
<1> DEFINE G == {m \in 0 .. n : \E f : FlattensUpTo(f, seqs, m)}
<1>1. 0 \in G
  <2>1. FlattensUpTo([i \in 1 .. 0 |-> <<>>], seqs, 0)
    BY DEF FlattensUpTo
  <2> QED BY <2>1
<1>2. ASSUME NEW m \in 0 .. (n - 1), m \in G PROVE m + 1 \in G
  <2>1. PICK f : FlattensUpTo(f, seqs, m)
    BY <1>2
  <2> DEFINE last == IF m + 1 = 1 THEN seqs[m + 1] ELSE f[m] \o seqs[m + 1]
             g == [i \in 1 .. (m + 1) |-> IF i = m + 1 THEN last ELSE f[i]]
  <2>2. \A i \in 1 .. m : f[i] = IF i = 1 THEN seqs[i] ELSE f[i - 1] \o seqs[i]
    BY <2>1 DEF FlattensUpTo
  <2>3. ASSUME NEW i \in 1 .. (m + 1) PROVE g[i] = IF i = 1 THEN seqs[i] ELSE g[i - 1] \o seqs[i]
    <3>1. CASE i = m + 1
      BY <3>1
    <3>2. CASE i # m + 1
      BY <2>2, <3>2
    <3> QED BY <3>1, <3>2
  <2>4. g = [i \in 1 .. (m + 1) |-> IF i = 1 THEN seqs[i] ELSE g[i - 1] \o seqs[i]]
    <3> HIDE DEF last
    <3>1. DOMAIN g = 1 .. (m + 1) /\ g = [i \in DOMAIN g |-> g[i]]
      OBVIOUS
    <3> HIDE DEF g
    <3> QED BY <2>3, <3>1
  <2>5. FlattensUpTo(g, seqs, m + 1)
    BY <2>4 DEF FlattensUpTo
  <2> HIDE DEF g
  <2> QED BY <2>5
<1>3. \A i \in 0 .. n : i \in G
  <2> HIDE DEF G
  <2> QED BY <1>1, <1>2, Induction
<1> QED BY <1>3

\* The first m sequences stand in flat one after the other, the i-th after position
\* o[i], and nothing else does.
Pieces(seqs, flat, o, m) ==
  /\ \A i \in 1 .. m : /\ o[i] \in Nat /\ o[i] + Len(seqs[i]) <= Len(flat)
                       /\ \A j \in 1 .. Len(seqs[i]) : flat[o[i] + j] = seqs[i][j]
  /\ \A k \in 1 .. Len(flat) : \E i \in 1 .. m : k - o[i] \in 1 .. Len(seqs[i])
  /\ \A i, j \in 1 .. m : i < j => o[i] + Len(seqs[i]) <= o[j]

\* One sequence more.
LEMMA PieceAdded ==
  ASSUME NEW T, NEW a \in Seq(T), NEW m \in Nat, NEW seqs, \A i \in 1 .. m + 1 : seqs[i] \in Seq(T),
         NEW o, Pieces(seqs, a, o, m)
  PROVE  /\ a \o seqs[m + 1] \in Seq(T)
         /\ \E p : Pieces(seqs, a \o seqs[m + 1], p, m + 1)
<1>1. PICK b, c : b = seqs[m + 1] /\ c = a \o b
  OBVIOUS
<1>2. b \in Seq(T)
  BY <1>1
<1>3. /\ c \in Seq(T) /\ Len(c) = Len(a) + Len(b) /\ Len(a) \in Nat /\ Len(b) \in Nat
      /\ (\A j \in 1 .. Len(a) : c[j] = a[j]) /\ \A j \in 1 .. Len(b) : c[Len(a) + j] = b[j]
  BY <1>1, <1>2
<1> DEFINE p == [i \in 1 .. m + 1 |-> IF i = m + 1 THEN Len(a) ELSE o[i]]
<1>4. p[m + 1] = Len(a) /\ \A i \in 1 .. m : p[i] = o[i] /\ Len(seqs[i]) \in Nat
  OBVIOUS
<1> HIDE DEF p
<1>5. ASSUME NEW i \in 1 .. m + 1
      PROVE  /\ p[i] \in Nat /\ p[i] + Len(seqs[i]) <= Len(c)
             /\ \A j \in 1 .. Len(seqs[i]) : c[p[i] + j] = seqs[i][j]
  <2>1. CASE i = m + 1
    <3>1. p[i] = Len(a) /\ seqs[i] = b
      BY <1>1, <1>4, <2>1
    <3>2. Len(a) \in Nat /\ Len(b) \in Nat /\ Len(c) = Len(a) + Len(b)
      BY <1>3
    <3>3. \A j \in 1 .. Len(b) : c[Len(a) + j] = b[j]
      BY <1>3
    <3>4. p[i] + Len(seqs[i]) <= Len(c)
      BY <3>1, <3>2
    <3> QED BY <3>1, <3>2, <3>3, <3>4
  <2>2. CASE i \in 1 .. m
    <3>1. /\ o[i] \in Nat /\ o[i] + Len(seqs[i]) <= Len(a) /\ p[i] = o[i] /\ Len(seqs[i]) \in Nat
          /\ \A j \in 1 .. Len(seqs[i]) : a[o[i] + j] = seqs[i][j]
      BY <1>4, <2>2 DEF Pieces
    <3>2. \A j \in 1 .. Len(seqs[i]) : o[i] + j \in 1 .. Len(a)
      BY <1>3, <3>1
    <3>3. ASSUME NEW j \in 1 .. Len(seqs[i]) PROVE c[p[i] + j] = seqs[i][j]
      <4>1. c[o[i] + j] = a[o[i] + j]
        BY <1>3, <3>2
      <4> QED BY <3>1, <4>1
    <3>4. p[i] \in Nat /\ p[i] + Len(seqs[i]) <= Len(c)
      BY <1>3, <3>1
    <3> QED BY <3>3, <3>4
  <2> QED BY <2>1, <2>2
<1>6. ASSUME NEW k \in 1 .. Len(c) PROVE \E i \in 1 .. m + 1 : k - p[i] \in 1 .. Len(seqs[i])
  <2>1. CASE k <= Len(a)
    <3>1. k \in 1 .. Len(a)
      BY <1>3, <2>1
    <3>2. PICK i \in 1 .. m : k - o[i] \in 1 .. Len(seqs[i])
      BY <3>1 DEF Pieces
    <3> QED BY <1>4, <3>2
  <2>2. CASE ~(k <= Len(a))
    <3>1. k - Len(a) \in 1 .. Len(b) /\ m + 1 \in 1 .. m + 1
      BY <1>3, <2>2
    <3> QED BY <1>1, <1>4, <3>1
  <2> QED BY <2>1, <2>2
<1>7. ASSUME NEW i \in 1 .. m + 1, NEW j \in 1 .. m + 1, i < j PROVE p[i] + Len(seqs[i]) <= p[j]
  <2>1. i \in 1 .. m
    BY <1>7
  <2>2. CASE j = m + 1
    BY <1>4, <2>1, <2>2 DEF Pieces
  <2>3. CASE j \in 1 .. m
    BY <1>4, <1>7, <2>1, <2>3 DEF Pieces
  <2> QED BY <2>2, <2>3
<1>8. Pieces(seqs, c, p, m + 1)
  BY <1>5, <1>6, <1>7 DEF Pieces
<1> QED BY <1>1, <1>3, <1>8

\* A flattened sequence has each of the sequences in one piece, in order.
LEMMA Flattened ==
  ASSUME NEW T, NEW n \in Nat \ {0}, NEW seqs \in Seq(Seq(T)), Len(seqs) = n
  PROVE  FlattenSeq(seqs) \in Seq(T) /\ \E o : Pieces(seqs, FlattenSeq(seqs), o, n)
<1>0. \A i \in 1 .. n : seqs[i] \in Seq(T)
  OBVIOUS
<1>1. PICK f : FlattensUpTo(f, seqs, n) /\ f[n] = FlattenSeq(seqs)
  <2>1. \E f : FlattensUpTo(f, seqs, n)
    BY FlattenExists
  <2>2. FlattensUpTo(CHOOSE f : FlattensUpTo(f, seqs, n), seqs, n)
    BY <2>1
  <2>3. FlattenSeq(seqs) = (CHOOSE f : FlattensUpTo(f, seqs, n))[n]
    BY DEF FlattenSeq, FlattensUpTo
  <2> QED BY <2>2, <2>3
<1>2. \A i \in 1 .. n : f[i] = IF i = 1 THEN seqs[i] ELSE f[i - 1] \o seqs[i]
  BY <1>1 DEF FlattensUpTo
<1> DEFINE Fits(m) == f[m] \in Seq(T) /\ \E o : Pieces(seqs, f[m], o, m)
           G == {m \in 0 .. n : m = 0 \/ Fits(m)}
<1>3. 0 \in G
  OBVIOUS
<1>4. ASSUME NEW m \in 0 .. (n - 1), m \in G PROVE m + 1 \in G
  <2>1. m + 1 \in 1 .. n /\ seqs[m + 1] \in Seq(T) /\ m \in Nat
    BY <1>0
  <2>2. CASE m = 0
    <3>1. f[1] = seqs[1] /\ f[1] \in Seq(T)
      BY <1>0, <1>2, <2>1, <2>2
    <3>2. Len(f[1]) \in Nat
      BY <3>1
    <3>3. Pieces(seqs, f[1], [i \in 1 .. 1 |-> 0], 1)
      BY <3>1, <3>2 DEF Pieces
    <3>4. Fits(1)
      <4> HIDE DEF Pieces
      <4> QED BY <3>1, <3>3
    <3> QED BY <2>1, <2>2, <3>4
  <2>3. CASE m # 0
    <3>1. f[m] \in Seq(T) /\ \E o : Pieces(seqs, f[m], o, m)
      BY <1>4, <2>3
    <3>2. PICK o : Pieces(seqs, f[m], o, m)
      BY <3>1
    <3>3. f[m + 1] = f[m] \o seqs[m + 1]
      <4>1. m + 1 # 1 /\ (m + 1) - 1 = m
        BY <2>1, <2>3
      <4> QED BY <1>2, <2>1, <4>1
    <3>4. \A i \in 1 .. m + 1 : seqs[i] \in Seq(T)
      BY <1>0
    <3>5. f[m] \o seqs[m + 1] \in Seq(T) /\ \E p : Pieces(seqs, f[m] \o seqs[m + 1], p, m + 1)
      BY <2>1, <3>1, <3>2, <3>4, PieceAdded
    <3>6. Fits(m + 1)
      BY <3>3, <3>5
    <3> QED BY <2>1, <3>6
  <2> QED BY <2>2, <2>3
<1>5. \A i \in 0 .. n : i \in G
  <2> HIDE DEF G
  <2> QED BY <1>3, <1>4, Induction
<1>6. n \in G /\ n # 0
  BY <1>5
<1>7. Fits(n)
  <2> HIDE DEF Fits
  <2> QED BY <1>6
<1> QED BY <1>1, <1>7

-----------------------------------------------------------------------------
(* A buffer of the stream *)

\* What Init draws.
PlanIs ==
  /\ plan.schedule \in Schedules
  /\ plan.anchors \subseteq Stream!SwapCandidates
  /\ plan.duplicates \cap plan.invalid = {}

\* The generator is about to fill a buffer.
AtBuffer ==
  /\ PlanIs /\ start \in 0 .. Count - 1
  /\ \E q \in Nat : start = q * BufferSize

\* What StreamConfig asks of the numbers of a stream.
LEMMA StreamNumbers ==
  /\ Count \in Nat \ {0} /\ BufferSize \in Nat \ {0}
  /\ WatermarkDelay \in Nat /\ Delays \subseteq Nat /\ LateDelays \subseteq Nat
BY ConfigurationAssumption DEF Stream!IsStream

\* Where a buffer ends.
LEMMA StopIs ==
  ASSUME start \in 0 .. Count - 1
  PROVE  /\ Stream!Stop \in start + 1 .. Count
         /\ Stream!Stop - start <= BufferSize
         /\ Stream!Stop = start + BufferSize \/ Stream!Stop = Count
<1>1. PICK a, b : a = start + BufferSize /\ b = Count
  OBVIOUS
<1>2. a \in Nat /\ b \in Nat /\ start \in Nat /\ start < a /\ start < b /\ a = start + BufferSize
  BY <1>1, StreamNumbers
<1> DEFINE M == Min({a, b})
<1>3. \E x \in {a, b} : \A y \in {a, b} : x <= y
  BY <1>2
<1>4. M \in {a, b} /\ \A y \in {a, b} : M <= y
  BY <1>3 DEF Min
<1>5. Stream!Stop = M
  BY <1>1 DEF Stream!Stop, Stream!Min, Min
<1> HIDE DEF M
<1> QED BY <1>1, <1>2, <1>4, <1>5, StreamNumbers

\* An event to be swapped is at an odd position of its buffer and not the last one.
LEMMA AnchorsInBuffer ==
  ASSUME AtBuffer, NEW p \in 1 .. Stream!Stop - start, start + p - 1 \in plan.anchors
  PROVE  p < Stream!Stop - start /\ p % 2 = 1
<1>1. PICK q \in Nat : start = q * BufferSize
  BY DEF AtBuffer
<1>2. PICK B, s, e : B = BufferSize /\ s = start /\ e = Stream!Stop
  OBVIOUS
<1>3. /\ B \in Nat \ {0} /\ s \in Nat /\ s = q * B /\ e \in s + 1 .. Count /\ e - s <= B
      /\ e = s + B \/ e = Count
  BY <1>1, <1>2, StopIs, StreamNumbers DEF AtBuffer
<1>4. p \in Nat /\ 1 <= p /\ p <= e - s
  BY <1>2, <1>3
<1>5. PICK i : i = s + p - 1
  OBVIOUS
<1>6. i \in Nat /\ i + 1 \in Nat
  BY <1>3, <1>4, <1>5
<1>7. (i % B) % 2 = 0 /\ i + 1 \in 0 .. Count - 1 /\ (i + 1) \div B = i \div B
  BY <1>2, <1>5 DEF AtBuffer, PlanIs, Stream!SwapCandidates, Stream!Events
<1>8. PICK k, m \in Nat : k = i \div B /\ m = i % B /\ m < B /\ i = k * B + m
  BY <1>3, <1>6, DivMod
<1>9. PICK l, n \in Nat : l = (i + 1) \div B /\ n = (i + 1) % B /\ n < B /\ i + 1 = l * B + n
  BY <1>3, <1>6, DivMod
<1>10. k = q
  <2>1. ~(k < q)
    <3>1. SUFFICES ASSUME k < q PROVE FALSE
      OBVIOUS
    <3>2. (k + 1) * B <= q * B /\ (k + 1) * B = k * B + B /\ k * B \in Nat
      BY <1>3, <1>8, <3>1, Products
    <3> QED BY <1>3, <1>4, <1>5, <1>8, <3>2
  <2>2. ~(q < k)
    <3>1. SUFFICES ASSUME q < k PROVE FALSE
      OBVIOUS
    <3>2. (q + 1) * B <= k * B /\ (q + 1) * B = q * B + B /\ k * B \in Nat
      BY <1>3, <1>8, <3>1, Products
    <3> QED BY <1>3, <1>4, <1>5, <1>8, <3>2
  <2> QED BY <1>8, <2>1, <2>2
<1>11. k * B = s /\ l * B = s
  BY <1>3, <1>7, <1>8, <1>9, <1>10
<1>12. m = p - 1 /\ n = p
  BY <1>3, <1>4, <1>5, <1>8, <1>9, <1>11
<1>13. (p - 1) % 2 = 0
  BY <1>7, <1>8, <1>12
<1>14. p % 2 = 1
  BY <1>4, <1>13
<1>15. p < e - s
  BY <1>3, <1>4, <1>5, <1>7, <1>9, <1>12
<1> QED BY <1>2, <1>14, <1>15

\* An event that is swapped with the next one in its buffer.
Anchor(p) == p \in 1 .. Stream!Stop - start - 1 /\ start + p - 1 \in plan.anchors

\* The event at a position of the buffer that is sent.
At(p) == IF Anchor(p) THEN start + p ELSE IF Anchor(p - 1) THEN start + p - 2 ELSE start + p - 1

\* No two events in a row are swapped with the next.
LEMMA NoTwoAnchors ==
  ASSUME AtBuffer, NEW p \in Int, Anchor(p)
  PROVE  ~Anchor(p - 1) /\ ~Anchor(p + 1) /\ p + 1 \in 1 .. Stream!Stop - start
<1>1. start \in Nat /\ Stream!Stop \in Nat
  BY StopIs, StreamNumbers DEF AtBuffer
<1>2. ASSUME NEW x \in Int, Anchor(x) PROVE x % 2 = 1
  <2>1. x \in 1 .. Stream!Stop - start /\ start + x - 1 \in plan.anchors
    BY <1>1, <1>2 DEF Anchor
  <2> QED BY <2>1, AnchorsInBuffer
<1>3. p % 2 = 1
  BY <1>2
<1>4. (p - 1) % 2 # 1 /\ (p + 1) % 2 # 1
  BY <1>3
<1>5. p + 1 \in 1 .. Stream!Stop - start
  BY <1>1 DEF Anchor
<1> QED BY <1>2, <1>4, <1>5

\* What the swaps make of the order in a buffer: every event is there; a younger one
\* comes first only as the partner of one to be swapped, and there it does.
LEMMA OrderOfBuffer ==
  ASSUME AtBuffer, NEW p \in 1 .. Stream!Stop - start
  PROVE  /\ At(p) \in start .. Stream!Stop - 1
         /\ \A o \in 1 .. p - 1 : \/ At(o) < At(p)
                                  \/ At(p) \in plan.anchors /\ At(o) = At(p) + 1
         /\ At(p) \in plan.anchors => \E o \in 1 .. p - 1 : At(o) = At(p) + 1
         /\ \E o \in 1 .. Stream!Stop - start : At(o) = start + p - 1
<1>1. PICK s, e : s = start /\ e = Stream!Stop
  OBVIOUS
<1>2. s \in Nat /\ e \in Nat /\ p \in Nat /\ 1 <= p /\ p <= e - s
  BY <1>1, StopIs, StreamNumbers DEF AtBuffer
<1>3. ASSUME NEW x \in Int
      PROVE  /\ Anchor(x) => 1 <= x /\ x < e - s /\ s + x - 1 \in plan.anchors
                               /\ ~Anchor(x - 1) /\ ~Anchor(x + 1)
             /\ At(x) = IF Anchor(x) THEN s + x ELSE IF Anchor(x - 1) THEN s + x - 2 ELSE s + x - 1
  <2>1. Anchor(x) => ~Anchor(x - 1) /\ ~Anchor(x + 1)
    BY NoTwoAnchors
  <2>2. Anchor(x) => x \in 1 .. e - s - 1 /\ s + x - 1 \in plan.anchors
    BY <1>1 DEF Anchor
  <2>3. At(x) = IF Anchor(x) THEN s + x ELSE IF Anchor(x - 1) THEN s + x - 2 ELSE s + x - 1
    BY <1>1 DEF At
  <2> QED BY <1>2, <2>1, <2>2, <2>3
<1>4. ASSUME NEW x \in 1 .. e - s, s + x - 1 \in plan.anchors PROVE Anchor(x)
  BY <1>1, <1>2, <1>4, AnchorsInBuffer DEF Anchor
<1>5. At(p) \in s .. e - 1
  BY <1>2, <1>3
<1>6. ASSUME NEW o \in 1 .. p - 1
      PROVE  At(o) < At(p) \/ (At(p) \in plan.anchors /\ At(o) = At(p) + 1)
  <2>1. o \in Nat /\ 1 <= o /\ o < p
    BY <1>2
  <2>2. CASE o = p - 1
    <3>1. CASE Anchor(o)
      <4>1. ~Anchor(p) /\ Anchor(p - 1) /\ s + (p - 1) - 1 \in plan.anchors
        BY <1>2, <1>3, <2>2, <3>1
      <4>2. At(p) = s + p - 2 /\ At(o) = s + o /\ s + (p - 1) - 1 = s + p - 2
        BY <1>2, <1>3, <2>1, <3>1, <4>1
      <4> QED BY <1>2, <2>2, <4>1, <4>2
    <3>2. CASE ~Anchor(o)
      <4>1. ~Anchor(p - 1)
        BY <2>2, <3>2
      <4>2. At(p) = s + p \/ At(p) = s + p - 1
        BY <1>2, <1>3, <4>1
      <4>3. At(o) = s + o - 2 \/ At(o) = s + o - 1
        BY <1>2, <1>3, <2>1, <3>2
      <4> QED BY <1>2, <2>2, <4>2, <4>3
    <3> QED BY <3>1, <3>2
  <2>3. CASE o = p - 2
    <3>1. At(o) = s + o \/ At(o) = s + o - 2 \/ At(o) = s + o - 1
      BY <1>2, <1>3, <2>1
    <3>2. At(p) = s + p \/ At(p) = s + p - 2 \/ At(p) = s + p - 1
      BY <1>2, <1>3
    <3>3. Anchor(o) => At(p) # s + p - 2
      <4>1. Anchor(o) => ~Anchor(p - 1)
        <5>1. p - 1 = o + 1
          BY <1>2, <2>1, <2>3
        <5> QED BY <1>3, <2>1, <5>1
      <4> QED BY <1>2, <1>3, <4>1
    <3>4. ~Anchor(o) => At(o) # s + o
      BY <1>2, <1>3, <2>1
    <3> QED BY <1>2, <2>1, <2>3, <3>1, <3>2, <3>3, <3>4
  <2>4. CASE o < p - 2
    <3>1. At(o) = s + o \/ At(o) = s + o - 2 \/ At(o) = s + o - 1
      BY <1>2, <1>3, <2>1
    <3>2. At(p) = s + p \/ At(p) = s + p - 2 \/ At(p) = s + p - 1
      BY <1>2, <1>3
    <3> QED BY <1>2, <2>1, <2>4, <3>1, <3>2
  <2> QED BY <1>2, <2>1, <2>2, <2>3, <2>4
<1>7. ASSUME At(p) \in plan.anchors PROVE \E o \in 1 .. p - 1 : At(o) = At(p) + 1
  <2>1. CASE Anchor(p)
    <3>1. At(p) = s + (p + 1) - 1 /\ p + 1 \in 1 .. e - s
      BY <1>2, <1>3, <2>1
    <3>2. Anchor(p + 1)
      BY <1>4, <1>7, <3>1
    <3> QED BY <1>2, <1>3, <2>1, <3>2
  <2>2. CASE ~Anchor(p) /\ ~Anchor(p - 1)
    <3>1. At(p) = s + p - 1
      BY <1>2, <1>3, <2>2
    <3> QED BY <1>2, <1>4, <1>7, <2>2, <3>1
  <2>3. CASE ~Anchor(p) /\ Anchor(p - 1)
    <3>1. At(p) = s + p - 2 /\ At(p - 1) = s + (p - 1) /\ p - 1 \in 1 .. p - 1
      BY <1>2, <1>3, <2>3
    <3> QED BY <1>2, <3>1
  <2> QED BY <2>1, <2>2, <2>3
<1>8. \E o \in 1 .. e - s : At(o) = s + p - 1
  <2>1. CASE Anchor(p)
    <3>1. Anchor((p + 1) - 1) /\ ~Anchor(p + 1) /\ p + 1 \in 1 .. e - s
      BY <1>2, <1>3, <2>1
    <3>2. At(p + 1) = s + (p + 1) - 2
      BY <1>2, <1>3, <3>1
    <3> QED BY <1>2, <3>1, <3>2
  <2>2. CASE ~Anchor(p) /\ ~Anchor(p - 1)
    BY <1>2, <1>3, <2>2
  <2>3. CASE ~Anchor(p) /\ Anchor(p - 1)
    <3>1. At(p - 1) = s + (p - 1) /\ p - 1 \in 1 .. e - s
      BY <1>2, <1>3, <2>3
    <3> QED BY <1>2, <3>1
  <2> QED BY <2>1, <2>2, <2>3
<1> QED BY <1>1, <1>5, <1>6, <1>7, <1>8

-----------------------------------------------------------------------------
(* What a stream has sent *)

Envelopes ==
  [index : Nat, produced : Int, time : Int, late : BOOLEAN, outOfOrder : BOOLEAN,
   invalid : BOOLEAN, duplicate : BOOLEAN]

\* e is one of the events from .. to - 1 as the plan has it, or its retry.
IsSent(e, from, to) ==
  /\ e \in Envelopes
  /\ e.index \in from .. to - 1
  /\ e.produced = Stream!Milliseconds(plan.schedule, e.index)
  /\ \E delay \in Stream!DelaysOf(e.index) : e.time = e.produced - delay * Stream!Second
  /\ e.late = (e.index \in plan.late) /\ e.outOfOrder = (e.index \in plan.anchors)
  /\ e.invalid = (e.index \in plan.invalid)
  /\ e.duplicate => e.index \in plan.duplicates

\* e may be sent before f.
MayPrecede(e, f) ==
  \/ e.index < f.index
  \/ e.index = f.index /\ ~e.duplicate /\ f.duplicate
  \/ f.index \in plan.anchors /\ e.index = f.index + 1

\* Every event from .. to - 1 is in s, in an order and with retries the plan allows.
Streamed(s, from, to) ==
  /\ s \in Seq(Envelopes)
  /\ \A k \in 1 .. Len(s) : IsSent(s[k], from, to)
  /\ \A k \in 1 .. Len(s) : \A j \in 1 .. k - 1 : MayPrecede(s[j], s[k])
  /\ \A k \in 1 .. Len(s) :
       s[k].index \in plan.anchors => \E j \in 1 .. k - 1 : s[j].index = s[k].index + 1
  /\ \A y \in from .. to - 1 : \E k \in 1 .. Len(s) : s[k].index = y /\ ~s[k].duplicate

\* A buffer after what was sent before.
LEMMA StreamedAppended ==
  ASSUME NEW a, NEW b, NEW m \in Nat, NEW to \in Nat, m <= to,
         Streamed(a, 0, m), Streamed(b, m, to)
  PROVE  Streamed(a \o b, 0, to)
<1>1. PICK c : c = a \o b
  OBVIOUS
<1>2. a \in Seq(Envelopes) /\ b \in Seq(Envelopes)
  BY DEF Streamed
<1>3. /\ c \in Seq(Envelopes) /\ Len(a) \in Nat /\ Len(b) \in Nat /\ Len(c) = Len(a) + Len(b)
      /\ (\A k \in 1 .. Len(a) : c[k] = a[k])
      /\ \A k \in 1 .. Len(c) : ~(k <= Len(a)) => k - Len(a) \in 1 .. Len(b) /\ c[k] = b[k - Len(a)]
  BY <1>1, <1>2
<1>4. ASSUME NEW k \in 1 .. Len(c)
      PROVE  \/ k \in 1 .. Len(a) /\ c[k] = a[k]
             \/ k - Len(a) \in 1 .. Len(b) /\ ~(k <= Len(a)) /\ c[k] = b[k - Len(a)]
  BY <1>3
<1>5. ASSUME NEW k \in 1 .. Len(c) PROVE IsSent(c[k], 0, to)
  <2>1. CASE k \in 1 .. Len(a) /\ c[k] = a[k]
    <3>1. IsSent(c[k], 0, m)
      BY <2>1 DEF Streamed
    <3> QED BY <3>1 DEF IsSent
  <2>2. CASE k - Len(a) \in 1 .. Len(b) /\ c[k] = b[k - Len(a)]
    <3>1. IsSent(c[k], m, to)
      BY <2>2 DEF Streamed
    <3> QED BY <3>1 DEF IsSent
  <2> QED BY <1>4, <2>1, <2>2
<1>6. ASSUME NEW k \in 1 .. Len(c), NEW j \in 1 .. k - 1 PROVE MayPrecede(c[j], c[k])
  <2>0. j \in 1 .. Len(c) /\ j < k /\ k \in Nat /\ j \in Nat
    BY <1>3
  <2>1. CASE k \in 1 .. Len(a) /\ c[k] = a[k]
    <3>1. j \in 1 .. Len(a) /\ c[j] = a[j]
      BY <1>3, <2>0, <2>1
    <3>2. MayPrecede(a[j], a[k])
      BY <2>1, <3>1 DEF Streamed
    <3> QED BY <2>1, <3>1, <3>2
  <2>2. CASE k - Len(a) \in 1 .. Len(b) /\ ~(k <= Len(a)) /\ c[k] = b[k - Len(a)]
    <3>1. CASE j \in 1 .. Len(a) /\ c[j] = a[j]
      <4>1. IsSent(c[j], 0, m) /\ IsSent(c[k], m, to)
        BY <2>2, <3>1 DEF Streamed
      <4>2. c[j].index \in 0 .. m - 1 /\ c[k].index \in m .. to - 1
        BY <4>1 DEF IsSent
      <4>3. c[j].index < c[k].index
        BY <4>2
      <4> QED BY <4>3 DEF MayPrecede
    <3>2. CASE j - Len(a) \in 1 .. Len(b) /\ ~(j <= Len(a)) /\ c[j] = b[j - Len(a)]
      <4>1. j - Len(a) \in 1 .. (k - Len(a)) - 1
        BY <1>3, <2>0, <3>2
      <4>2. MayPrecede(b[j - Len(a)], b[k - Len(a)])
        BY <2>2, <4>1 DEF Streamed
      <4> QED BY <2>2, <3>2, <4>2
    <3> QED BY <1>4, <2>0, <3>1, <3>2
  <2> QED BY <1>4, <2>1, <2>2
<1>7. ASSUME NEW k \in 1 .. Len(c), c[k].index \in plan.anchors
      PROVE  \E j \in 1 .. k - 1 : c[j].index = c[k].index + 1
  <2>1. CASE k \in 1 .. Len(a) /\ c[k] = a[k]
    <3>1. PICK j \in 1 .. k - 1 : a[j].index = a[k].index + 1
      BY <1>7, <2>1 DEF Streamed
    <3>2. c[j] = a[j]
      BY <1>3, <2>1
    <3> QED BY <2>1, <3>1, <3>2
  <2>2. CASE k - Len(a) \in 1 .. Len(b) /\ ~(k <= Len(a)) /\ c[k] = b[k - Len(a)]
    <3>1. PICK j \in 1 .. (k - Len(a)) - 1 : b[j].index = b[k - Len(a)].index + 1
      BY <1>7, <2>2 DEF Streamed
    <3>2. j + Len(a) \in 1 .. k - 1 /\ j + Len(a) \in 1 .. Len(c) /\ ~(j + Len(a) <= Len(a))
          /\ (j + Len(a)) - Len(a) = j
      BY <1>3, <2>2
    <3>3. c[j + Len(a)] = b[j]
      BY <1>3, <3>2
    <3> QED BY <2>2, <3>1, <3>2, <3>3
  <2> QED BY <1>4, <2>1, <2>2
<1>8. ASSUME NEW y \in 0 .. to - 1 PROVE \E k \in 1 .. Len(c) : c[k].index = y /\ ~c[k].duplicate
  <2>1. CASE y < m
    <3>1. y \in 0 .. m - 1
      BY <2>1
    <3>2. PICK k \in 1 .. Len(a) : a[k].index = y /\ ~a[k].duplicate
      BY <3>1 DEF Streamed
    <3>3. c[k] = a[k] /\ k \in 1 .. Len(c)
      BY <1>3
    <3> QED BY <3>2, <3>3
  <2>2. CASE ~(y < m)
    <3>1. y \in m .. to - 1
      BY <2>2
    <3>2. PICK k \in 1 .. Len(b) : b[k].index = y /\ ~b[k].duplicate
      BY <3>1 DEF Streamed
    <3>3. k + Len(a) \in 1 .. Len(c) /\ ~(k + Len(a) <= Len(a)) /\ (k + Len(a)) - Len(a) = k
      BY <1>3
    <3>4. c[k + Len(a)] = b[k]
      BY <1>3, <3>3
    <3> QED BY <3>2, <3>3, <3>4
  <2> QED BY <2>1, <2>2
<1>9. Streamed(c, 0, to)
  BY <1>3, <1>5, <1>6, <1>7, <1>8 DEF Streamed
<1> QED BY <1>1, <1>9

\* What is sent of one event of a buffer.
PieceOf(s, p) ==
  /\ s \in Seq(Envelopes) /\ Len(s) \in {1, 2}
  /\ \A r \in 1 .. Len(s) : /\ IsSent(s[r], start, Stream!Stop)
                            /\ s[r].index = At(p) /\ (s[r].duplicate <=> r = 2)

\* A buffer's events sent one after the other.
LEMMA BufferStreamed ==
  ASSUME AtBuffer, NEW seqs \in Seq(Seq(Envelopes)), Len(seqs) = Stream!Stop - start,
         \A p \in 1 .. Stream!Stop - start : PieceOf(seqs[p], p)
  PROVE  Streamed(FlattenSeq(seqs), start, Stream!Stop)
<1>1. PICK n, s, f : n = Stream!Stop - start /\ s = start /\ f = FlattenSeq(seqs)
  OBVIOUS
<1>2. n \in Nat \ {0} /\ s \in Nat /\ Stream!Stop = s + n
  BY <1>1, StopIs DEF AtBuffer
<1>3. PICK o : f \in Seq(Envelopes) /\ Pieces(seqs, f, o, n)
  BY <1>1, <1>2, Flattened
<1>4. Len(f) \in Nat
  BY <1>3
<1>5. /\ \A i \in 1 .. n : /\ o[i] \in Nat /\ o[i] + Len(seqs[i]) <= Len(f)
                           /\ \A j \in 1 .. Len(seqs[i]) : f[o[i] + j] = seqs[i][j]
      /\ \A k \in 1 .. Len(f) : \E i \in 1 .. n : k - o[i] \in 1 .. Len(seqs[i])
      /\ \A i, j \in 1 .. n : i < j => o[i] + Len(seqs[i]) <= o[j]
  BY <1>3 DEF Pieces
<1>6. \A p \in 1 .. n : /\ Len(seqs[p]) \in {1, 2}
                        /\ \A r \in 1 .. Len(seqs[p]) : /\ IsSent(seqs[p][r], s, s + n)
                                                        /\ seqs[p][r].index = At(p)
                                                        /\ (seqs[p][r].duplicate <=> r = 2)
  BY <1>1, <1>2 DEF PieceOf
<1>7. ASSUME NEW k \in 1 .. Len(f)
      PROVE  \E i \in 1 .. n : /\ k - o[i] \in 1 .. Len(seqs[i]) /\ f[k].index = At(i)
                               /\ (f[k].duplicate <=> k - o[i] = 2) /\ IsSent(f[k], s, s + n)
  <2>1. PICK i \in 1 .. n : k - o[i] \in 1 .. Len(seqs[i])
    BY <1>5
  <2>2. PICK r : r = k - o[i]
    OBVIOUS
  <2>3. o[i] \in Nat /\ k \in Nat
    BY <1>4, <1>5
  <2>4. r \in 1 .. Len(seqs[i]) /\ k = o[i] + r
    BY <2>1, <2>2, <2>3
  <2>5. f[k] = seqs[i][r]
    BY <1>5, <2>4
  <2>6. IsSent(f[k], s, s + n) /\ f[k].index = At(i) /\ (f[k].duplicate <=> r = 2)
    <3>1. IsSent(seqs[i][r], s, s + n) /\ seqs[i][r].index = At(i) /\ (seqs[i][r].duplicate <=> r = 2)
      <4> HIDE DEF IsSent, At
      <4> QED BY <1>6, <2>4
    <3> QED BY <2>5, <3>1
  <2> QED BY <2>1, <2>2, <2>6
<1>8. ASSUME NEW k \in 1 .. Len(f), NEW j \in 1 .. k - 1 PROVE MayPrecede(f[j], f[k])
  <2>1. j \in 1 .. Len(f) /\ j < k /\ j \in Nat /\ k \in Nat
    BY <1>4
  <2>2. PICK i \in 1 .. n : /\ k - o[i] \in 1 .. Len(seqs[i]) /\ f[k].index = At(i)
                            /\ (f[k].duplicate <=> k - o[i] = 2)
    BY <1>7
  <2>3. PICK g \in 1 .. n : /\ j - o[g] \in 1 .. Len(seqs[g]) /\ f[j].index = At(g)
                            /\ (f[j].duplicate <=> j - o[g] = 2)
    BY <1>7, <2>1
  <2>4. /\ o[i] \in Nat /\ o[g] \in Nat /\ i \in Nat /\ g \in Nat
        /\ Len(seqs[i]) \in {1, 2} /\ Len(seqs[g]) \in {1, 2}
    BY <1>2, <1>5, <1>6
  <2>5. ~(i < g)
    <3>1. SUFFICES ASSUME i < g PROVE FALSE
      OBVIOUS
    <3>2. o[i] + Len(seqs[i]) <= o[g]
      BY <1>5, <3>1
    <3>3. PICK x, y, u, v : x = o[i] /\ y = o[g] /\ u = Len(seqs[i]) /\ v = Len(seqs[g])
      OBVIOUS
    <3>4. x \in Nat /\ y \in Nat /\ u \in Nat /\ v \in Nat /\ x + u <= y
      BY <2>4, <3>2, <3>3
    <3>5. k - x \in 1 .. u /\ j - y \in 1 .. v
      BY <2>2, <2>3, <3>3
    <3> QED BY <2>1, <3>4, <3>5
  <2>6. CASE i = g
    <3>1. k - o[i] = 2 /\ j - o[i] = 1
      <4>1. PICK x, u : x = o[i] /\ u = Len(seqs[i])
        OBVIOUS
      <4>2. x \in Nat /\ u \in {1, 2} /\ k - x \in 1 .. u /\ j - x \in 1 .. u
        BY <2>2, <2>3, <2>4, <2>6, <4>1
      <4>3. k - x = 2 /\ j - x = 1
        BY <2>1, <4>2
      <4> QED BY <4>1, <4>3
    <3> QED BY <2>2, <2>3, <2>6, <3>1 DEF MayPrecede
  <2>7. CASE g < i
    <3>1. i \in 1 .. Stream!Stop - start /\ g \in 1 .. i - 1
      BY <1>1, <1>2, <2>4, <2>7
    <3>2. At(g) < At(i) \/ (At(i) \in plan.anchors /\ At(g) = At(i) + 1)
      BY <3>1, OrderOfBuffer
    <3> QED BY <2>2, <2>3, <3>2 DEF MayPrecede
  <2> QED BY <2>4, <2>5, <2>6, <2>7
<1>9. ASSUME NEW k \in 1 .. Len(f), f[k].index \in plan.anchors
      PROVE  \E j \in 1 .. k - 1 : f[j].index = f[k].index + 1
  <2>1. PICK i \in 1 .. n : k - o[i] \in 1 .. Len(seqs[i]) /\ f[k].index = At(i)
    BY <1>7
  <2>2. i \in 1 .. Stream!Stop - start
    BY <1>1
  <2>3. PICK g \in 1 .. i - 1 : At(g) = At(i) + 1
    BY <1>9, <2>1, <2>2, OrderOfBuffer
  <2>4. g \in 1 .. n /\ g < i
    BY <1>2
  <2>5. /\ o[g] \in Nat /\ o[g] + Len(seqs[g]) <= Len(f) /\ o[g] + Len(seqs[g]) <= o[i]
        /\ Len(seqs[g]) \in {1, 2} /\ o[i] \in Nat /\ k \in Nat
    BY <1>4, <1>5, <1>6, <2>4
  <2>6. 1 \in 1 .. Len(seqs[g]) /\ Len(seqs[g]) \in Nat
    <3>1. PICK u : u = Len(seqs[g])
      OBVIOUS
    <3>2. u \in {1, 2}
      BY <2>5, <3>1
    <3>3. 1 \in 1 .. u /\ u \in Nat
      BY <3>2
    <3> QED BY <3>1, <3>3
  <2>7. f[o[g] + 1] = seqs[g][1] /\ seqs[g][1].index = At(g)
    BY <1>5, <1>6, <2>4, <2>6
  <2>8. Len(seqs[i]) \in {1, 2}
    BY <1>6
  <2>9. o[g] + 1 \in 1 .. k - 1
    <3>1. PICK x, y, u, v : x = o[i] /\ y = o[g] /\ u = Len(seqs[i]) /\ v = Len(seqs[g])
      OBVIOUS
    <3>2. x \in Nat /\ y \in Nat /\ u \in Nat /\ v \in {1, 2} /\ y + v <= x
      BY <2>5, <2>8, <3>1
    <3>3. k - x \in 1 .. u
      BY <2>1, <3>1
    <3>4. y + 1 \in 1 .. k - 1
      BY <2>5, <3>2, <3>3
    <3> QED BY <3>1, <3>4
  <2> QED BY <2>1, <2>3, <2>7, <2>9
<1>10. ASSUME NEW y \in s .. (s + n) - 1
       PROVE  \E k \in 1 .. Len(f) : f[k].index = y /\ ~f[k].duplicate
  <2>1. y - s + 1 \in 1 .. Stream!Stop - start /\ s + (y - s + 1) - 1 = y
    BY <1>1, <1>2
  <2>2. PICK i \in 1 .. n : At(i) = y
    BY <1>1, <2>1, OrderOfBuffer
  <2>3. o[i] \in Nat /\ o[i] + Len(seqs[i]) <= Len(f) /\ Len(seqs[i]) \in {1, 2}
    BY <1>5, <1>6
  <2>4. 1 \in 1 .. Len(seqs[i]) /\ o[i] + 1 \in 1 .. Len(f)
    <3>1. PICK x, u : x = o[i] /\ u = Len(seqs[i])
      OBVIOUS
    <3>2. x \in Nat /\ x + u <= Len(f) /\ u \in {1, 2}
      BY <2>3, <3>1
    <3>3. 1 \in 1 .. u /\ x + 1 \in 1 .. Len(f)
      BY <1>4, <3>2
    <3> QED BY <3>1, <3>3
  <2>5. f[o[i] + 1] = seqs[i][1] /\ seqs[i][1].index = At(i) /\ ~seqs[i][1].duplicate
    BY <1>5, <1>6, <2>4
  <2> QED BY <2>2, <2>4, <2>5
<1>11. \A k \in 1 .. Len(f) : IsSent(f[k], s, s + n)
  BY <1>7
<1>12. Streamed(f, s, s + n)
  BY <1>3, <1>8, <1>9, <1>10, <1>11 DEF Streamed
<1> QED BY <1>1, <1>2, <1>12

\* The event that is sent at a position of a buffer.
LEMMA ArrangedIs ==
  ASSUME AtBuffer, NEW p \in 1 .. Stream!Stop - start,
         NEW buffer, DOMAIN buffer = 1 .. Stream!Stop - start, Len(buffer) = Stream!Stop - start
  PROVE  /\ At(p) - start + 1 \in 1 .. Stream!Stop - start
         /\ Stream!Arranged(buffer)[p] = buffer[At(p) - start + 1]
<1>1. PICK s, n : s = start /\ n = Stream!Stop - start
  OBVIOUS
<1>2. n \in Nat \ {0} /\ s \in Nat /\ Stream!Stop = s + n
  BY <1>1, StopIs DEF AtBuffer
<1>3. At(p) \in s .. s + n - 1
  <2>1. At(p) \in start .. Stream!Stop - 1
    BY OrderOfBuffer
  <2> QED BY <1>1, <1>2, <2>1
<1>4. At(p) - s + 1 \in 1 .. n
  BY <1>2, <1>3
<1> DEFINE Swapped(x) == x >= 1 /\ x < Len(buffer) /\ x % 2 = 1 /\ s + x - 1 \in plan.anchors
<1>5. Stream!Arranged(buffer)[p] =
        IF Swapped(p) THEN buffer[p + 1] ELSE IF Swapped(p - 1) THEN buffer[p - 1] ELSE buffer[p]
  BY <1>1 DEF Stream!Arranged
<1>6. ASSUME NEW x \in Int PROVE Swapped(x) <=> Anchor(x)
  <2>1. ASSUME Swapped(x) PROVE Anchor(x)
    BY <1>1, <1>2, <2>1 DEF Anchor
  <2>2. ASSUME Anchor(x) PROVE Swapped(x)
    <3>1. x \in 1 .. n - 1 /\ s + x - 1 \in plan.anchors
      BY <1>1, <2>2 DEF Anchor
    <3>2. x \in 1 .. Stream!Stop - start
      BY <1>1, <1>2, <3>1
    <3>3. x % 2 = 1
      BY <1>1, <3>1, <3>2, AnchorsInBuffer
    <3> QED BY <1>1, <1>2, <3>1, <3>3
  <2> QED BY <2>1, <2>2
<1> HIDE DEF Swapped
<1>7. p \in Int /\ p - 1 \in Int /\ p \in Nat
  BY <1>1, <1>2
<1>8. Stream!Arranged(buffer)[p] =
        IF Anchor(p) THEN buffer[p + 1] ELSE IF Anchor(p - 1) THEN buffer[p - 1] ELSE buffer[p]
  BY <1>5, <1>6, <1>7
<1>9. At(p) = IF Anchor(p) THEN s + p ELSE IF Anchor(p - 1) THEN s + p - 2 ELSE s + p - 1
  BY <1>1 DEF At
<1>10. /\ (s + p) - s + 1 = p + 1 /\ (s + p - 2) - s + 1 = p - 1 /\ (s + p - 1) - s + 1 = p
  BY <1>2, <1>7
<1>11. Stream!Arranged(buffer)[p] = buffer[At(p) - s + 1]
  <2>1. CASE Anchor(p)
    BY <1>8, <1>9, <1>10, <2>1
  <2>2. CASE ~Anchor(p) /\ Anchor(p - 1)
    BY <1>8, <1>9, <1>10, <2>2
  <2>3. CASE ~Anchor(p) /\ ~Anchor(p - 1)
    BY <1>8, <1>9, <1>10, <2>3
  <2> QED BY <2>1, <2>2, <2>3
<1> QED BY <1>1, <1>4, <1>11

\* An event of the buffer as it is sent the first time.
LEMMA EnvelopeIs ==
  ASSUME AtBuffer, NEW x \in start .. Stream!Stop - 1, NEW d \in Stream!DelaysOf(x)
  PROVE  /\ IsSent(Stream!Envelope(x, d), start, Stream!Stop)
         /\ Stream!Envelope(x, d).index = x /\ Stream!Envelope(x, d).duplicate = FALSE
<1>1. start \in Nat /\ Stream!Stop \in Nat
  BY StopIs, StreamNumbers DEF AtBuffer
<1>2. x \in Nat /\ d \in Int
  BY <1>1, StreamNumbers DEF Stream!DelaysOf
<1>3. Stream!Milliseconds(plan.schedule, x) \in Nat
  BY <1>2, MillisecondsGrow DEF AtBuffer, PlanIs
<1>4. PICK e, o : e = Stream!Envelope(x, d) /\ o = Stream!Milliseconds(plan.schedule, x)
  OBVIOUS
<1>5. e = [index |-> x, produced |-> o, time |-> o - d * Stream!Second, late |-> x \in plan.late,
           outOfOrder |-> x \in plan.anchors, invalid |-> x \in plan.invalid, duplicate |-> FALSE]
  BY <1>4 DEF Stream!Envelope
<1>6. e \in Envelopes
  <2>1. o \in Int /\ o - d * Stream!Second \in Int
    BY <1>2, <1>3, <1>4 DEF Stream!Second
  <2>2. (x \in plan.late) \in BOOLEAN /\ (x \in plan.anchors) \in BOOLEAN /\ (x \in plan.invalid) \in BOOLEAN
    OBVIOUS
  <2> QED BY <1>2, <1>5, <2>1, <2>2 DEF Envelopes
<1>7. /\ e.index = x /\ e.produced = o /\ e.time = o - d * Stream!Second /\ e.duplicate = FALSE
      /\ e.late = (x \in plan.late) /\ e.outOfOrder = (x \in plan.anchors)
      /\ e.invalid = (x \in plan.invalid)
  BY <1>5
<1>8. IsSent(e, start, Stream!Stop)
  BY <1>4, <1>6, <1>7 DEF IsSent
<1> QED BY <1>4, <1>7, <1>8

\* An event and its retry are a piece of what is sent.
LEMMA CopiesArePiece ==
  ASSUME NEW p, NEW e, IsSent(e, start, Stream!Stop), e.index = At(p), e.duplicate = FALSE
  PROVE  PieceOf(Stream!Copies(e), p)
<1>1. PICK r : r = [e EXCEPT !.duplicate = TRUE]
  OBVIOUS
<1>2. e \in Envelopes
  BY DEF IsSent
<1>3. /\ r \in Envelopes /\ r.index = e.index /\ r.produced = e.produced /\ r.time = e.time
      /\ r.late = e.late /\ r.outOfOrder = e.outOfOrder /\ r.invalid = e.invalid /\ r.duplicate = TRUE
  BY <1>1, <1>2 DEF Envelopes
<1>4. CASE e.index \in plan.duplicates
  <2>1. Stream!Copies(e) = <<e, r>>
    BY <1>1, <1>4 DEF Stream!Copies
  <2>2. IsSent(r, start, Stream!Stop)
    BY <1>3, <1>4 DEF IsSent
  <2>3. PICK s : s = <<e, r>>
    OBVIOUS
  <2>4. s \in Seq(Envelopes) /\ Len(s) = 2 /\ s[1] = e /\ s[2] = r
    BY <1>2, <1>3, <2>3
  <2>5. PieceOf(s, p)
    <3>1. ASSUME NEW k \in 1 .. Len(s)
          PROVE  IsSent(s[k], start, Stream!Stop) /\ s[k].index = At(p) /\ (s[k].duplicate <=> k = 2)
      <4>1. k = 1 \/ k = 2
        BY <2>4
      <4> QED BY <1>3, <2>2, <2>4, <4>1
    <3> QED BY <2>4, <3>1 DEF PieceOf
  <2> QED BY <2>1, <2>3, <2>5
<1>5. CASE e.index \notin plan.duplicates
  <2>1. Stream!Copies(e) = <<e>>
    BY <1>5 DEF Stream!Copies
  <2>2. PICK s : s = <<e>>
    OBVIOUS
  <2>3. s \in Seq(Envelopes) /\ Len(s) = 1 /\ s[1] = e
    BY <1>2, <2>2
  <2>4. PieceOf(s, p)
    <3>1. ASSUME NEW k \in 1 .. Len(s)
          PROVE  IsSent(s[k], start, Stream!Stop) /\ s[k].index = At(p) /\ (s[k].duplicate <=> k = 2)
      <4>1. k = 1
        BY <2>3
      <4> QED BY <2>3, <4>1
    <3> QED BY <2>3, <3>1 DEF PieceOf
  <2> QED BY <2>1, <2>2, <2>4
<1> QED BY <1>4, <1>5

\* A stream keeps to its plan.
StreamInv ==
  /\ mode \in {"batch", "stream"}
  /\ mode = "batch" => sent = <<>>
  /\ mode = "stream" => /\ PlanIs /\ start \in 0 .. Count
                        /\ start = Count \/ \E q \in Nat : start = q * BufferSize
                        /\ Streamed(sent, 0, start)

\* Another buffer.
LEMMA YieldStep ==
  ASSUME StreamInv, mode = "stream", Stream!YieldBuffer, mode' = mode
  PROVE  StreamInv'
<1>1. start < Count /\ PlanIs /\ start \in 0 .. Count /\ Streamed(sent, 0, start)
  BY DEF StreamInv, Stream!YieldBuffer
<1>2. PICK q \in Nat : start = q * BufferSize
  BY <1>1, StreamNumbers DEF StreamInv
<1>3. AtBuffer
  BY <1>1, <1>2, StreamNumbers DEF AtBuffer
<1>4. start \in 0 .. Count - 1
  BY <1>3 DEF AtBuffer
<1>5. PICK n : n = Stream!Stop - start
  OBVIOUS
<1>6. n \in Nat \ {0} /\ start \in Nat /\ Stream!Stop \in Nat
  BY <1>4, <1>5, StopIs, StreamNumbers
<1>7. PICK delays \in [1 .. n -> Delays \cup LateDelays] :
        /\ \A i \in 1 .. n : delays[i] \in Stream!DelaysOf(start + i - 1)
        /\ LET buffer == [i \in 1 .. n |-> Stream!Envelope(start + i - 1, delays[i])]
               arranged == Stream!Arranged(buffer)
           IN  sent' = sent \o Stream!FlattenSeq([i \in 1 .. n |-> Stream!Copies(arranged[i])])
  BY <1>5, Zenon DEF Stream!YieldBuffer
<1>8. PICK buffer, arranged, seqs :
        /\ buffer = [i \in 1 .. n |-> Stream!Envelope(start + i - 1, delays[i])]
        /\ arranged = Stream!Arranged(buffer)
        /\ seqs = [i \in 1 .. n |-> Stream!Copies(arranged[i])]
  OBVIOUS
<1>9. sent' = sent \o FlattenSeq(seqs)
  <2>1. sent' = sent \o Stream!FlattenSeq(seqs)
    BY <1>7, <1>8
  <2>2. Stream!FlattenSeq(seqs) = FlattenSeq(seqs)
    BY DEF Stream!FlattenSeq, FlattenSeq
  <2> QED BY <2>1, <2>2
<1>10. DOMAIN buffer = 1 .. n /\ Len(buffer) = n
  BY <1>6, <1>8
<1>11. ASSUME NEW p \in 1 .. n PROVE seqs[p] \in Seq(Envelopes) /\ PieceOf(seqs[p], p)
  <2>1. At(p) - start + 1 \in 1 .. n /\ arranged[p] = buffer[At(p) - start + 1]
    BY <1>3, <1>5, <1>8, <1>10, ArrangedIs
  <2>2. At(p) \in start .. Stream!Stop - 1
    BY <1>3, <1>5, OrderOfBuffer
  <2>3. PICK x, i : x = At(p) /\ i = At(p) - start + 1
    OBVIOUS
  <2>4. start + i - 1 = x
    BY <1>6, <2>2, <2>3
  <2>5. i \in 1 .. n /\ arranged[p] = buffer[i]
    BY <2>1, <2>3
  <2>6. buffer[i] = Stream!Envelope(start + i - 1, delays[i]) /\ delays[i] \in Stream!DelaysOf(start + i - 1)
    BY <1>7, <1>8, <2>5
  <2>7. arranged[p] = Stream!Envelope(x, delays[i]) /\ delays[i] \in Stream!DelaysOf(x)
    BY <2>4, <2>5, <2>6
  <2>8. x \in start .. Stream!Stop - 1
    BY <2>2, <2>3
  <2>9. /\ IsSent(Stream!Envelope(x, delays[i]), start, Stream!Stop)
        /\ Stream!Envelope(x, delays[i]).index = x /\ Stream!Envelope(x, delays[i]).duplicate = FALSE
    BY <1>3, <2>7, <2>8, EnvelopeIs
  <2>10. PieceOf(Stream!Copies(arranged[p]), p)
    BY <2>3, <2>7, <2>9, CopiesArePiece
  <2>11. seqs[p] = Stream!Copies(arranged[p])
    BY <1>8
  <2> QED BY <2>10, <2>11 DEF PieceOf
<1>12. seqs \in Seq(Seq(Envelopes)) /\ Len(seqs) = n
  <2>1. seqs = [i \in 1 .. n |-> seqs[i]] /\ DOMAIN seqs = 1 .. n
    BY <1>8
  <2>2. \A i \in 1 .. n : seqs[i] \in Seq(Envelopes)
    BY <1>11
  <2>3. seqs \in [1 .. n -> Seq(Envelopes)]
    BY <2>1, <2>2
  <2> QED BY <1>6, <2>3
<1>13. Streamed(FlattenSeq(seqs), start, Stream!Stop)
  BY <1>3, <1>5, <1>11, <1>12, BufferStreamed
<1>14. start <= Stream!Stop /\ Stream!Stop \in 0 .. Count
  BY <1>4, <1>6, StopIs, StreamNumbers
<1>15. Streamed(sent \o FlattenSeq(seqs), 0, Stream!Stop)
  BY <1>1, <1>6, <1>13, <1>14, StreamedAppended
<1>16. start' = Stream!Stop /\ plan' = plan
  BY DEF Stream!YieldBuffer
<1>17. Streamed(sent, 0, start)'
  <2>1. ASSUME NEW e, NEW to PROVE IsSent(e, 0, to) => IsSent(e, 0, to)'
    BY <1>16 DEF IsSent, Stream!DelaysOf
  <2>2. ASSUME NEW e, NEW f PROVE MayPrecede(e, f) => MayPrecede(e, f)'
    BY <1>16 DEF MayPrecede
  <2>3. PICK c, t : c = sent \o FlattenSeq(seqs) /\ t = Stream!Stop
    OBVIOUS
  <2>4. Streamed(c, 0, t)
    BY <1>15, <2>3
  <2>5. Streamed(c, 0, t)'
    <3> HIDE DEF IsSent, MayPrecede
    <3> QED BY <1>16, <2>1, <2>2, <2>4 DEF Streamed
  <2> QED BY <1>9, <1>16, <2>3, <2>5
<1>18. PlanIs'
  BY <1>1, <1>16 DEF PlanIs
<1>19. start' = Count \/ \E k \in Nat : start' = k * BufferSize
  <2>1. CASE Stream!Stop = start + BufferSize
    <3>1. start + BufferSize = (q + 1) * BufferSize /\ q + 1 \in Nat
      BY <1>2, StreamNumbers
    <3> QED BY <1>16, <2>1, <3>1
  <2> QED BY <1>4, <1>16, <2>1, StopIs
<1> QED BY <1>14, <1>16, <1>17, <1>18, <1>19 DEF StreamInv

\* A stream starts with a plan and nothing sent.
LEMMA StreamInit == GeneratorInit => StreamInv
<1> SUFFICES ASSUME GeneratorInit PROVE StreamInv
  OBVIOUS
<1>1. CASE mode = "batch" /\ plan = <<>> /\ start = 0 /\ sent = <<>>
  BY <1>1 DEF StreamInv
<1>2. CASE mode = "stream" /\ Stream!Init
  <2>1. PICK schedule, invalid, late, anchors, duplicates :
          /\ schedule \in Schedules
          /\ anchors \in Stream!Samples(Swaps, Stream!SwapCandidates)
          /\ duplicates \in Stream!Samples(Duplicates, Stream!DuplicateCandidates(invalid))
          /\ plan = [schedule |-> schedule, invalid |-> invalid, late |-> late,
                     anchors |-> anchors, duplicates |-> duplicates]
    BY <1>2 DEF Stream!Init
  <2>2. anchors \subseteq Stream!SwapCandidates /\ duplicates \subseteq Stream!Events \ invalid
    BY <2>1 DEF Stream!Samples, Stream!kSubset, Stream!DuplicateCandidates
  <2>3. /\ plan.schedule = schedule /\ plan.invalid = invalid
        /\ plan.anchors = anchors /\ plan.duplicates = duplicates
    BY <2>1
  <2>4. PlanIs
    BY <2>1, <2>2, <2>3 DEF PlanIs
  <2>5. start = 0 /\ sent = <<>>
    BY <1>2 DEF Stream!Init
  <2>6. Streamed(sent, 0, start)
    <3>1. sent \in Seq(Envelopes) /\ Len(sent) = 0 /\ 1 .. Len(sent) = {} /\ 0 .. start - 1 = {}
      BY <2>5
    <3> QED BY <3>1 DEF Streamed
  <2>7. start = 0 * BufferSize /\ 0 \in Nat /\ start \in 0 .. Count
    BY <2>5, StreamNumbers
  <2> QED BY <1>2, <2>4, <2>6, <2>7 DEF StreamInv
<1> QED BY <1>1, <1>2 DEF GeneratorInit

\* A step that is none of the stream's leaves it alone.
LEMMA StreamStays ==
  ASSUME StreamInv, mode' = mode, plan' = plan, start' = start, sent' = sent
  PROVE  StreamInv'
<1>1. ASSUME NEW e, NEW to PROVE IsSent(e, 0, to) => IsSent(e, 0, to)'
  BY DEF IsSent, Stream!DelaysOf
<1>2. ASSUME NEW e, NEW f PROVE MayPrecede(e, f) => MayPrecede(e, f)'
  BY DEF MayPrecede
<1>3. Streamed(sent, 0, start) => Streamed(sent, 0, start)'
  <2> HIDE DEF IsSent, MayPrecede
  <2> QED BY <1>1, <1>2 DEF Streamed
<1>4. PlanIs => PlanIs'
  BY DEF PlanIs
<1> HIDE DEF Streamed, PlanIs
<1> QED BY <1>3, <1>4 DEF StreamInv

\* A stream keeps to its plan, whatever the commands do.
LEMMA StreamKeepsPlan == GeneratorSpec => []StreamInv
<1>1. GeneratorInit => StreamInv
  BY StreamInit
<1>2. StreamInv /\ [GeneratorNext]_allVars => StreamInv'
  <2> SUFFICES ASSUME StreamInv, [GeneratorNext]_allVars PROVE StreamInv'
    OBVIOUS
  <2>1. CASE StreamStep
    BY <2>1, YieldStep DEF StreamStep
  <2>2. CASE BatchStep
    BY <2>2, StreamStays DEF BatchStep
  <2>3. CASE UNCHANGED allVars
    BY <2>3, StreamStays DEF allVars
  <2> QED BY <2>1, <2>2, <2>3 DEF GeneratorNext
<1> QED BY <1>1, <1>2, PTL DEF GeneratorSpec

\* What is sent is a sequence of envelopes.
LEMMA SentSequence ==
  ASSUME StreamInv
  PROVE  sent \in Seq(Envelopes) /\ Len(sent) \in Nat /\ DOMAIN sent = 1 .. Len(sent)
<1>1. sent = <<>> \/ Streamed(sent, 0, start)
  BY DEF StreamInv
<1>2. <<>> \in Seq(Envelopes)
  OBVIOUS
<1>3. sent \in Seq(Envelopes)
  BY <1>1, <1>2 DEF Streamed
<1> QED BY <1>3

\* What is known of an event that is sent.
LEMMA SentIs ==
  ASSUME StreamInv, NEW k \in DOMAIN sent
  PROVE  /\ PlanIs /\ sent \in Seq(Envelopes) /\ k \in 1 .. Len(sent) /\ Len(sent) \in Nat
         /\ IsSent(sent[k], 0, start) /\ start \in 0 .. Count
         /\ sent[k].index \in 0 .. start - 1 /\ sent[k].index \in Nat
         /\ sent[k].produced = Stream!Milliseconds(plan.schedule, sent[k].index)
         /\ \A j \in 1 .. k - 1 : j \in DOMAIN sent /\ MayPrecede(sent[j], sent[k])
<1>1. sent \in Seq(Envelopes) /\ k \in 1 .. Len(sent) /\ Len(sent) \in Nat /\ DOMAIN sent = 1 .. Len(sent)
  BY SentSequence
<1>2. PlanIs /\ start \in 0 .. Count /\ Streamed(sent, 0, start)
  BY <1>1 DEF StreamInv
<1>3. IsSent(sent[k], 0, start)
  BY <1>1, <1>2 DEF Streamed
<1>4. sent[k].index \in 0 .. start - 1 /\ sent[k].produced = Stream!Milliseconds(plan.schedule, sent[k].index)
  BY <1>3 DEF IsSent
<1>5. sent[k].index \in Nat
  <2>1. PICK x : x = sent[k].index
    OBVIOUS
  <2>2. x \in 0 .. start - 1
    BY <1>4, <2>1
  <2> QED BY <1>2, <2>1, <2>2, StreamNumbers
<1>6. \A j \in 1 .. k - 1 : MayPrecede(sent[j], sent[k])
  BY <1>1, <1>2 DEF Streamed
<1>7. \A j \in 1 .. k - 1 : j \in DOMAIN sent
  BY <1>1
<1> HIDE DEF PlanIs, IsSent, MayPrecede
<1> QED BY <1>1, <1>2, <1>3, <1>4, <1>5, <1>6, <1>7

\* An event that was produced later has the greater index; the converse fails inside
\* a millisecond.
LEMMA YoungerIs ==
  ASSUME StreamInv, NEW j \in DOMAIN sent, NEW k \in DOMAIN sent
  PROVE  sent[j].produced > sent[k].produced => sent[j].index > sent[k].index
<1>1. PICK a, b : a = sent[j].index /\ b = sent[k].index
  OBVIOUS
<1>2. a \in Nat /\ b \in Nat /\ plan.schedule \in Schedules
  BY <1>1, SentIs DEF PlanIs
<1>3. PICK p, q : /\ p = Stream!Milliseconds(plan.schedule, a)
                  /\ q = Stream!Milliseconds(plan.schedule, b)
  OBVIOUS
<1>4. p \in Nat /\ q \in Nat /\ (a <= b => p <= q)
  BY <1>2, <1>3, MillisecondsGrow
<1>5. sent[j].produced = p /\ sent[k].produced = q
  BY <1>1, <1>3, SentIs
<1>6. p > q => a > b
  BY <1>2, <1>4
<1> QED BY <1>1, <1>5, <1>6

\* What is flagged as out of order is what an event of a greater index came before,
\* whatever the draws, the buffers and the rounding of the bursts; and what is behind
\* an earlier event in its produced timestamp, a whole number of milliseconds, is
\* flagged.
THEOREM OrderIsFlagged == GeneratorSpec => []FlaggedIsOvertaken
<1>1. StreamInv => FlaggedIsOvertaken
  <2> SUFFICES ASSUME StreamInv, NEW i \in DOMAIN sent
               PROVE  /\ sent[i].outOfOrder <=> \E j \in 1 .. i - 1 : sent[j].index > sent[i].index
                      /\ \A j \in 1 .. i - 1 :
                           sent[j].produced > sent[i].produced => sent[i].outOfOrder
    BY DEF FlaggedIsOvertaken, Stream!FlaggedIsOvertaken
  <2>1. sent[i].outOfOrder = (sent[i].index \in plan.anchors)
    BY SentIs DEF IsSent
  <2>2. ASSUME sent[i].index \in plan.anchors
        PROVE  \E j \in 1 .. i - 1 : sent[j].index > sent[i].index
    <3>1. Streamed(sent, 0, start) /\ i \in 1 .. Len(sent)
      BY SentIs DEF StreamInv
    <3>2. PICK j \in 1 .. i - 1 : sent[j].index = sent[i].index + 1
      BY <2>2, <3>1 DEF Streamed
    <3>3. sent[i].index \in Nat
      BY SentIs
    <3> QED BY <3>2, <3>3
  <2>3. ASSUME NEW j \in 1 .. i - 1, sent[j].index > sent[i].index
        PROVE  sent[i].index \in plan.anchors
    <3>1. j \in DOMAIN sent /\ MayPrecede(sent[j], sent[i]) /\ sent[i].index \in Nat
      BY SentIs
    <3>2. sent[j].index \in Nat
      BY <3>1, SentIs
    <3> QED BY <2>3, <3>1, <3>2 DEF MayPrecede
  <2>4. ASSUME NEW j \in 1 .. i - 1, sent[j].produced > sent[i].produced
        PROVE  sent[j].index > sent[i].index
    <3>1. j \in DOMAIN sent
      BY SentIs
    <3> QED BY <2>4, <3>1, YoungerIs
  <2> QED BY <2>1, <2>2, <2>3, <2>4
<1> QED BY <1>1, StreamKeepsPlan, PTL

\* With the watermark delay above the delay of events and the distance of a swap, no
\* event that is not marked as late is behind an event sent before it by the
\* watermark delay.
THEOREM OnlyMarkedAreLate == Stream!DelayCoversSwaps => (GeneratorSpec => []OnlyMarkedIsLate)
<1> SUFFICES ASSUME Stream!DelayCoversSwaps PROVE GeneratorSpec => []OnlyMarkedIsLate
  OBVIOUS
<1>1. StreamInv => OnlyMarkedIsLate
  <2> SUFFICES ASSUME StreamInv, NEW i \in DOMAIN sent, NEW j \in 1 .. i - 1, ~sent[i].late
               PROVE  ~(sent[i].time <= sent[j].produced - WatermarkDelay * Stream!Second)
    BY DEF OnlyMarkedIsLate, Stream!OnlyMarkedIsLate
  <2>1. PICK x, y, s : x = sent[i].index /\ y = sent[j].index /\ s = plan.schedule
    OBVIOUS
  <2>2. j \in DOMAIN sent /\ MayPrecede(sent[j], sent[i]) /\ IsSent(sent[i], 0, start)
    BY SentIs
  <2>3. /\ x \in Stream!Events /\ x \in Nat /\ s \in Schedules
        /\ sent[i].produced = Stream!Milliseconds(s, x)
    <3>1. x \in 0 .. start - 1 /\ start \in 0 .. Count /\ x \in Nat
      BY <2>1, SentIs
    <3>2. x \in 0 .. Count - 1
      BY <3>1, StreamNumbers
    <3> QED BY <2>1, <3>1, <3>2, SentIs DEF PlanIs, Stream!Events
  <2>4. y \in Nat /\ y \in Stream!Events /\ sent[j].produced = Stream!Milliseconds(s, y)
    <3>1. y \in 0 .. start - 1 /\ start \in 0 .. Count /\ y \in Nat
      BY <2>1, <2>2, SentIs
    <3>2. y \in 0 .. Count - 1
      BY <3>1, StreamNumbers
    <3> QED BY <2>1, <2>2, <3>1, <3>2, SentIs DEF Stream!Events
  <2>5. x \notin plan.late
    BY <2>1, <2>2 DEF IsSent
  <2>6. PICK d \in Delays : sent[i].time = sent[i].produced - d * Stream!Second
    BY <2>1, <2>2, <2>5 DEF IsSent, Stream!DelaysOf
  <2>7. PICK p, q, W : /\ p = Stream!Milliseconds(s, x) /\ q = Stream!Milliseconds(s, y)
                       /\ W = WatermarkDelay
    OBVIOUS
  <2>8. p \in Nat /\ q \in Nat /\ (y <= x => q <= p) /\ d \in Nat /\ W \in Nat
    BY <2>3, <2>4, <2>7, MillisecondsGrow, StreamNumbers
  <2>9. p - p < (W - d) * Stream!Second
    BY <2>3, <2>6, <2>7 DEF Stream!DelayCoversSwaps
  <2>10. q - p < (W - d) * Stream!Second
    <3>1. CASE y <= x
      <4>1. q - p <= 0 /\ 0 < (W - d) * 1000
        BY <2>8, <2>9, <3>1 DEF Stream!Second
      <4> QED BY <2>8, <4>1 DEF Stream!Second
    <3>2. CASE x \in plan.anchors /\ y = x + 1
      <4>1. x \in Stream!SwapCandidates
        BY <3>2, SentIs DEF PlanIs
      <4> QED BY <2>3, <2>4, <2>6, <2>7, <3>2, <4>1 DEF Stream!DelayCoversSwaps
    <3>3. y <= x \/ (x \in plan.anchors /\ y = x + 1)
      BY <2>1, <2>2, <2>3, <2>4 DEF MayPrecede
    <3> QED BY <3>1, <3>2, <3>3
  <2>11. ~(p - d * 1000 <= q - W * 1000)
    BY <2>8, <2>10 DEF Stream!Second
  <2>12. sent[i].time = p - d * 1000 /\ sent[j].produced = q
    BY <2>3, <2>4, <2>6, <2>7 DEF Stream!Second
  <2> QED BY <2>7, <2>11, <2>12 DEF Stream!Second
<1> QED BY <1>1, StreamKeepsPlan, PTL

\* The counters of a stream's summary tell the different valid events it has sent:
\* one is sent once without being a retry, and no invalid one again.
LEMMA StreamSummary == StreamInv => Stream!SummaryIsTrue
<1> SUFFICES ASSUME StreamInv PROVE Stream!SummaryIsTrue
  OBVIOUS
<1> DEFINE D == DOMAIN sent
           I == {i \in D : sent[i].invalid}
           R == {i \in D : sent[i].duplicate}
           F == {i \in D : ~sent[i].invalid /\ ~sent[i].duplicate}
           V == {sent[i].index : i \in {j \in D : ~sent[j].invalid}}
<1>1. sent \in Seq(Envelopes) /\ Len(sent) \in Nat /\ D = 1 .. Len(sent)
  BY SentSequence
<1>2. IsFiniteSet(D) /\ Cardinality(D) = Len(sent)
  <2>1. IsFiniteSet(1 .. Len(sent)) /\ Cardinality(1 .. Len(sent)) = IF 1 > Len(sent) THEN 0 ELSE Len(sent) - 1 + 1
    BY <1>1, FS_Interval
  <2> QED BY <1>1, <2>1
<1>3. ASSUME NEW i \in D
      PROVE  /\ sent[i].invalid = (sent[i].index \in plan.invalid)
             /\ (sent[i].duplicate => sent[i].index \in plan.duplicates)
             /\ plan.duplicates \cap plan.invalid = {}
             /\ \A j \in 1 .. i - 1 : sent[j].index = sent[i].index => sent[i].duplicate
  <2>1. IsSent(sent[i], 0, start) /\ PlanIs /\ sent[i].index \in Nat
    BY SentIs
  <2>2. ASSUME NEW j \in 1 .. i - 1, sent[j].index = sent[i].index PROVE sent[i].duplicate
    <3>1. MayPrecede(sent[j], sent[i])
      BY SentIs
    <3> QED BY <2>1, <2>2, <3>1 DEF MayPrecede
  <2> QED BY <2>1, <2>2 DEF IsSent, PlanIs
<1>4. IsFiniteSet(I) /\ IsFiniteSet(R) /\ IsFiniteSet(F)
  BY <1>2, FS_Subset
<1>5. I \cap R = {} /\ (I \cup R) \cap F = {} /\ (I \cup R) \cup F = D
  BY <1>3
<1>6. Cardinality(D) = Cardinality(I) + Cardinality(R) + Cardinality(F)
  <2>1. Cardinality({}) = 0
    BY FS_EmptySet
  <2>2. IsFiniteSet(I \cup R) /\ Cardinality(I \cup R) = Cardinality(I) + Cardinality(R) - Cardinality(I \cap R)
    BY <1>4, FS_Union
  <2>3. Cardinality((I \cup R) \cup F)
          = Cardinality(I \cup R) + Cardinality(F) - Cardinality((I \cup R) \cap F)
    BY <1>4, <2>2, FS_Union
  <2>4. Cardinality(I) \in Nat /\ Cardinality(R) \in Nat /\ Cardinality(F) \in Nat
    BY <1>4, FS_CardinalityType
  <2>5. Cardinality((I \cup R) \cup F) = Cardinality(D) /\ Cardinality((I \cup R) \cap F) = 0
        /\ Cardinality(I \cap R) = 0
    BY <1>5, <2>1
  <2> QED BY <2>2, <2>3, <2>4, <2>5
<1>7. IsFiniteSet(V) /\ Cardinality(V) = Cardinality(F)
  <2> DEFINE f == [i \in F |-> sent[i].index]
  <2>1. f \in [F -> V]
    OBVIOUS
  <2>2. ASSUME NEW i \in F, NEW j \in F, f[i] = f[j] PROVE i = j
    <3>1. i \in Nat /\ j \in Nat /\ i \in D /\ j \in D /\ ~sent[i].duplicate /\ ~sent[j].duplicate
          /\ sent[i].index = sent[j].index
      BY <1>1, <2>2
    <3>2. ~(i < j)
      <4>1. i < j => i \in 1 .. j - 1
        BY <1>1, <3>1
      <4> QED BY <1>3, <3>1, <4>1
    <3>3. ~(j < i)
      <4>1. j < i => j \in 1 .. i - 1
        BY <1>1, <3>1
      <4> QED BY <1>3, <3>1, <4>1
    <3> QED BY <3>1, <3>2, <3>3
  <2>3. ASSUME NEW y \in V PROVE \E i \in F : f[i] = y
    <3>1. PICK i \in D : ~sent[i].invalid /\ sent[i].index = y
      OBVIOUS
    <3>2. y \in 0 .. start - 1 /\ y \notin plan.invalid
      BY <1>3, <3>1, SentIs
    <3>3. Streamed(sent, 0, start)
      BY <1>1, <3>1 DEF StreamInv
    <3>4. PICK k \in D : sent[k].index = y /\ ~sent[k].duplicate
      BY <1>1, <3>2, <3>3 DEF Streamed
    <3>5. k \in F
      BY <1>3, <3>2, <3>4
    <3> QED BY <3>4, <3>5
  <2>4. f \in Bijection(F, V)
    <3> HIDE DEF f, F, V
    <3>1. f \in Injection(F, V)
      BY <2>1, <2>2 DEF Injection, IsInjective
    <3>2. f \in Surjection(F, V)
      BY <2>1, <2>3 DEF Surjection
    <3> QED BY <3>1, <3>2 DEF Bijection
  <2>5. ExistsBijection(F, V)
    BY <2>4 DEF ExistsBijection
  <2> HIDE DEF F, V
  <2> QED BY <1>4, <2>5, FS_Bijection
<1>8. Len(sent) - Cardinality(I) - Cardinality(R) = Cardinality(V)
  <2>1. Cardinality(I) \in Nat /\ Cardinality(R) \in Nat /\ Cardinality(F) \in Nat
    BY <1>4, FS_CardinalityType
  <2> HIDE DEF I, R, F, V
  <2> QED BY <1>2, <1>6, <1>7, <2>1
<1>9. Stream!Cardinality(I) = Cardinality(I) /\ Stream!Cardinality(R) = Cardinality(R)
      /\ Stream!Cardinality(V) = Cardinality(V)
  BY DEF Stream!Cardinality, Cardinality
<1> QED BY <1>8, <1>9 DEF Stream!SummaryIsTrue

-----------------------------------------------------------------------------
(* The days and files of a batch *)

\* What BatchConfig and SharedConfig ask of the numbers of a batch.
LEMMA BatchNumbers ==
  /\ HistoryDays \in Nat \ {0} /\ BaseCount \in Nat \ {0} /\ RowsPerFile \in Nat \ {0}
  /\ UserCount \in Nat \ {0} /\ ContentCount \in Nat \ {0}
  /\ RateNum \in Nat /\ RateDen - RateNum \in Nat \ {0}
BY ConfigurationAssumption DEF IsBatch

\* A rounded quotient is a number.
LEMMA Rounded ==
  ASSUME NEW x \in Nat, NEW d \in Nat \ {0}
  PROVE  Round(x, d) \in Nat
<1>1. PICK q, m \in Nat : q = x \div d /\ m = x % d
  BY DivMod
<1>2. Round(x, d) = IF 2 * m < d \/ (2 * m = d /\ q % 2 = 0) THEN q ELSE q + 1
  BY <1>1 DEF Round
<1> QED BY <1>1, <1>2

\* Files share the rows out: none is empty or too large, and each row is in one.
LEMMA FilesShare ==
  ASSUME NEW count \in Nat
  PROVE  /\ Files(count) \in Nat
         /\ Files(count) <= count
         /\ \A k \in 0 .. Files(count) - 1 :
              /\ Size(count, k) \in 1 .. RowsPerFile
              /\ k * RowsPerFile + Size(count, k) <= count
              /\ k * RowsPerFile \in Nat
         /\ \A k, l \in 0 .. Files(count) - 1 :
              k < l => k * RowsPerFile + Size(count, k) <= l * RowsPerFile
         /\ \A p \in 0 .. count - 1 : \E k \in 0 .. Files(count) - 1 :
              p - k * RowsPerFile \in 0 .. Size(count, k) - 1
<1>1. PICK R : R = RowsPerFile
  OBVIOUS
<1>2. R \in Nat \ {0}
  BY <1>1, BatchNumbers
<1>3. PICK f, m \in Nat : f = (count + R - 1) \div R /\ m < R /\ count + R - 1 = f * R + m
  <2>1. count + R - 1 \in Nat
    BY <1>2
  <2> QED BY <1>2, <2>1, DivMod
<1>4. f = Files(count)
  BY <1>1, <1>3 DEF Files
<1>5. ASSUME NEW k \in Nat
      PROVE  /\ k * R \in Nat
             /\ Size(count, k) = IF count - k * R < R THEN count - k * R ELSE R
  BY <1>1, <1>2 DEF Size
<1>6. ASSUME NEW k \in 0 .. f - 1 PROVE k * R + R <= f * R /\ k * R \in Nat /\ f * R \in Nat /\ k * R < count
  <2>1. (k + 1) * R <= f * R /\ (k + 1) * R = k * R + R /\ k * R \in Nat /\ f * R \in Nat
    BY <1>2, <1>3, Products
  <2> QED BY <1>2, <1>3, <2>1
<1>7. f <= count
  <2>1. SUFFICES ASSUME count < f PROVE FALSE
    BY <1>3
  <2>2. count \in 0 .. f - 1
    BY <1>3, <2>1
  <2>3. count * R < count
    BY <1>6, <2>2
  <2>4. count * 1 <= count * R
    BY <1>2
  <2> QED BY <1>2, <2>3, <2>4
<1>8. ASSUME NEW k \in 0 .. f - 1
      PROVE  /\ Size(count, k) \in 1 .. R /\ k * R + Size(count, k) <= count /\ k * R \in Nat
  <2>1. k \in Nat /\ k * R < count /\ k * R \in Nat
    BY <1>3, <1>6
  <2> QED BY <1>2, <1>5, <2>1
<1>9. ASSUME NEW k \in 0 .. f - 1, NEW l \in 0 .. f - 1, k < l
      PROVE  k * R + Size(count, k) <= l * R
  <2>1. (k + 1) * R <= l * R /\ (k + 1) * R = k * R + R
    BY <1>2, <1>9, Products
  <2>2. Size(count, k) \in 1 .. R /\ k * R \in Nat
    BY <1>8
  <2> QED BY <1>2, <2>1, <2>2
<1>10. ASSUME NEW p \in 0 .. count - 1
       PROVE  \E k \in 0 .. f - 1 : p - k * R \in 0 .. Size(count, k) - 1
  <2>0. p \in Nat
    OBVIOUS
  <2>1. PICK k, n \in Nat : n < R /\ p = k * R + n
    BY <1>2, <2>0, DivMod
  <2>2. k < f
    <3>1. SUFFICES ASSUME f <= k PROVE FALSE
      BY <1>3
    <3>2. f * R <= k * R /\ f * R \in Nat /\ k * R \in Nat
      BY <1>2, <1>3, <3>1, Products
    <3> QED BY <1>2, <1>3, <2>1, <3>2
  <2>3. k \in 0 .. f - 1 /\ k * R \in Nat
    BY <1>3, <1>5, <2>2
  <2>4. p - k * R = n
    BY <2>1, <2>3
  <2>5. n < Size(count, k) /\ Size(count, k) \in Nat
    BY <1>2, <1>5, <2>1, <2>3, <1>8
  <2> QED BY <2>3, <2>4, <2>5
<1> QED BY <1>1, <1>3, <1>4, <1>7, <1>8, <1>9, <1>10

\* The indexes of the first n days, day by day.
IndexesUpTo(f, n) ==
  f = [day \in 0 .. n |->
         IF day = 0 THEN [event |-> 0, session |-> 0, file |-> 0]
         ELSE [event   |-> f[day - 1].event + DayCount(day - 1),
               session |-> f[day - 1].session + Sessions(DayCount(day - 1)),
               file    |-> f[day - 1].file + Files(DayCount(day - 1))]]

\* There are such indexes.
LEMMA IndexesExist ==
  ASSUME NEW n \in Nat
  PROVE  \E f : IndexesUpTo(f, n)
<1> DEFINE G == {m \in 0 .. n : \E f : IndexesUpTo(f, m)}
           first == [event |-> 0, session |-> 0, file |-> 0]
           Following(r, day) == [event   |-> r.event + DayCount(day),
                            session |-> r.session + Sessions(DayCount(day)),
                            file    |-> r.file + Files(DayCount(day))]
<1>1. 0 \in G
  <2>1. IndexesUpTo([day \in 0 .. 0 |-> first], 0)
    BY DEF IndexesUpTo
  <2> QED BY <2>1
<1>2. ASSUME NEW m \in 0 .. (n - 1), m \in G PROVE m + 1 \in G
  <2>1. PICK f : IndexesUpTo(f, m)
    BY <1>2
  <2> DEFINE last == Following(f[m], m)
             g == [day \in 0 .. m + 1 |-> IF day = m + 1 THEN last ELSE f[day]]
  <2>2. \A day \in 0 .. m : f[day] = IF day = 0 THEN first ELSE Following(f[day - 1], day - 1)
    BY <2>1 DEF IndexesUpTo
  <2> HIDE DEF first, Following
  <2>3. ASSUME NEW day \in 0 .. m + 1
        PROVE  g[day] = IF day = 0 THEN first ELSE Following(g[day - 1], day - 1)
    <3>1. CASE day = m + 1
      BY <3>1
    <3>2. CASE day # m + 1
      BY <2>2, <3>2
    <3> QED BY <3>1, <3>2
  <2>4. g = [day \in 0 .. m + 1 |-> IF day = 0 THEN first ELSE Following(g[day - 1], day - 1)]
    <3> HIDE DEF last
    <3>1. DOMAIN g = 0 .. m + 1 /\ g = [day \in DOMAIN g |-> g[day]]
      OBVIOUS
    <3> HIDE DEF g
    <3> QED BY <2>3, <3>1
  <2>5. IndexesUpTo(g, m + 1)
    <3> HIDE DEF g
    <3> QED BY <2>4 DEF IndexesUpTo, first, Following
  <2> HIDE DEF g
  <2> QED BY <2>5
<1>3. \A m \in 0 .. n : m \in G
  <2> HIDE DEF G
  <2> QED BY <1>1, <1>2, Induction
<1> QED BY <1>3

\* The indexes when the loop comes to a day.
LEMMA IndexesAre ==
  /\ Indexes[0] = [event |-> 0, session |-> 0, file |-> 0]
  /\ \A day \in 0 .. HistoryDays - 1 :
       /\ Indexes[day + 1].event   = Indexes[day].event + DayCount(day)
       /\ Indexes[day + 1].session = Indexes[day].session + Sessions(DayCount(day))
<1>1. HistoryDays \in Nat \ {0}
  BY BatchNumbers
<1>2. \E f : IndexesUpTo(f, HistoryDays)
  BY <1>1, IndexesExist
<1>3. IndexesUpTo(CHOOSE f : IndexesUpTo(f, HistoryDays), HistoryDays)
  BY <1>2
<1>4. Indexes = CHOOSE f : IndexesUpTo(f, HistoryDays)
  BY DEF Indexes, IndexesUpTo
<1>5. IndexesUpTo(Indexes, HistoryDays)
  BY <1>3, <1>4
<1>6. Indexes[0] = [event |-> 0, session |-> 0, file |-> 0]
  BY <1>1, <1>5 DEF IndexesUpTo
<1>7. ASSUME NEW day \in 0 .. HistoryDays - 1
      PROVE  Indexes[day + 1] = [event   |-> Indexes[day].event + DayCount(day),
                                 session |-> Indexes[day].session + Sessions(DayCount(day)),
                                 file    |-> Indexes[day].file + Files(DayCount(day))]
  <2>1. day + 1 \in 0 .. HistoryDays /\ day + 1 # 0 /\ (day + 1) - 1 = day
    BY <1>1
  <2> QED BY <1>5, <2>1 DEF IndexesUpTo
<1>8. ASSUME NEW day \in 0 .. HistoryDays - 1
      PROVE  /\ Indexes[day + 1].event   = Indexes[day].event + DayCount(day)
             /\ Indexes[day + 1].session = Indexes[day].session + Sessions(DayCount(day))
  <2>1. PICK a, b, c : /\ a = Indexes[day].event + DayCount(day)
                       /\ b = Indexes[day].session + Sessions(DayCount(day))
                       /\ c = Indexes[day].file + Files(DayCount(day))
    OBVIOUS
  <2>2. Indexes[day + 1] = [event |-> a, session |-> b, file |-> c]
    BY <1>7, <2>1
  <2> QED BY <2>1, <2>2
<1> QED BY <1>6, <1>8

Days == 0 .. HistoryDays - 1
FirstEvent(day) == Indexes[day].event
FirstSession(day) == Indexes[day].session

\* A day's numbers and the next day's.
LEMMA DaySteps ==
  /\ FirstEvent(0) = 0 /\ FirstSession(0) = 0
  /\ \A day \in Days : /\ DayCount(day) \in Nat /\ Sessions(DayCount(day)) \in Nat
                       /\ Sessions(DayCount(day)) <= DayCount(day)
                       /\ FirstEvent(day + 1) = FirstEvent(day) + DayCount(day)
                       /\ FirstSession(day + 1) = FirstSession(day) + Sessions(DayCount(day))
<1>1. FirstEvent(0) = 0 /\ FirstSession(0) = 0
  BY IndexesAre DEF FirstEvent, FirstSession
<1>2. PICK q, r \in Nat : q = BaseCount \div HistoryDays /\ r = BaseCount % HistoryDays
  BY BatchNumbers, DivMod
<1>3. ASSUME NEW day \in Days
      PROVE  /\ DayCount(day) \in Nat /\ Sessions(DayCount(day)) \in Nat
             /\ Sessions(DayCount(day)) <= DayCount(day)
             /\ FirstEvent(day + 1) = FirstEvent(day) + DayCount(day)
             /\ FirstSession(day + 1) = FirstSession(day) + Sessions(DayCount(day))
  <2>1. PICK n : n = DayCount(day)
    OBVIOUS
  <2>2. n = q + (IF day < r THEN 1 ELSE 0)
    BY <1>2, <2>1 DEF DayCount
  <2>3. n \in Nat
    BY <1>2, <2>2
  <2>4. Sessions(n) \in Nat /\ Sessions(n) <= n
    BY <2>3 DEF Sessions
  <2>5. /\ FirstEvent(day + 1) = FirstEvent(day) + DayCount(day)
        /\ FirstSession(day + 1) = FirstSession(day) + Sessions(DayCount(day))
    BY IndexesAre DEF FirstEvent, FirstSession, Days
  <2> QED BY <2>1, <2>3, <2>4, <2>5
<1> QED BY <1>1, <1>3

\* Where days begin: the first ones have an event more, and a session has one at least.
LEMMA DayNumbers ==
  ASSUME NEW day \in 0 .. HistoryDays
  PROVE  /\ FirstEvent(day) \in Nat /\ FirstSession(day) \in Nat
         /\ FirstSession(day) <= FirstEvent(day)
         /\ LET q == BaseCount \div HistoryDays
                r == BaseCount % HistoryDays
            IN  FirstEvent(day) = day * q + (IF day < r THEN day ELSE r)
<1>1. PICK H : H = HistoryDays
  OBVIOUS
<1>2. H \in Nat \ {0}
  BY <1>1, BatchNumbers
<1>3. PICK q, r \in Nat : q = BaseCount \div H /\ r = BaseCount % H
  BY <1>2, BatchNumbers, DivMod
<1> DEFINE Begins(d) == /\ FirstEvent(d) \in Nat /\ FirstSession(d) \in Nat
                        /\ FirstSession(d) <= FirstEvent(d)
                        /\ FirstEvent(d) = d * q + (IF d < r THEN d ELSE r)
           G == {d \in 0 .. H : Begins(d)}
<1>4. 0 \in G
  <2>1. FirstEvent(0) = 0 /\ FirstSession(0) = 0
    BY DaySteps
  <2>2. 0 * q = 0 /\ (IF 0 < r THEN 0 ELSE r) = 0
    BY <1>3
  <2> QED BY <1>2, <2>1, <2>2
<1>5. ASSUME NEW d \in 0 .. (H - 1), d \in G PROVE d + 1 \in G
  <2>1. PICK e, s, n, t : /\ e = FirstEvent(d) /\ s = FirstSession(d)
                          /\ n = DayCount(d) /\ t = Sessions(DayCount(d))
    OBVIOUS
  <2>2. d \in Nat /\ d \in Days
    BY <1>1, <1>2 DEF Days
  <2>3. FirstEvent(d + 1) = e + n /\ FirstSession(d + 1) = s + t /\ n \in Nat /\ t \in Nat /\ t <= n
    BY <2>1, <2>2, DaySteps
  <2>4. e \in Nat /\ s \in Nat /\ s <= e /\ e = d * q + (IF d < r THEN d ELSE r)
    BY <1>5, <2>1
  <2>5. n = q + (IF d < r THEN 1 ELSE 0)
    BY <1>1, <1>3, <2>1 DEF DayCount
  <2>6. (d + 1) * q = d * q + q /\ d * q \in Nat
    BY <1>3, <2>2
  <2>7. (IF d < r THEN d ELSE r) + (IF d < r THEN 1 ELSE 0) = IF d + 1 < r THEN d + 1 ELSE r
    BY <1>3, <2>2
  <2>8. e + n = (d + 1) * q + (IF d + 1 < r THEN d + 1 ELSE r)
    <3>1. PICK u, v, w : /\ u = (IF d < r THEN d ELSE r) /\ v = (IF d < r THEN 1 ELSE 0)
                         /\ w = (IF d + 1 < r THEN d + 1 ELSE r)
      OBVIOUS
    <3>2. u \in Nat /\ v \in Nat /\ u + v = w
      BY <1>3, <2>2, <2>7, <3>1
    <3>3. PICK x : x = d * q
      OBVIOUS
    <3>4. x \in Nat /\ e = x + u /\ n = q + v /\ (d + 1) * q = x + q
      BY <2>4, <2>5, <2>6, <3>1, <3>3
    <3>5. e + n = (x + q) + w
      BY <1>3, <3>2, <3>4
    <3> QED BY <3>1, <3>4, <3>5
  <2>9. e + n \in Nat /\ s + t \in Nat /\ s + t <= e + n
    BY <2>3, <2>4
  <2>10. Begins(d + 1)
    BY <2>3, <2>8, <2>9
  <2> HIDE DEF Begins
  <2> QED BY <1>2, <2>2, <2>10
<1>6. \A d \in 0 .. H : d \in G
  <2> HIDE DEF G
  <2> QED BY <1>2, <1>4, <1>5, Induction
<1>7. Begins(day)
  <2> HIDE DEF Begins
  <2> QED BY <1>1, <1>6
<1> QED BY <1>1, <1>3, <1>7

\* The days have all events.
LEMMA AllEvents == FirstEvent(HistoryDays) = BaseCount
<1>1. PICK H : H = HistoryDays
  OBVIOUS
<1>2. H \in Nat \ {0} /\ BaseCount \in Nat
  BY <1>1, BatchNumbers
<1>3. PICK q, r \in Nat : q = BaseCount \div H /\ r = BaseCount % H /\ r < H /\ BaseCount = q * H + r
  BY <1>2, DivMod
<1>4. H \in 0 .. HistoryDays
  BY <1>1, <1>2
<1>5. FirstEvent(H) = H * q + (IF H < r THEN H ELSE r)
  BY <1>1, <1>3, <1>4, DayNumbers
<1>6. H * q = q * H /\ (IF H < r THEN H ELSE r) = r
  BY <1>2, <1>3
<1> QED BY <1>1, <1>3, <1>5, <1>6

\* Days follow each other.
LEMMA DaysFollow ==
  ASSUME NEW d \in Days, NEW e \in 0 .. HistoryDays, d < e
  PROVE  /\ FirstEvent(d) + DayCount(d) <= FirstEvent(e)
         /\ FirstSession(d) + Sessions(DayCount(d)) <= FirstSession(e)
<1>1. HistoryDays \in Nat
  BY BatchNumbers
<1> DEFINE Before(n) == d < n => /\ FirstEvent(d + 1) <= FirstEvent(n)
                                 /\ FirstSession(d + 1) <= FirstSession(n)
           G == {n \in 0 .. HistoryDays : Before(n)}
<1>2. 0 \in G
  BY <1>1 DEF Days
<1>3. ASSUME NEW n \in 0 .. (HistoryDays - 1), n \in G PROVE n + 1 \in G
  <2>1. n \in Days /\ n \in 0 .. HistoryDays /\ n + 1 \in 0 .. HistoryDays /\ d \in Nat /\ n \in Nat
    BY <1>1 DEF Days
  <2>2. /\ FirstEvent(n) \in Nat /\ FirstSession(n) \in Nat /\ DayCount(n) \in Nat
        /\ Sessions(DayCount(n)) \in Nat /\ FirstEvent(n + 1) = FirstEvent(n) + DayCount(n)
        /\ FirstSession(n + 1) = FirstSession(n) + Sessions(DayCount(n))
    BY <2>1, DaySteps, DayNumbers
  <2>3. /\ FirstEvent(d + 1) \in Nat /\ FirstSession(d + 1) \in Nat
    <3>1. d + 1 \in 0 .. HistoryDays
      BY <1>1 DEF Days
    <3> QED BY <3>1, DayNumbers
  <2>4. CASE d < n
    <3>1. FirstEvent(d + 1) <= FirstEvent(n) /\ FirstSession(d + 1) <= FirstSession(n)
      BY <1>3, <2>4
    <3>2. Before(n + 1)
      BY <2>2, <2>3, <3>1
    <3> HIDE DEF Before
    <3> QED BY <2>1, <3>2
  <2>5. CASE ~(d < n)
    <3>1. d < n + 1 => d + 1 = n + 1
      BY <2>1, <2>5
    <3>2. /\ FirstEvent(n + 1) \in Nat /\ FirstSession(n + 1) \in Nat
      BY <2>1, DayNumbers
    <3>3. Before(n + 1)
      BY <3>1, <3>2
    <3> HIDE DEF Before
    <3> QED BY <2>1, <3>3
  <2> QED BY <2>4, <2>5
<1>4. \A n \in 0 .. HistoryDays : n \in G
  <2> HIDE DEF G
  <2> QED BY <1>1, <1>2, <1>3, Induction
<1>5. FirstEvent(d + 1) <= FirstEvent(e) /\ FirstSession(d + 1) <= FirstSession(e)
  BY <1>4
<1> QED BY <1>5, DaySteps

\* Every event is one of some day.
LEMMA DayOfEvent ==
  ASSUME NEW x \in 0 .. BaseCount - 1
  PROVE  \E d \in Days : x - FirstEvent(d) \in 0 .. DayCount(d) - 1
<1>1. HistoryDays \in Nat \ {0} /\ BaseCount \in Nat
  BY BatchNumbers
<1> DEFINE Within(n) == x < FirstEvent(n) => \E d \in Days : x - FirstEvent(d) \in 0 .. DayCount(d) - 1
           G == {n \in 0 .. HistoryDays : Within(n)}
<1>2. 0 \in G
  <2>1. ~(x < FirstEvent(0))
    BY <1>1, DaySteps
  <2> QED BY <1>1, <2>1
<1>3. ASSUME NEW n \in 0 .. (HistoryDays - 1), n \in G PROVE n + 1 \in G
  <2>1. n \in Days /\ n \in 0 .. HistoryDays /\ n + 1 \in 0 .. HistoryDays
    BY <1>1 DEF Days
  <2>2. FirstEvent(n) \in Nat /\ DayCount(n) \in Nat /\ FirstEvent(n + 1) = FirstEvent(n) + DayCount(n)
    BY <2>1, DaySteps, DayNumbers
  <2>3. CASE x < FirstEvent(n)
    <3>1. Within(n + 1)
      BY <1>3, <2>3
    <3> HIDE DEF Within
    <3> QED BY <2>1, <3>1
  <2>4. CASE ~(x < FirstEvent(n))
    <3>1. x < FirstEvent(n + 1) => x - FirstEvent(n) \in 0 .. DayCount(n) - 1
      BY <1>1, <2>2, <2>4
    <3>2. Within(n + 1)
      BY <2>1, <3>1
    <3> HIDE DEF Within
    <3> QED BY <2>1, <3>2
  <2> QED BY <2>3, <2>4
<1>4. \A n \in 0 .. HistoryDays : n \in G
  <2> HIDE DEF G
  <2> QED BY <1>1, <1>2, <1>3, Induction
<1>5. Within(HistoryDays)
  <2>1. HistoryDays \in G
    <3> HIDE DEF G
    <3> QED BY <1>1, <1>4
  <2> QED BY <2>1
<1> QED BY <1>1, <1>5, AllEvents

\* An event number is that of one position of one day.
LEMMA OneEvent ==
  ASSUME NEW d \in Days, NEW e \in Days, NEW p \in 0 .. DayCount(d) - 1, NEW r \in 0 .. DayCount(e) - 1,
         FirstEvent(d) + p = FirstEvent(e) + r
  PROVE  d = e /\ p = r
<1>1. /\ d \in 0 .. HistoryDays /\ e \in 0 .. HistoryDays /\ d \in Nat /\ e \in Nat
  BY BatchNumbers DEF Days
<1>2. /\ FirstEvent(d) \in Nat /\ FirstEvent(e) \in Nat /\ DayCount(d) \in Nat /\ DayCount(e) \in Nat
  BY <1>1, DayNumbers, DaySteps
<1>3. d < e => FirstEvent(d) + DayCount(d) <= FirstEvent(e)
  BY <1>1, DaysFollow
<1>4. e < d => FirstEvent(e) + DayCount(e) <= FirstEvent(d)
  BY <1>1, DaysFollow
<1>5. d = e
  BY <1>1, <1>2, <1>3, <1>4
<1> QED BY <1>2, <1>5

-----------------------------------------------------------------------------
(* The rows of a file *)

\* A row of T each, and all of T.
RowsAre(rows, T) == rows \in Seq(T) /\ Range(rows) = T

\* Copies add no row that is not there.
LEMMA CopiesAddNone ==
  ASSUME NEW T, NEW rows \in Seq(T), Range(rows) = T, Len(rows) \in 1 .. RowsPerFile,
         NEW salt \in 0 .. BaseCount + UserCount + ContentCount
  PROVE  RowsAre(rows \o Copied(rows, salt), T)
<1>1. PICK n, c : n = Len(rows) /\ c = Round(n * RateNum, RateDen - RateNum)
  OBVIOUS
<1>2. n \in 1 .. RowsPerFile /\ n \in Nat \ {0}
  BY <1>1
<1>3. c \in Nat
  <2>1. n * RateNum \in Nat
    BY <1>2, BatchNumbers
  <2> QED BY <1>1, <2>1, BatchNumbers, Rounded
<1>4. PICK copies : copies = Copied(rows, salt)
  OBVIOUS
<1>5. copies = [j \in 1 .. c |-> rows[1 + Draw(j, n, salt)]]
  BY <1>1, <1>4 DEF Copied
<1>6. ASSUME NEW j \in 1 .. c PROVE rows[1 + Draw(j, n, salt)] \in T
  <2>1. Draw(j, n, salt) \in 0 .. n - 1
    BY <1>1, <1>2, DrawAssumption
  <2>2. 1 + Draw(j, n, salt) \in 1 .. n
    BY <1>2, <2>1
  <2> QED BY <1>1, <2>2
<1>7. copies \in Seq(T)
  <2>1. copies \in [1 .. c -> T]
    BY <1>5, <1>6
  <2> QED BY <1>3, <2>1
<1>8. PICK s : s = rows \o copies
  OBVIOUS
<1>9. s \in Seq(T) /\ Len(s) \in Nat /\ Len(s) >= n /\ \A i \in 1 .. n : s[i] = rows[i]
  BY <1>1, <1>2, <1>7, <1>8
<1>10. Range(s) = T
  <2>1. Range(s) \subseteq T
    BY <1>9 DEF Range
  <2>2. ASSUME NEW t \in T PROVE t \in Range(s)
    <3>1. PICK i \in DOMAIN rows : rows[i] = t
      BY DEF Range
    <3>2. i \in 1 .. n
      BY <1>1, <3>1
    <3>3. i \in DOMAIN s /\ s[i] = t
      BY <1>2, <1>9, <3>1, <3>2
    <3> QED BY <3>3 DEF Range
  <2> QED BY <2>1, <2>2
<1> QED BY <1>4, <1>8, <1>9, <1>10 DEF RowsAre

\* The events of a file.
Slice(day, k) ==
  {Playback(day, p) : p \in k * RowsPerFile .. k * RowsPerFile + Size(DayCount(day), k) - 1}

\* A file has its part of the day, and copies of it.
LEMMA PlaybackRows ==
  ASSUME NEW day \in Days, NEW k \in 0 .. Files(DayCount(day)) - 1
  PROVE  RowsAre(PlaybackFile(day, k).records, Slice(day, k))
<1>1. PICK n, R : n = Size(DayCount(day), k) /\ R = RowsPerFile
  OBVIOUS
<1>2. /\ n \in 1 .. R /\ k * R \in Nat /\ R \in Nat \ {0} /\ k \in Nat
      /\ DayCount(day) \in Nat /\ k < Files(DayCount(day)) /\ Files(DayCount(day)) \in Nat
      /\ Files(DayCount(day)) <= DayCount(day)
  <2>1. DayCount(day) \in Nat
    BY DaySteps
  <2> QED BY <1>1, <2>1, FilesShare, BatchNumbers
<1>3. PICK rows : rows = PlaybackRecords(day, k)
  OBVIOUS
<1>4. rows = [i \in 1 .. n |-> Playback(day, k * R + i - 1)]
  BY <1>1, <1>3 DEF PlaybackRecords
<1>5. PICK T : T = Slice(day, k)
  OBVIOUS
<1>6. T = {Playback(day, p) : p \in k * R .. k * R + n - 1}
  BY <1>1, <1>5 DEF Slice
<1>7. PICK b : b = k * R
  OBVIOUS
<1>8. /\ rows = [i \in 1 .. n |-> Playback(day, b + i - 1)] /\ b \in Nat /\ n \in Nat
      /\ T = {Playback(day, p) : p \in b .. b + n - 1}
  BY <1>2, <1>4, <1>6, <1>7
<1>9. rows \in [1 .. n -> T] /\ DOMAIN rows = 1 .. n
  <2>1. ASSUME NEW i \in 1 .. n PROVE b + i - 1 \in b .. b + n - 1
    BY <1>8
  <2> QED BY <1>8, <2>1
<1>10. Range(rows) = T
  <2>1. ASSUME NEW t \in T PROVE \E i \in 1 .. n : rows[i] = t
    <3>1. PICK p \in b .. b + n - 1 : t = Playback(day, p)
      BY <1>8
    <3>2. p - b + 1 \in 1 .. n /\ b + (p - b + 1) - 1 = p
      BY <1>8
    <3> QED BY <1>8, <3>1, <3>2
  <2> QED BY <1>9, <2>1 DEF Range
<1>11. rows \in Seq(T) /\ Len(rows) = n
  BY <1>8, <1>9
<1>12. k \in 0 .. BaseCount + UserCount + ContentCount
  <2>1. day \in 0 .. HistoryDays /\ day + 1 \in 0 .. HistoryDays /\ HistoryDays \in 0 .. HistoryDays
        /\ day + 1 <= HistoryDays
    BY BatchNumbers DEF Days
  <2>2. FirstEvent(day) \in Nat
    BY <2>1, DayNumbers
  <2>3. FirstEvent(day) + DayCount(day) <= BaseCount
    <3>1. day < HistoryDays
      BY BatchNumbers DEF Days
    <3> QED BY <2>1, <3>1, AllEvents, DaysFollow
  <2> QED BY <1>2, <2>2, <2>3, BatchNumbers
<1>13. RowsAre(rows \o Copied(rows, k), T)
  BY <1>1, <1>2, <1>10, <1>11, <1>12, CopiesAddNone
<1>14. PlaybackFile(day, k).records = rows \o Copied(rows, k)
  BY <1>3 DEF PlaybackFile, CopiesOfFile
<1> QED BY <1>5, <1>13, <1>14

\* The rows of a snapshot's file.
SnapshotSlice(dataset, count, delivery, k) ==
  {SnapshotRow(dataset, p, delivery) :
     p \in k * RowsPerFile .. k * RowsPerFile + Size(count, k) - 1}

\* A snapshot's file has its part of the entities, and copies of it.
LEMMA SnapshotRows ==
  ASSUME NEW dataset, NEW delivery, NEW count \in {UserCount, ContentCount},
         NEW k \in 0 .. Files(count) - 1
  PROVE  RowsAre(SnapshotFile(dataset, count, delivery, k).records,
                 SnapshotSlice(dataset, count, delivery, k))
<1>1. PICK n, R : n = Size(count, k) /\ R = RowsPerFile
  OBVIOUS
<1>2. /\ n \in 1 .. R /\ k * R \in Nat /\ R \in Nat \ {0} /\ k \in Nat
      /\ count \in Nat /\ k < Files(count) /\ Files(count) \in Nat /\ Files(count) <= count
  <2>1. count \in Nat
    BY BatchNumbers
  <2> QED BY <1>1, <2>1, FilesShare, BatchNumbers
<1> DEFINE Row(p) == SnapshotRow(dataset, p, delivery)
<1>3. PICK b : b = k * R
  OBVIOUS
<1>4. PICK rows : rows = [i \in 1 .. n |-> Row(b + i - 1)]
  OBVIOUS
<1>5. SnapshotFile(dataset, count, delivery, k).records = rows \o Copied(rows, k)
  BY <1>1, <1>3, <1>4 DEF SnapshotFile
<1>6. PICK T : T = SnapshotSlice(dataset, count, delivery, k)
  OBVIOUS
<1>7. T = {Row(p) : p \in b .. b + n - 1}
  BY <1>1, <1>3, <1>6 DEF SnapshotSlice
<1>8. b \in Nat /\ n \in Nat
  BY <1>2, <1>3
<1> HIDE DEF Row
<1>9. rows \in [1 .. n -> T] /\ DOMAIN rows = 1 .. n
  <2>1. ASSUME NEW i \in 1 .. n PROVE b + i - 1 \in b .. b + n - 1
    BY <1>8
  <2> QED BY <1>4, <1>7, <2>1
<1>10. Range(rows) = T
  <2>1. ASSUME NEW t \in T PROVE \E i \in 1 .. n : rows[i] = t
    <3>1. PICK p \in b .. b + n - 1 : t = Row(p)
      BY <1>7
    <3>2. p - b + 1 \in 1 .. n /\ b + (p - b + 1) - 1 = p
      BY <1>8
    <3> QED BY <1>4, <3>1, <3>2
  <2> QED BY <1>9, <2>1 DEF Range
<1>11. rows \in Seq(T) /\ Len(rows) = n
  BY <1>8, <1>9
<1>12. k \in 0 .. BaseCount + UserCount + ContentCount
  BY <1>2, BatchNumbers
<1>13. RowsAre(rows \o Copied(rows, k), T)
  BY <1>1, <1>2, <1>10, <1>11, <1>12, CopiesAddNone
<1> QED BY <1>5, <1>6, <1>13

-----------------------------------------------------------------------------
(* The objects of a command *)

\* The objects of a bootstrap are the files of its days, one after the other.
LEMMA BootstrapFiles ==
  \E o : /\ \A i \in DOMAIN BootstrapObjects : \E d \in Days : \E k \in 0 .. Files(DayCount(d)) - 1 :
              BootstrapObjects[i] = PlaybackFile(d, k) /\ i = o[d] + k + 1
         /\ \A d \in Days : \A k \in 0 .. Files(DayCount(d)) - 1 :
              \E i \in DOMAIN BootstrapObjects : BootstrapObjects[i] = PlaybackFile(d, k)
<1>1. PICK H : H = HistoryDays
  OBVIOUS
<1>2. H \in Nat \ {0} /\ Days = 0 .. H - 1
  BY <1>1, BatchNumbers DEF Days
<1> DEFINE T == {PlaybackFile(d, k) : d \in Days, k \in Nat}
           seqs == [d \in 1 .. H |-> [k \in 1 .. Files(DayCount(d - 1)) |-> PlaybackFile(d - 1, k - 1)]]
<1>3. BootstrapObjects = FlattenSeq(seqs)
  BY <1>1 DEF BootstrapObjects
<1>4. ASSUME NEW d \in 1 .. H
      PROVE  /\ seqs[d] \in Seq(T) /\ Len(seqs[d]) = Files(DayCount(d - 1)) /\ Files(DayCount(d - 1)) \in Nat
             /\ \A k \in 1 .. Len(seqs[d]) : seqs[d][k] = PlaybackFile(d - 1, k - 1)
  <2>1. d - 1 \in Days
    BY <1>2
  <2>2. PICK n : n = Files(DayCount(d - 1))
    OBVIOUS
  <2>3. n \in Nat
    BY <2>1, <2>2, DaySteps, FilesShare
  <2>4. seqs[d] = [k \in 1 .. n |-> PlaybackFile(d - 1, k - 1)]
    BY <2>2
  <2>5. \A k \in 1 .. n : PlaybackFile(d - 1, k - 1) \in T
    BY <2>1, <2>3
  <2> HIDE DEF T, seqs
  <2>6. seqs[d] \in [1 .. n -> T]
    BY <2>4, <2>5
  <2>7. seqs[d] \in Seq(T) /\ Len(seqs[d]) = n
    BY <2>3, <2>4, <2>6
  <2> QED BY <2>2, <2>3, <2>4, <2>7
<1>5. DOMAIN seqs = 1 .. H /\ seqs = [d \in 1 .. H |-> seqs[d]]
  OBVIOUS
<1> HIDE DEF T, seqs
<1>6. seqs \in Seq(Seq(T)) /\ Len(seqs) = H
  <2>1. seqs \in [1 .. H -> Seq(T)]
    BY <1>4, <1>5
  <2> QED BY <1>2, <2>1
<1>7. PICK f : f = BootstrapObjects
  OBVIOUS
<1>8. f \in Seq(T) /\ \E o : Pieces(seqs, f, o, H)
  BY <1>2, <1>3, <1>6, <1>7, Flattened
<1>9. PICK o : Pieces(seqs, f, o, H)
  BY <1>8
<1>10. Len(f) \in Nat /\ DOMAIN f = 1 .. Len(f)
  BY <1>8
<1> DEFINE p == [d \in Days |-> o[d + 1]]
<1>11. ASSUME NEW i \in DOMAIN f
       PROVE  \E d \in Days : \E k \in 0 .. Files(DayCount(d)) - 1 : f[i] = PlaybackFile(d, k) /\ i = p[d] + k + 1
  <2>1. i \in 1 .. Len(f) /\ i \in Nat
    BY <1>10
  <2>2. PICK e \in 1 .. H : i - o[e] \in 1 .. Len(seqs[e])
    BY <2>1, <1>9 DEF Pieces
  <2>3. /\ o[e] \in Nat /\ \A j \in 1 .. Len(seqs[e]) : f[o[e] + j] = seqs[e][j]
    BY <1>9 DEF Pieces
  <2>4. PICK j, x : j = i - o[e] /\ x = o[e]
    OBVIOUS
  <2>5. j \in 1 .. Len(seqs[e]) /\ i = x + j /\ x \in Nat
    BY <2>1, <2>2, <2>3, <2>4
  <2>6. f[i] = seqs[e][j]
    BY <2>3, <2>4, <2>5
  <2>7. e - 1 \in Days /\ (e - 1) + 1 = e /\ p[e - 1] = x
    BY <1>2, <2>4
  <2>8. j - 1 \in 0 .. Files(DayCount(e - 1)) - 1
    BY <1>4, <2>5
  <2>9. f[i] = PlaybackFile(e - 1, j - 1)
    BY <1>4, <2>5, <2>6
  <2>10. i = x + (j - 1) + 1
    BY <1>4, <2>5
  <2> QED BY <2>7, <2>8, <2>9, <2>10
<1>12. ASSUME NEW d \in Days, NEW k \in 0 .. Files(DayCount(d)) - 1
       PROVE  \E i \in DOMAIN f : f[i] = PlaybackFile(d, k)
  <2>1. d + 1 \in 1 .. H /\ (d + 1) - 1 = d
    BY <1>2
  <2>2. /\ Len(seqs[d + 1]) = Files(DayCount(d)) /\ Files(DayCount(d)) \in Nat
        /\ \A j \in 1 .. Len(seqs[d + 1]) : seqs[d + 1][j] = PlaybackFile(d, j - 1)
    BY <1>4, <2>1
  <2>3. k + 1 \in 1 .. Len(seqs[d + 1]) /\ (k + 1) - 1 = k
    BY <2>2
  <2>4. /\ o[d + 1] \in Nat /\ o[d + 1] + Len(seqs[d + 1]) <= Len(f)
        /\ \A j \in 1 .. Len(seqs[d + 1]) : f[o[d + 1] + j] = seqs[d + 1][j]
    BY <1>9, <2>1 DEF Pieces
  <2>5. f[o[d + 1] + (k + 1)] = PlaybackFile(d, k)
    BY <2>2, <2>3, <2>4
  <2>6. o[d + 1] + (k + 1) \in DOMAIN f
    <3>1. PICK x, n : x = o[d + 1] /\ n = Len(seqs[d + 1])
      OBVIOUS
    <3>2. x \in Nat /\ n \in Nat /\ x + n <= Len(f) /\ k + 1 \in 1 .. n
      BY <2>2, <2>3, <2>4, <3>1
    <3>3. x + (k + 1) \in 1 .. Len(f)
      BY <1>10, <3>2
    <3> QED BY <1>10, <3>1, <3>3
  <2> QED BY <2>5, <2>6
<1> HIDE DEF p
<1> QED BY <1>7, <1>11, <1>12

\* What is where in two sequences joined.
LEMMA Joined ==
  ASSUME NEW T, NEW a \in Seq(T), NEW b \in Seq(T)
  PROVE  /\ a \o b \in Seq(T) /\ Len(a \o b) = Len(a) + Len(b)
         /\ DOMAIN (a \o b) = 1 .. Len(a) + Len(b)
         /\ \A i \in 1 .. Len(a) + Len(b) : (a \o b)[i] = IF i <= Len(a) THEN a[i] ELSE b[i - Len(a)]
OBVIOUS

Datasets == {"users", "subscriptions", "content"}
RowCount(dataset) == IF dataset = "content" THEN ContentCount ELSE UserCount

\* The objects of a delivery are the files of its datasets, one after the other.
LEMMA RecurringOrder ==
  ASSUME NEW delivery
  PROVE  \E o : \A i \in DOMAIN RecurringFiles(UserCount, ContentCount, delivery) :
           \E dataset \in Datasets : \E k \in 0 .. Files(RowCount(dataset)) - 1 :
             /\ RecurringFiles(UserCount, ContentCount, delivery)[i]
                  = SnapshotFile(dataset, RowCount(dataset), delivery, k)
             /\ i = o[dataset] + k + 1
<1>1. PICK n, m : n = Files(UserCount) /\ m = Files(ContentCount)
  OBVIOUS
<1>2. n \in Nat /\ m \in Nat
  BY <1>1, BatchNumbers, FilesShare
<1> DEFINE File(dataset, k) == SnapshotFile(dataset, RowCount(dataset), delivery, k)
           T == {File(dataset, k) : dataset \in Datasets, k \in Nat}
<1>3. /\ RowCount("users") = UserCount /\ RowCount("subscriptions") = UserCount
      /\ RowCount("content") = ContentCount
      /\ "users" \in Datasets /\ "subscriptions" \in Datasets /\ "content" \in Datasets
  BY DEF RowCount, Datasets
<1>4. PICK u, s, c : /\ u = [k \in 1 .. n |-> File("users", k - 1)]
                     /\ s = [k \in 1 .. n |-> File("subscriptions", k - 1)]
                     /\ c = [k \in 1 .. m |-> File("content", k - 1)]
  OBVIOUS
<1>5. PICK f : f = RecurringFiles(UserCount, ContentCount, delivery)
  OBVIOUS
<1>6. f = u \o s \o c
  BY <1>1, <1>3, <1>4, <1>5 DEF RecurringFiles
<1> HIDE DEF File
<1>7. u \in Seq(T) /\ s \in Seq(T) /\ c \in Seq(T) /\ Len(u) = n /\ Len(s) = n /\ Len(c) = m
  <2>1. ASSUME NEW x \in Nat, NEW dataset \in Datasets
        PROVE  [k \in 1 .. x |-> File(dataset, k - 1)] \in [1 .. x -> T]
    <3>1. \A k \in 1 .. x : k - 1 \in Nat
      OBVIOUS
    <3> QED BY <3>1
  <2>2. u \in [1 .. n -> T] /\ s \in [1 .. n -> T] /\ c \in [1 .. m -> T]
    BY <1>2, <1>3, <1>4, <2>1
  <2> HIDE DEF T
  <2> QED BY <1>2, <2>2
<1> HIDE DEF T
<1>8. /\ DOMAIN f = 1 .. n + n + m
      /\ \A i \in 1 .. n + n + m : f[i] = IF i <= n THEN u[i] ELSE IF i <= n + n THEN s[i - n] ELSE c[i - (n + n)]
  <2>1. PICK us : us = u \o s
    OBVIOUS
  <2>2. us \in Seq(T) /\ Len(us) = n + n
        /\ \A i \in 1 .. n + n : us[i] = IF i <= n THEN u[i] ELSE s[i - n]
    <3>1. /\ us \in Seq(T) /\ Len(us) = Len(u) + Len(s)
          /\ \A i \in 1 .. Len(u) + Len(s) : us[i] = IF i <= Len(u) THEN u[i] ELSE s[i - Len(u)]
      BY <1>7, <2>1, Joined
    <3> QED BY <1>7, <3>1
  <2>3. f = us \o c
    BY <1>6, <2>1
  <2>4. DOMAIN f = 1 .. n + n + m
        /\ \A i \in 1 .. n + n + m : f[i] = IF i <= n + n THEN us[i] ELSE c[i - (n + n)]
    <3>1. /\ DOMAIN f = 1 .. Len(us) + Len(c)
          /\ \A i \in 1 .. Len(us) + Len(c) : f[i] = IF i <= Len(us) THEN us[i] ELSE c[i - Len(us)]
      BY <1>7, <2>2, <2>3, Joined
    <3> QED BY <1>7, <2>2, <3>1
  <2>5. ASSUME NEW i \in 1 .. n + n + m
        PROVE  f[i] = IF i <= n THEN u[i] ELSE IF i <= n + n THEN s[i - n] ELSE c[i - (n + n)]
    <3>1. i <= n + n => i \in 1 .. n + n
      BY <1>2
    <3>2. i <= n => i <= n + n
      BY <1>2
    <3> QED BY <2>2, <2>4, <3>1, <3>2
  <2> QED BY <2>4, <2>5
<1> DEFINE o == [dataset \in Datasets |-> CASE dataset = "users" -> 0 [] dataset = "subscriptions" -> n
                                            [] dataset = "content" -> n + n]
<1>9. o["users"] = 0 /\ o["subscriptions"] = n /\ o["content"] = n + n
  BY <1>3 DEF Datasets
<1> HIDE DEF o
<1>10. ASSUME NEW i \in DOMAIN f
       PROVE  \E dataset \in Datasets : \E k \in 0 .. Files(RowCount(dataset)) - 1 :
                f[i] = File(dataset, k) /\ i = o[dataset] + k + 1
  <2>1. i \in 1 .. n + n + m /\ i \in Nat
    BY <1>2, <1>8
  <2>2. CASE i <= n
    <3>1. f[i] = File("users", i - 1) /\ i - 1 \in 0 .. n - 1 /\ i = 0 + (i - 1) + 1
      BY <1>2, <1>4, <1>8, <2>1, <2>2
    <3> QED BY <1>1, <1>3, <1>9, <3>1
  <2>3. CASE ~(i <= n) /\ i <= n + n
    <3>1. f[i] = s[i - n] /\ i - n \in 1 .. n
      BY <1>2, <1>8, <2>1, <2>3
    <3>2. f[i] = File("subscriptions", i - n - 1) /\ i - n - 1 \in 0 .. n - 1 /\ i = n + (i - n - 1) + 1
      BY <1>2, <1>4, <2>1, <3>1
    <3> QED BY <1>1, <1>3, <1>9, <3>2
  <2>4. CASE ~(i <= n + n)
    <3>1. f[i] = c[i - (n + n)] /\ i - (n + n) \in 1 .. m
      BY <1>2, <1>8, <2>1, <2>4
    <3>2. /\ f[i] = File("content", i - (n + n) - 1) /\ i - (n + n) - 1 \in 0 .. m - 1
          /\ i = (n + n) + (i - (n + n) - 1) + 1
      BY <1>2, <1>4, <2>1, <3>1
    <3> QED BY <1>1, <1>3, <1>9, <3>2
  <2> QED BY <2>2, <2>3, <2>4
<1> QED BY <1>5, <1>10 DEF File

\* The files of a command.
Source(c) ==
  IF Requested[c].mode = "recurring_batch" /\ Requested[c].delivery \in DOMAIN Deliveries
  THEN RecurringFiles(UserCount, ContentCount, Deliveries[Requested[c].delivery])
  ELSE BootstrapObjects

\* The keys of an object's rows.
KeysOf(c, i) == {r.key : r \in Range(Objects[c][i].bytes)}

\* An object has the rows of a file, and counts its keys.
LEMMA ObjectIs ==
  ASSUME NEW c \in Commands
  PROVE  /\ DOMAIN Objects[c] = DOMAIN Source(c)
         /\ \A i \in DOMAIN Objects[c] : /\ Objects[c][i].bytes = Source(c)[i].records
                                         /\ Objects[c][i].keys = Cardinality(KeysOf(c, i))
<1>1. PICK s : s = Source(c)
  OBVIOUS
<1>2. Objects[c] = Serialized(s)
  BY <1>1, ObjectsAssumption DEF Generated, Source
<1>3. DOMAIN Objects[c] = DOMAIN s
  BY <1>2 DEF Serialized
<1>4. ASSUME NEW i \in DOMAIN Objects[c]
      PROVE  Objects[c][i].bytes = s[i].records /\ Objects[c][i].keys = Cardinality(KeysOf(c, i))
  <2>1. PICK rows : rows = s[i].records
    OBVIOUS
  <2>2. Objects[c][i] = [name |-> s[i].name, bytes |-> rows, rows |-> Len(rows),
                         keys |-> Cardinality({rows[j].key : j \in DOMAIN rows})]
    BY <1>2, <1>3, <2>1 DEF Serialized
  <2>3. {rows[j].key : j \in DOMAIN rows} = {r.key : r \in Range(rows)}
    BY DEF Range
  <2>4. Objects[c][i].bytes = rows /\ Objects[c][i].keys = Cardinality({rows[j].key : j \in DOMAIN rows})
    BY <2>2
  <2> QED BY <2>1, <2>3, <2>4 DEF KeysOf
<1> QED BY <1>1, <1>3, <1>4

\* A row is in one file.
LEMMA OneFile ==
  ASSUME NEW count \in Nat, NEW k \in 0 .. Files(count) - 1, NEW l \in 0 .. Files(count) - 1,
         NEW p \in k * RowsPerFile .. k * RowsPerFile + Size(count, k) - 1,
         p \in l * RowsPerFile .. l * RowsPerFile + Size(count, l) - 1
  PROVE  k = l
<1>1. PICK a, b, m, n : a = k * RowsPerFile /\ b = l * RowsPerFile /\ m = Size(count, k) /\ n = Size(count, l)
  OBVIOUS
<1>2. a \in Nat /\ b \in Nat /\ m \in Nat /\ n \in Nat
  BY <1>1, BatchNumbers, FilesShare
<1>3. (k < l => a + m <= b) /\ (l < k => b + n <= a)
  BY <1>1, FilesShare
<1>4. p \in a .. a + m - 1 /\ p \in b .. b + n - 1
  BY <1>1
<1>5. ~(k < l) /\ ~(l < k)
  BY <1>2, <1>3, <1>4
<1>6. k \in Nat /\ l \in Nat
  BY FilesShare
<1> QED BY <1>5, <1>6

\* The positions of a day's file are positions of the day.
LEMMA SliceOfDay ==
  ASSUME NEW day \in Days, NEW k \in 0 .. Files(DayCount(day)) - 1,
         NEW p \in k * RowsPerFile .. k * RowsPerFile + Size(DayCount(day), k) - 1
  PROVE  p \in 0 .. DayCount(day) - 1
<1>1. PICK a, m, n : a = k * RowsPerFile /\ m = Size(DayCount(day), k) /\ n = DayCount(day)
  OBVIOUS
<1>2. n \in Nat
  BY <1>1, DaySteps
<1>3. a \in Nat /\ m \in 1 .. RowsPerFile /\ a + m <= n
  BY <1>1, <1>2, FilesShare
<1>4. m \in Nat /\ p \in a .. a + m - 1
  BY <1>1, <1>3, BatchNumbers
<1>5. p \in 0 .. n - 1
  BY <1>2, <1>3, <1>4
<1> QED BY <1>1, <1>5

\* The keys of a file of events, and of a file of a snapshot.
LEMMA KeysOfFiles ==
  /\ \A day \in Days : \A k \in 0 .. Files(DayCount(day)) - 1 :
       \A r \in Range(PlaybackFile(day, k).records) :
         \E p \in k * RowsPerFile .. k * RowsPerFile + Size(DayCount(day), k) - 1 :
           r = Playback(day, p) /\ r.key = <<"event", FirstEvent(day) + p>>
  /\ \A dataset \in Datasets : \A delivery : \A k \in 0 .. Files(RowCount(dataset)) - 1 :
       \A r \in Range(SnapshotFile(dataset, RowCount(dataset), delivery, k).records) :
         \E p \in k * RowsPerFile .. k * RowsPerFile + Size(RowCount(dataset), k) - 1 :
           r.key = <<dataset, p>>
<1>1. ASSUME NEW day \in Days, NEW k \in 0 .. Files(DayCount(day)) - 1,
             NEW r \in Range(PlaybackFile(day, k).records)
      PROVE  \E p \in k * RowsPerFile .. k * RowsPerFile + Size(DayCount(day), k) - 1 :
               r = Playback(day, p) /\ r.key = <<"event", FirstEvent(day) + p>>
  <2>1. r \in Slice(day, k)
    BY PlaybackRows DEF RowsAre
  <2>2. PICK p \in k * RowsPerFile .. k * RowsPerFile + Size(DayCount(day), k) - 1 : r = Playback(day, p)
    BY <2>1 DEF Slice
  <2>3. r.key = <<"event", FirstEvent(day) + p>>
    BY <2>2 DEF Playback, FirstEvent
  <2> QED BY <2>2, <2>3
<1>2. ASSUME NEW dataset \in Datasets, NEW delivery, NEW k \in 0 .. Files(RowCount(dataset)) - 1,
             NEW r \in Range(SnapshotFile(dataset, RowCount(dataset), delivery, k).records)
      PROVE  \E p \in k * RowsPerFile .. k * RowsPerFile + Size(RowCount(dataset), k) - 1 :
               r.key = <<dataset, p>>
  <2>1. RowCount(dataset) \in {UserCount, ContentCount}
    BY DEF RowCount
  <2>2. r \in SnapshotSlice(dataset, RowCount(dataset), delivery, k)
    BY <2>1, SnapshotRows DEF RowsAre
  <2>3. PICK p \in k * RowsPerFile .. k * RowsPerFile + Size(RowCount(dataset), k) - 1 :
               r = SnapshotRow(dataset, p, delivery)
    BY <2>2 DEF SnapshotSlice
  <2> QED BY <2>3 DEF SnapshotRow
<1> QED BY <1>1, <1>2

\* No two objects of a command have a key in common.
LEMMA KeysApart ==
  ASSUME NEW c \in Commands, NEW i \in DOMAIN Objects[c], NEW j \in DOMAIN Objects[c], i # j
  PROVE  KeysOf(c, i) \cap KeysOf(c, j) = {}
<1> SUFFICES ASSUME NEW r \in Range(Objects[c][i].bytes), NEW s \in Range(Objects[c][j].bytes), r.key = s.key
             PROVE  FALSE
  BY DEF KeysOf
<1>1. PICK f : f = Source(c)
  OBVIOUS
<1>2. i \in DOMAIN f /\ j \in DOMAIN f /\ r \in Range(f[i].records) /\ s \in Range(f[j].records)
  BY <1>1, ObjectIs
<1>3. CASE f = BootstrapObjects
  <2>1. PICK o : \A x \in DOMAIN f : \E d \in Days : \E k \in 0 .. Files(DayCount(d)) - 1 :
                   f[x] = PlaybackFile(d, k) /\ x = o[d] + k + 1
    BY <1>3, BootstrapFiles
  <2>2. PICK d \in Days : \E k \in 0 .. Files(DayCount(d)) - 1 : f[i] = PlaybackFile(d, k) /\ i = o[d] + k + 1
    BY <1>2, <2>1
  <2>3. PICK k \in 0 .. Files(DayCount(d)) - 1 : f[i] = PlaybackFile(d, k) /\ i = o[d] + k + 1
    BY <2>2
  <2>4. PICK e \in Days : \E l \in 0 .. Files(DayCount(e)) - 1 : f[j] = PlaybackFile(e, l) /\ j = o[e] + l + 1
    BY <1>2, <2>1
  <2>5. PICK l \in 0 .. Files(DayCount(e)) - 1 : f[j] = PlaybackFile(e, l) /\ j = o[e] + l + 1
    BY <2>4
  <2>6. PICK p \in k * RowsPerFile .. k * RowsPerFile + Size(DayCount(d), k) - 1 :
          r.key = <<"event", FirstEvent(d) + p>>
    BY <1>2, <2>3, KeysOfFiles
  <2>7. PICK q \in l * RowsPerFile .. l * RowsPerFile + Size(DayCount(e), l) - 1 :
          s.key = <<"event", FirstEvent(e) + q>>
    BY <1>2, <2>5, KeysOfFiles
  <2>8. FirstEvent(d) + p = FirstEvent(e) + q
    <3>1. PICK x, y : x = FirstEvent(d) + p /\ y = FirstEvent(e) + q
      OBVIOUS
    <3>2. r.key = <<"event", x>> /\ s.key = <<"event", y>>
      BY <2>6, <2>7, <3>1
    <3>3. <<"event", x>>[2] = <<"event", y>>[2]
      BY <3>2
    <3>4. x = y
      BY <3>3
    <3> QED BY <3>1, <3>4
  <2>9. p \in 0 .. DayCount(d) - 1 /\ q \in 0 .. DayCount(e) - 1
    BY SliceOfDay
  <2>10. d = e /\ p = q
    BY <2>8, <2>9, OneEvent
  <2>11. DayCount(d) \in Nat
    BY DaySteps
  <2>12. l \in 0 .. Files(DayCount(d)) - 1 /\ p \in l * RowsPerFile .. l * RowsPerFile + Size(DayCount(d), l) - 1
    BY <2>7, <2>10
  <2>13. k = l
    BY <2>11, <2>12, OneFile
  <2> QED BY <2>3, <2>5, <2>10, <2>13
<1>4. CASE f # BootstrapObjects
  <2>1. PICK delivery : f = RecurringFiles(UserCount, ContentCount, delivery)
    BY <1>1, <1>4 DEF Source
  <2>2. PICK o : \A x \in DOMAIN f : \E dataset \in Datasets : \E k \in 0 .. Files(RowCount(dataset)) - 1 :
                   f[x] = SnapshotFile(dataset, RowCount(dataset), delivery, k) /\ x = o[dataset] + k + 1
    BY <2>1, RecurringOrder
  <2>3. PICK d \in Datasets : \E k \in 0 .. Files(RowCount(d)) - 1 :
          f[i] = SnapshotFile(d, RowCount(d), delivery, k) /\ i = o[d] + k + 1
    BY <1>2, <2>2
  <2>4. PICK k \in 0 .. Files(RowCount(d)) - 1 :
          f[i] = SnapshotFile(d, RowCount(d), delivery, k) /\ i = o[d] + k + 1
    BY <2>3
  <2>5. PICK e \in Datasets : \E l \in 0 .. Files(RowCount(e)) - 1 :
          f[j] = SnapshotFile(e, RowCount(e), delivery, l) /\ j = o[e] + l + 1
    BY <1>2, <2>2
  <2>6. PICK l \in 0 .. Files(RowCount(e)) - 1 :
          f[j] = SnapshotFile(e, RowCount(e), delivery, l) /\ j = o[e] + l + 1
    BY <2>5
  <2>7. PICK p \in k * RowsPerFile .. k * RowsPerFile + Size(RowCount(d), k) - 1 : r.key = <<d, p>>
    BY <1>2, <2>4, KeysOfFiles
  <2>8. PICK q \in l * RowsPerFile .. l * RowsPerFile + Size(RowCount(e), l) - 1 : s.key = <<e, q>>
    BY <1>2, <2>6, KeysOfFiles
  <2>9. d = e /\ p = q
    <3>1. <<d, p>> = <<e, q>>
      BY <2>7, <2>8
    <3>2. <<d, p>>[1] = <<e, q>>[1] /\ <<d, p>>[2] = <<e, q>>[2]
      BY <3>1
    <3> QED BY <3>2
  <2>10. RowCount(d) \in Nat
    BY BatchNumbers DEF RowCount
  <2>11. l \in 0 .. Files(RowCount(d)) - 1 /\ p \in l * RowsPerFile .. l * RowsPerFile + Size(RowCount(d), l) - 1
    BY <2>8, <2>9
  <2>12. k = l
    BY <2>10, <2>11, OneFile
  <2> QED BY <2>4, <2>6, <2>9, <2>12
<1> QED BY <1>3, <1>4

\* The keys of an object are finitely many.
LEMMA KeysAreFinite ==
  ASSUME NEW c \in Commands, NEW i \in DOMAIN Objects[c]
  PROVE  IsFiniteSet(KeysOf(c, i))
<1>1. PICK f, rows : f = Source(c) /\ rows = Objects[c][i].bytes
  OBVIOUS
<1>2. i \in DOMAIN f /\ rows = f[i].records
  BY <1>1, ObjectIs
<1>3. \E T : rows \in Seq(T)
  <2>1. CASE f = BootstrapObjects
    <3>1. PICK d \in Days : \E k \in 0 .. Files(DayCount(d)) - 1 : f[i] = PlaybackFile(d, k)
      BY <1>2, <2>1, BootstrapFiles
    <3>2. PICK k \in 0 .. Files(DayCount(d)) - 1 : f[i] = PlaybackFile(d, k)
      BY <3>1
    <3> QED BY <1>2, <3>2, PlaybackRows DEF RowsAre
  <2>2. CASE f # BootstrapObjects
    <3>1. PICK delivery : f = RecurringFiles(UserCount, ContentCount, delivery)
      BY <1>1, <2>2 DEF Source
    <3>2. PICK d \in Datasets : \E k \in 0 .. Files(RowCount(d)) - 1 :
            f[i] = SnapshotFile(d, RowCount(d), delivery, k)
      BY <1>2, <3>1, RecurringOrder
    <3>3. PICK k \in 0 .. Files(RowCount(d)) - 1 : f[i] = SnapshotFile(d, RowCount(d), delivery, k)
      BY <3>2
    <3>4. RowCount(d) \in {UserCount, ContentCount}
      BY DEF RowCount
    <3> QED BY <1>2, <3>3, <3>4, SnapshotRows DEF RowsAre
  <2> QED BY <2>1, <2>2
<1>4. Len(rows) \in Nat /\ DOMAIN rows = 1 .. Len(rows)
  BY <1>3
<1>5. IsFiniteSet(DOMAIN rows)
  BY <1>4, FS_Interval
<1> DEFINE K == KeysOf(c, i)
           g == [j \in DOMAIN rows |-> rows[j].key]
<1>6. K = {r.key : r \in Range(rows)}
  BY <1>1 DEF KeysOf
<1>7. g \in Surjection(DOMAIN rows, K)
  <2>1. \A j \in DOMAIN rows : rows[j] \in Range(rows)
    BY DEF Range
  <2>2. g \in [DOMAIN rows -> K]
    BY <1>6, <2>1
  <2>3. \A x \in K : \E j \in DOMAIN rows : g[j] = x
    BY <1>6 DEF Range
  <2> QED BY <2>2, <2>3 DEF Surjection
<1> HIDE DEF g, K
<1>8. IsFiniteSet(K)
  BY <1>5, <1>7, FS_Surjection
<1> QED BY <1>8 DEF K

-----------------------------------------------------------------------------
(* The report of a command *)

\* The keys a command has behind it when its next object is n.
KeysBefore(c, n) == UNION {KeysOf(c, i) : i \in {j \in DOMAIN Objects[c] : j < n}}

\* The counters of a command's report are those of what it has behind it.
Counted(c) ==
  pc[c] \in {"stat", "put", "done"} =>
    /\ report[c].files = at[c] - 1 /\ report[c].uploaded <= at[c] - 1
    /\ IsFiniteSet(KeysBefore(c, at[c]))
    /\ report[c].rows - report[c].duplicates = Cardinality(KeysBefore(c, at[c]))

\* One object more is counted with its different keys.
LEMMA CountNext ==
  ASSUME TypeInv, NEW c \in Commands, Counted(c), Running(c), NEW n \in {0, 1}, NextObject(c, n)
  PROVE  Counted(c)'
<1>1. PICK o, r, a : o = Current(c) /\ r = report[c] /\ a = at[c]
  OBVIOUS
<1>2. a \in DOMAIN Objects[c] /\ o \in Object /\ o = Objects[c][a]
  BY <1>1, CurrentType DEF Current
<1>3. a \in Nat \ {0} /\ r \in Reports /\ o.rows \in Nat /\ o.keys \in Nat
  BY <1>1, <1>2 DEF TypeInv, Object
<1>4. r.rows \in Nat /\ r.files \in Nat /\ r.uploaded \in Nat /\ r.duplicates \in Int
  BY <1>3 DEF Reports
<1>5. at'[c] = a + 1 /\ report'[c] = Observed(r, o, n)
  BY <1>1 DEF NextObject, TypeInv
<1>6. /\ report'[c].rows = r.rows + o.rows /\ report'[c].files = r.files + 1
      /\ report'[c].uploaded = r.uploaded + n /\ report'[c].duplicates = r.duplicates + o.rows - o.keys
  BY <1>5 DEF Observed
<1>7. PICK K, L : K = KeysBefore(c, a) /\ L = KeysOf(c, a)
  OBVIOUS
<1>8. /\ r.files = a - 1 /\ r.uploaded <= a - 1 /\ IsFiniteSet(K) /\ r.rows - r.duplicates = Cardinality(K)
  BY <1>1, <1>7 DEF Counted, Running
<1>9. KeysBefore(c, a + 1) = K \cup L
  <2>1. DOMAIN Objects[c] \subseteq Nat
    BY ObjectDomain
  <2>2. {j \in DOMAIN Objects[c] : j < a + 1} = {j \in DOMAIN Objects[c] : j < a} \cup {a}
    BY <1>2, <1>3, <2>1
  <2> QED BY <1>7, <2>2 DEF KeysBefore
<1>10. K \cap L = {}
  <2>1. SUFFICES ASSUME NEW x \in K, x \in L PROVE FALSE
    OBVIOUS
  <2>2. PICK i \in DOMAIN Objects[c] : i < a /\ x \in KeysOf(c, i)
    BY <1>7, <2>1 DEF KeysBefore
  <2>3. i # a
    BY <1>3, <2>2
  <2>4. KeysOf(c, i) \cap KeysOf(c, a) = {}
    BY <1>2, <2>3, KeysApart
  <2> QED BY <1>7, <2>1, <2>2, <2>4
<1>11. IsFiniteSet(L) /\ Cardinality(L) = o.keys
  BY <1>2, <1>7, KeysAreFinite, ObjectIs
<1>12. IsFiniteSet(K \cup L) /\ Cardinality(K \cup L) = Cardinality(K) + o.keys
  <2>1. IsFiniteSet(K \cup L) /\ Cardinality(K \cup L) = Cardinality(K) + Cardinality(L) - Cardinality(K \cap L)
    BY <1>8, <1>11, FS_Union
  <2>2. Cardinality(K \cap L) = 0
    BY <1>10, FS_EmptySet
  <2>3. Cardinality(K) \in Nat
    BY <1>8, FS_CardinalityType
  <2> QED BY <1>3, <1>11, <2>1, <2>2, <2>3
<1>13. /\ report'[c].files = at'[c] - 1 /\ report'[c].uploaded <= at'[c] - 1
       /\ report'[c].rows - report'[c].duplicates = Cardinality(K) + o.keys
  <2>1. Cardinality(K) \in Nat
    BY <1>8, FS_CardinalityType
  <2> QED BY <1>3, <1>4, <1>5, <1>6, <1>8, <2>1
<1>14. KeysBefore(c, at[c])' = K \cup L
  BY <1>5, <1>9 DEF KeysBefore, KeysOf
<1> QED BY <1>12, <1>13, <1>14 DEF Counted

\* Counting goes on from nothing.
LEMMA CountStart ==
  ASSUME TypeInv, NEW c \in Commands, Start(c)
  PROVE  Counted(c)'
<1>1. at'[c] = 1 /\ report'[c] = NoReport
  BY DEF Start, TypeInv
<1>2. /\ report'[c].rows = 0 /\ report'[c].files = 0 /\ report'[c].uploaded = 0 /\ report'[c].duplicates = 0
  BY <1>1 DEF NoReport
<1>3. KeysBefore(c, 1) = {}
  <2>1. DOMAIN Objects[c] = 1 .. Len(Objects[c]) /\ Len(Objects[c]) \in Nat
    BY ObjectDomain
  <2>2. {j \in DOMAIN Objects[c] : j < 1} = {}
    BY <2>1
  <2> QED BY <2>2 DEF KeysBefore
<1>4. KeysBefore(c, at[c])' = {}
  BY <1>1, <1>3 DEF KeysBefore, KeysOf
<1>5. IsFiniteSet({}) /\ Cardinality({}) = 0
  BY FS_EmptySet
<1> QED BY <1>1, <1>2, <1>4, <1>5 DEF Counted

\* A command that only goes elsewhere has the same behind it.
LEMMA CountStays ==
  ASSUME NEW d \in Commands, Counted(d), at'[d] = at[d], report'[d] = report[d],
         pc'[d] \in {"stat", "put", "done"} => pc[d] \in {"stat", "put", "done"}
  PROVE  Counted(d)'
<1>1. KeysBefore(d, at[d])' = KeysBefore(d, at[d])
  BY DEF KeysBefore, KeysOf
<1> QED BY <1>1 DEF Counted

\* Every step counts right.
LEMMA CountStep ==
  ASSUME TypeInv, NEW c \in Commands, Step(c), NEW d \in Commands, Counted(d)
  PROVE  Counted(d)'
<1>1. CASE d # c
  <2>1. /\ pc'[d] = pc[d] /\ at'[d] = at[d] /\ report'[d] = report[d]
    BY <1>1 DEF Step, Start, StatAbsent, StatSame, Refuse, Put, Dies, NextObject, Goto, TypeInv
  <2> QED BY <2>1, CountStays
<1>2. CASE d = c
  <2>1. CASE Start(c)
    BY <1>2, <2>1, CountStart
  <2>2. CASE StatSame(c)
    <3>1. NextObject(c, 0) /\ Running(c)
      BY <2>2 DEF StatSame, Running
    <3> QED BY <1>2, <3>1, CountNext
  <2>3. CASE Put(c)
    <3>1. NextObject(c, 1) /\ Running(c)
      BY <2>3 DEF Put, Running
    <3> QED BY <1>2, <3>1, CountNext
  <2>4. CASE StatAbsent(c) \/ Refuse(c) \/ Dies(c)
    <3>1. at' = at /\ report' = report /\ pc[c] \in {"stat", "put"}
      BY <2>4 DEF StatAbsent, Refuse, Dies
    <3> QED BY <1>2, <3>1, CountStays
  <2> QED BY <2>1, <2>2, <2>3, <2>4 DEF Step
<1> QED BY <1>1, <1>2

\* The commands of the generator are those of Landing.
LEMMA LandingIsRun == GeneratorSpec => Spec
<1>1. GeneratorInit => Init
  BY DEF GeneratorInit
<1>2. [GeneratorNext]_allVars => [Next]_vars
  <2> SUFFICES ASSUME [GeneratorNext]_allVars PROVE [Next]_vars
    OBVIOUS
  <2>1. CASE BatchStep
    BY <2>1 DEF BatchStep, Next
  <2>2. CASE StreamStep
    BY <2>2 DEF StreamStep
  <2>3. CASE UNCHANGED allVars
    BY <2>3 DEF allVars, vars
  <2> QED BY <2>1, <2>2, <2>3 DEF GeneratorNext
<1> QED BY <1>1, <1>2, PTL DEF GeneratorSpec, Spec

\* The reports are right, and a command that was not accepted never starts.
CountInv ==
  \A c \in Commands : Counted(c) /\ (pc[c] # "new" => Accepted(Requested[c]))

\* They are at every step.
LEMMA CountsAreKept == ConflictsApart => (GeneratorSpec => [](IInv /\ CountInv))
<1> SUFFICES ASSUME ConflictsApart PROVE GeneratorSpec => [](IInv /\ CountInv)
  OBVIOUS
<1>1. GeneratorSpec => []IInv
  BY LandingIsRun, Bucket, PTL
<1>2. GeneratorInit => CountInv
  BY DEF GeneratorInit, Init, CountInv, Counted
<1>3. CountInv /\ IInv /\ [GeneratorNext]_allVars => CountInv'
  <2> SUFFICES ASSUME CountInv, IInv, [GeneratorNext]_allVars, NEW d \in Commands
               PROVE  Counted(d)' /\ (pc'[d] # "new" => Accepted(Requested[d]))
    BY DEF CountInv
  <2>1. CASE BatchStep
    <3>1. PICK c \in Commands : Accepted(Requested[c]) /\ Step(c)
      BY <2>1 DEF BatchStep
    <3>2. Counted(d)'
      BY <3>1, CountStep DEF CountInv, IInv
    <3>3. pc'[d] # "new" => Accepted(Requested[d])
      <4>1. d # c => pc'[d] = pc[d]
        BY <3>1 DEF IInv, TypeInv, Step, Start, StatAbsent, StatSame, Refuse, Put, Dies, NextObject, Goto
      <4> QED BY <3>1, <4>1 DEF CountInv
    <3> QED BY <3>2, <3>3
  <2>2. CASE StreamStep \/ UNCHANGED allVars
    <3>1. pc' = pc /\ at' = at /\ report' = report
      BY <2>2 DEF StreamStep, allVars, vars
    <3>2. Counted(d)'
      BY <3>1, CountStays DEF CountInv
    <3> QED BY <3>1, <3>2 DEF CountInv
  <2> QED BY <2>1, <2>2 DEF GeneratorNext
<1> QED BY <1>1, <1>2, <1>3, PTL DEF GeneratorSpec

\* What is in the bucket under the names of a command that ended well.
LEMMA RowsWhenDone ==
  ASSUME IInv, NEW c \in Commands, pc[c] = "done"
  PROVE  RowsOf(c) = UNION {Range(Objects[c][i].bytes) : i \in DOMAIN Objects[c]}
<1>1. ASSUME NEW i \in DOMAIN Objects[c] PROVE store[Objects[c][i].name] = Objects[c][i].bytes
  <2>1. at[c] > Len(Objects[c]) /\ at[c] \in Nat /\ Behind(c)
    BY DEF IInv, TypeInv
  <2>2. i < at[c]
    BY <2>1, ObjectDomain
  <2> QED BY <2>1, <2>2 DEF Behind
<1> QED BY <1>1 DEF RowsOf

\* The summary of a batch tells how many different rows its objects have in the bucket,
\* although it counts one object at a time, and that of a stream the different valid
\* events: no key is in two objects of a command.
THEOREM SummariesAreTrue == ConflictsApart => (GeneratorSpec => []SummaryIsTrue)
<1> SUFFICES ASSUME ConflictsApart PROVE GeneratorSpec => []SummaryIsTrue
  OBVIOUS
<1>1. IInv /\ CountInv /\ StreamInv => SummaryIsTrue
  <2> SUFFICES ASSUME IInv, CountInv, StreamInv PROVE SummaryIsTrue
    OBVIOUS
  <2>1. ASSUME NEW c \in Commands, pc[c] = "done"
        PROVE  /\ report[c].files = Len(Objects[c]) /\ report[c].uploaded <= report[c].files
               /\ report[c].rows - report[c].duplicates = Cardinality({r.key : r \in RowsOf(c)})
    <3>1. at[c] = Len(Objects[c]) + 1 /\ Len(Objects[c]) \in Nat /\ DOMAIN Objects[c] = 1 .. Len(Objects[c])
      <4>1. at[c] \in Nat /\ at[c] <= Len(Objects[c]) + 1 /\ at[c] > Len(Objects[c])
        BY <2>1 DEF IInv, TypeInv
      <4> QED BY <4>1, ObjectDomain
    <3>2. /\ report[c].files = at[c] - 1 /\ report[c].uploaded <= at[c] - 1
          /\ report[c].rows - report[c].duplicates = Cardinality(KeysBefore(c, at[c]))
      BY <2>1 DEF CountInv, Counted
    <3>3. KeysBefore(c, at[c]) = UNION {KeysOf(c, i) : i \in DOMAIN Objects[c]}
      <4>1. {j \in DOMAIN Objects[c] : j < at[c]} = DOMAIN Objects[c]
        BY <3>1
      <4> QED BY <4>1 DEF KeysBefore
    <3>4. {r.key : r \in RowsOf(c)} = UNION {KeysOf(c, i) : i \in DOMAIN Objects[c]}
      BY <2>1, RowsWhenDone DEF KeysOf
    <3>5. report[c].rows - report[c].duplicates = Cardinality({r.key : r \in RowsOf(c)})
      BY <3>2, <3>3, <3>4
    <3>6. PICK n, f, u : /\ n \in Nat /\ n = Len(Objects[c]) /\ f = report[c].files /\ u = report[c].uploaded
                         /\ at[c] = n + 1 /\ f = at[c] - 1 /\ u <= at[c] - 1
      BY <3>1, <3>2
    <3>7. f = n /\ u <= f
      BY <3>6
    <3> QED BY <3>5, <3>6, <3>7
  <2>2. Stream!SummaryIsTrue
    BY StreamSummary
  <2> QED BY <2>1, <2>2 DEF SummaryIsTrue
<1> QED BY <1>1, CountsAreKept, StreamKeepsPlan, PTL

-----------------------------------------------------------------------------
(* What a bootstrap leaves in the bucket *)

\* A set whose members are numbered from 0 on has as many.
LEMMA Numbered ==
  ASSUME NEW S, NEW n \in Nat, NEW f \in [S -> 0 .. n - 1],
         \A x, y \in S : f[x] = f[y] => x = y,
         \A i \in 0 .. n - 1 : \E x \in S : f[x] = i
  PROVE  Cardinality(S) = n
<1>1. IsFiniteSet(0 .. n - 1) /\ Cardinality(0 .. n - 1) = n
  <2>1. /\ IsFiniteSet(0 .. n - 1)
        /\ Cardinality(0 .. n - 1) = IF 0 > n - 1 THEN 0 ELSE n - 1 - 0 + 1
    BY FS_Interval
  <2> QED BY <2>1
<1>2. f \in Injection(S, 0 .. n - 1) /\ f \in Surjection(S, 0 .. n - 1)
  BY DEF Injection, IsInjective, Surjection
<1> QED BY <1>1, <1>2, FS_Injection

\* The events of the history.
History == UNION {{Playback(d, p) : p \in 0 .. DayCount(d) - 1} : d \in Days}

\* They are what a bootstrap that ended well has in the bucket.
LEMMA HistoryIsStored ==
  ASSUME IInv, NEW c \in Commands, pc[c] = "done", Requested[c].mode = "bootstrap"
  PROVE  RowsOf(c) = History
<1>1. Source(c) = BootstrapObjects
  BY DEF Source
<1>2. RowsOf(c) = UNION {Range(BootstrapObjects[i].records) : i \in DOMAIN BootstrapObjects}
  BY <1>1, RowsWhenDone, ObjectIs
<1>3. PICK o : /\ \A i \in DOMAIN BootstrapObjects : \E d \in Days : \E k \in 0 .. Files(DayCount(d)) - 1 :
                    BootstrapObjects[i] = PlaybackFile(d, k) /\ i = o[d] + k + 1
               /\ \A d \in Days : \A k \in 0 .. Files(DayCount(d)) - 1 :
                    \E i \in DOMAIN BootstrapObjects : BootstrapObjects[i] = PlaybackFile(d, k)
  BY BootstrapFiles
<1>4. ASSUME NEW r \in RowsOf(c) PROVE r \in History
  <2>1. PICK i \in DOMAIN BootstrapObjects : r \in Range(BootstrapObjects[i].records)
    BY <1>2
  <2>2. PICK d \in Days : \E k \in 0 .. Files(DayCount(d)) - 1 : BootstrapObjects[i] = PlaybackFile(d, k)
    BY <1>3
  <2>3. PICK k \in 0 .. Files(DayCount(d)) - 1 : BootstrapObjects[i] = PlaybackFile(d, k)
    BY <2>2
  <2>4. r \in Slice(d, k)
    BY <2>1, <2>3, PlaybackRows DEF RowsAre
  <2>5. PICK p \in k * RowsPerFile .. k * RowsPerFile + Size(DayCount(d), k) - 1 : r = Playback(d, p)
    BY <2>4 DEF Slice
  <2>6. p \in 0 .. DayCount(d) - 1
    BY SliceOfDay
  <2> QED BY <2>5, <2>6 DEF History
<1>5. ASSUME NEW d \in Days, NEW p \in 0 .. DayCount(d) - 1 PROVE Playback(d, p) \in RowsOf(c)
  <2>1. PICK k \in 0 .. Files(DayCount(d)) - 1 : p - k * RowsPerFile \in 0 .. Size(DayCount(d), k) - 1
    BY DaySteps, FilesShare
  <2>2. p \in k * RowsPerFile .. k * RowsPerFile + Size(DayCount(d), k) - 1
    <3>1. PICK b, z, n : /\ b = k * RowsPerFile /\ z = Size(DayCount(d), k) /\ n = DayCount(d)
                         /\ b \in Nat /\ z \in Nat /\ n \in Nat
      BY DaySteps, FilesShare, BatchNumbers
    <3> QED BY <2>1, <3>1
  <2>3. Playback(d, p) \in Range(PlaybackFile(d, k).records)
    BY <2>2, PlaybackRows DEF RowsAre, Slice
  <2>4. PICK i \in DOMAIN BootstrapObjects : BootstrapObjects[i] = PlaybackFile(d, k)
    BY <1>3
  <2> QED BY <1>2, <2>3, <2>4
<1> QED BY <1>4, <1>5 DEF History

\* A position of a day is a phase of one of its sessions.
LEMMA SessionNumbers ==
  ASSUME NEW d \in Days, NEW p \in 0 .. DayCount(d) - 1
  PROVE  \E q, f, n, s :
           /\ q = p \div 3 /\ f = p % 3 /\ n = DayCount(d) /\ s = FirstSession(d) + q
           /\ q \in Nat /\ f \in 0 .. 2 /\ n \in Nat /\ p = 3 * q + f
           /\ q < Sessions(n) /\ s \in 0 .. BaseCount - 1
<1>1. PICK q, f, n, t : /\ q = p \div 3 /\ f = p % 3 /\ n = DayCount(d) /\ t = Sessions(n)
  OBVIOUS
<1>2. n \in Nat /\ t \in Nat /\ t = (n + 2) \div 3 /\ p \in Nat /\ p < n
  BY <1>1, DaySteps DEF Sessions
<1>3. q \in Nat /\ f \in 0 .. 2 /\ p = 3 * q + f
  BY <1>1, <1>2
<1>4. q < t
  BY <1>2, <1>3
<1>5. PICK s, e : s = FirstSession(d) /\ e = FirstSession(HistoryDays)
  OBVIOUS
<1>6. s \in Nat /\ e \in Nat /\ e <= BaseCount /\ s + t <= e
  <2>1. HistoryDays \in 0 .. HistoryDays /\ d \in 0 .. HistoryDays /\ d < HistoryDays
    BY BatchNumbers DEF Days
  <2> QED BY <1>1, <1>5, <2>1, DayNumbers, DaysFollow, AllEvents
<1>7. s + q \in 0 .. BaseCount - 1
  BY <1>2, <1>3, <1>4, <1>6, BatchNumbers
<1> QED BY <1>1, <1>2, <1>3, <1>4, <1>5, <1>7

\* A session number is that of one session of one day.
LEMMA OneSession ==
  ASSUME NEW d \in Days, NEW e \in Days, NEW p \in 0 .. DayCount(d) - 1, NEW r \in 0 .. DayCount(e) - 1,
         FirstSession(d) + p \div 3 = FirstSession(e) + r \div 3
  PROVE  d = e /\ p \div 3 = r \div 3
<1>1. /\ d \in 0 .. HistoryDays /\ e \in 0 .. HistoryDays /\ d \in Nat /\ e \in Nat
  BY BatchNumbers DEF Days
<1>2. PICK a, b : a = p \div 3 /\ b = r \div 3
  OBVIOUS
<1>3. /\ a \in Nat /\ a < Sessions(DayCount(d)) /\ b \in Nat /\ b < Sessions(DayCount(e))
  BY <1>2, SessionNumbers
<1>4. /\ FirstSession(d) \in Nat /\ FirstSession(e) \in Nat
      /\ Sessions(DayCount(d)) \in Nat /\ Sessions(DayCount(e)) \in Nat
  BY <1>1, DayNumbers, DaySteps
<1>5. d < e => FirstSession(d) + Sessions(DayCount(d)) <= FirstSession(e)
  BY <1>1, DaysFollow
<1>6. e < d => FirstSession(e) + Sessions(DayCount(e)) <= FirstSession(d)
  BY <1>1, DaysFollow
<1>7. FirstSession(d) + a = FirstSession(e) + b
  BY <1>2
<1>8. d = e
  BY <1>1, <1>3, <1>4, <1>5, <1>6, <1>7
<1> QED BY <1>2, <1>3, <1>4, <1>7, <1>8

\* A number drawn for a session is below its bound.
LEMMA DrawnBelow ==
  ASSUME NEW s \in 0 .. BaseCount - 1, NEW m \in Nat, NEW salt,
         <<m, salt>> \in {<<72000, 23>>, <<1200, 29>>, <<3600, 31>>, <<3201, 37>>}
  PROVE  Draw(s, m, salt) \in Nat /\ Draw(s, m, salt) < m
<1> DEFINE drawn == {<<72000, 23>>, <<1200, 29>>, <<3600, 31>>, <<3201, 37>>}
<1>1. \A b \in drawn : Draw(s, b[1], b[2]) \in 0 .. b[1] - 1
  BY DrawAssumption
<1>2. <<m, salt>> \in drawn
  OBVIOUS
<1> HIDE DEF drawn
<1>3. PICK b \in drawn : b = <<m, salt>>
  BY <1>2
<1>4. b[1] = m /\ b[2] = salt
  BY <1>3
<1>5. Draw(s, b[1], b[2]) \in 0 .. b[1] - 1
  BY <1>1
<1>6. Draw(s, m, salt) \in 0 .. m - 1
  BY <1>4, <1>5
<1> QED BY <1>6

\* The phases of a session are in order, and soon over.
LEMMA PhaseTimes ==
  ASSUME NEW s \in 0 .. BaseCount - 1
  PROVE  /\ \A f \in 0 .. 2 : Offset(s, f) \in Nat /\ Offset(s, f) < 5159
         /\ \A f, g \in 0 .. 2 : f < g => /\ Offset(s, f) < Offset(s, g)
                                          /\ WatchSeconds(s, f) <= WatchSeconds(s, g)
<1>1. PICK x, y, z : x = Draw(s, 1200, 29) /\ y = Draw(s, 3600, 31) /\ z = Draw(s, 3201, 37)
  OBVIOUS
<1>2. x \in Nat /\ x < 1200 /\ y \in Nat /\ y < 3600 /\ z \in Nat /\ z < 3201
  <2>1. Draw(s, 1200, 29) \in Nat /\ Draw(s, 1200, 29) < 1200
    BY DrawnBelow
  <2>2. Draw(s, 3600, 31) \in Nat /\ Draw(s, 3600, 31) < 3600
    BY DrawnBelow
  <2>3. Draw(s, 3201, 37) \in Nat /\ Draw(s, 3201, 37) < 3201
    BY DrawnBelow
  <2> QED BY <1>1, <2>1, <2>2, <2>3
<1>3. Offset(s, 0) = 0 /\ Offset(s, 1) = 60 + x /\ Offset(s, 2) = 60 + x + 300 + y
  BY <1>1 DEF Offset
<1>4. WatchSeconds(s, 0) = 0 /\ WatchSeconds(s, 1) = 60 + x /\ WatchSeconds(s, 2) = 4800 + z
  <2>1. 60 + x < 4800 + z
    BY <1>2
  <2> QED BY <1>1, <1>3, <2>1 DEF WatchSeconds
<1>5. \A f \in 0 .. 2 : f = 0 \/ f = 1 \/ f = 2
  OBVIOUS
<1>6. PICK a, b, c, u, v, w :
        /\ a = Offset(s, 0) /\ b = Offset(s, 1) /\ c = Offset(s, 2)
        /\ u = WatchSeconds(s, 0) /\ v = WatchSeconds(s, 1) /\ w = WatchSeconds(s, 2)
        /\ a \in Nat /\ b \in Nat /\ c \in Nat /\ c < 5159 /\ a < b /\ b < c /\ a < c
        /\ u <= v /\ v <= w /\ u <= w
  <2>1. PICK a, b, c, u, v, w :
          /\ a = Offset(s, 0) /\ b = Offset(s, 1) /\ c = Offset(s, 2)
          /\ u = WatchSeconds(s, 0) /\ v = WatchSeconds(s, 1) /\ w = WatchSeconds(s, 2)
    OBVIOUS
  <2>2. /\ a = 0 /\ b = 60 + x /\ c = 60 + x + 300 + y
        /\ u = 0 /\ v = 60 + x /\ w = 4800 + z
    BY <1>3, <1>4, <2>1
  <2>3. /\ a \in Nat /\ b \in Nat /\ c \in Nat /\ c < 5159 /\ a < b /\ b < c /\ a < c
        /\ u <= v /\ v <= w /\ u <= w
    <3>1. x \in Nat /\ y \in Nat /\ z \in Nat /\ x <= 1199 /\ y <= 3599 /\ z <= 3200
      BY <1>2
    <3>2. a \in Nat /\ b \in Nat /\ c \in Nat /\ c < 5159
      BY <2>2, <3>1
    <3>3. a < b /\ b < c /\ a < c
      BY <2>2, <3>1
    <3>4. u <= v /\ v <= w /\ u <= w
      BY <2>2, <3>1
    <3> QED BY <3>2, <3>3, <3>4
  <2> QED BY <2>1, <2>3
<1>7. \A f \in 0 .. 2 : Offset(s, f) \in Nat /\ Offset(s, f) < 5159
  BY <1>5, <1>6
<1>8. ASSUME NEW f \in 0 .. 2, NEW g \in 0 .. 2, f < g
      PROVE  Offset(s, f) < Offset(s, g) /\ WatchSeconds(s, f) <= WatchSeconds(s, g)
  <2>1. (f = 0 /\ g = 1) \/ (f = 0 /\ g = 2) \/ (f = 1 /\ g = 2)
    BY <1>8
  <2> QED BY <1>6, <2>1
<1> QED BY <1>7, <1>8

\* An event is within its day, and all days are before the cutover.
LEMMA TimeInDay ==
  ASSUME NEW d \in Days, NEW x \in Nat, x < 72000, NEW y \in Nat, y < 5159
  PROVE  /\ (d * DaySeconds + x + y) \div DaySeconds = d
         /\ d * DaySeconds + x + y < Cutover
<1>1. HistoryDays \in Nat /\ d \in Nat /\ d + 1 <= HistoryDays
  BY BatchNumbers DEF Days
<1>2. PICK t \in Nat : t = d * 86400 + x + y
  BY <1>1
<1>3. d * 86400 <= t /\ t < d * 86400 + 86400
  BY <1>1, <1>2
<1>4. t \div 86400 = d
  BY <1>1, <1>3
<1>5. t < HistoryDays * 86400
  BY <1>1, <1>3
<1> QED BY <1>2, <1>4, <1>5 DEF DaySeconds, Cutover

\* The row at a position of a day.
LEMMA RowIs ==
  ASSUME NEW d \in Days, NEW p \in 0 .. DayCount(d) - 1
  PROVE  \E s, f :
           /\ s = FirstSession(d) + p \div 3 /\ s \in 0 .. BaseCount - 1
           /\ f = p % 3 /\ f \in 0 .. 2
           /\ Playback(d, p).key = <<"event", FirstEvent(d) + p>>
           /\ Playback(d, p).session = s /\ Playback(d, p).phase = f
           /\ Playback(d, p).watch = WatchSeconds(s, f)
           /\ Playback(d, p).time = d * DaySeconds + Draw(s, 72000, 23) + Offset(s, f)
<1>1. PICK q, f, n, s :
        /\ q = p \div 3 /\ f = p % 3 /\ n = DayCount(d) /\ s = FirstSession(d) + q
        /\ q \in Nat /\ f \in 0 .. 2 /\ n \in Nat /\ p = 3 * q + f
        /\ q < Sessions(n) /\ s \in 0 .. BaseCount - 1
  BY SessionNumbers
<1>2. /\ Playback(d, p).key = <<"event", FirstEvent(d) + p>>
      /\ Playback(d, p).session = FirstSession(d) + p \div 3 /\ Playback(d, p).phase = p % 3
      /\ Playback(d, p).watch = WatchSeconds(FirstSession(d) + p \div 3, p % 3)
      /\ Playback(d, p).time = d * DaySeconds + Draw(FirstSession(d) + p \div 3, 72000, 23)
                               + Offset(FirstSession(d) + p \div 3, p % 3)
  BY DEF Playback, FirstEvent, FirstSession
<1>3. s = FirstSession(d) + p \div 3
  BY <1>1
<1> QED BY <1>1, <1>2, <1>3

\* The rows of a session are those at three positions of its day, or less.
LEMMA RowsOfSession ==
  ASSUME NEW d \in Days, NEW p \in 0 .. DayCount(d) - 1
  PROVE  \A o \in History : o.session = Playback(d, p).session =>
           \E x \in 0 .. DayCount(d) - 1 : o = Playback(d, x) /\ x \div 3 = p \div 3
<1> SUFFICES ASSUME NEW o \in History, o.session = Playback(d, p).session
             PROVE  \E x \in 0 .. DayCount(d) - 1 : o = Playback(d, x) /\ x \div 3 = p \div 3
  OBVIOUS
<1>1. PICK e \in Days : \E x \in 0 .. DayCount(e) - 1 : o = Playback(e, x)
  BY DEF History
<1>2. PICK x \in 0 .. DayCount(e) - 1 : o = Playback(e, x)
  BY <1>1
<1>3. o.session = FirstSession(e) + x \div 3
  BY <1>2, RowIs
<1>4. Playback(d, p).session = FirstSession(d) + p \div 3
  BY RowIs
<1>5. FirstSession(e) + x \div 3 = FirstSession(d) + p \div 3
  BY <1>3, <1>4
<1>6. e = d /\ x \div 3 = p \div 3
  BY <1>5, OneSession
<1> QED BY <1>2, <1>6

\* A session has its first events in order.
LEMMA SessionIsWhole ==
  ASSUME NEW d \in Days, NEW p \in 0 .. DayCount(d) - 1
  PROVE  LET Of == {o \in History : o.session = Playback(d, p).session}
         IN  {o.phase : o \in Of} = 0 .. Cardinality(Of) - 1
<1> DEFINE Of == {o \in History : o.session = Playback(d, p).session}
           phases == [o \in Of |-> o.phase]
<1>1. PICK q, f, n, s :
        /\ q = p \div 3 /\ f = p % 3 /\ n = DayCount(d) /\ s = FirstSession(d) + q
        /\ q \in Nat /\ f \in 0 .. 2 /\ n \in Nat /\ p = 3 * q + f
        /\ q < Sessions(n) /\ s \in 0 .. BaseCount - 1
  BY SessionNumbers
<1>2. PICK m \in Nat : /\ m >= 1 /\ m <= 3 /\ 3 * q + m <= n
                       /\ \A x \in 0 .. n - 1 : x \div 3 = q <=> x - 3 * q \in 0 .. m - 1
  <2>1. p \in Nat /\ p < n
    BY <1>1
  <2>2. PICK m : m = IF n - 3 * q < 3 THEN n - 3 * q ELSE 3
    OBVIOUS
  <2>3. m \in Nat /\ m >= 1 /\ m <= 3 /\ 3 * q + m <= n
    BY <1>1, <2>1, <2>2
  <2>4. ASSUME NEW x \in 0 .. n - 1 PROVE x \div 3 = q <=> x - 3 * q \in 0 .. m - 1
    BY <1>1, <2>2
  <2> QED BY <2>3, <2>4
<1>3. ASSUME NEW j \in 0 .. m - 1
      PROVE  Playback(d, 3 * q + j) \in Of /\ Playback(d, 3 * q + j).phase = j
  <2>1. PICK x : x = 3 * q + j /\ x \in 0 .. n - 1 /\ x - 3 * q \in 0 .. m - 1 /\ x % 3 = j
    BY <1>1, <1>2
  <2>2. x \div 3 = q /\ x \in 0 .. DayCount(d) - 1
    BY <1>1, <1>2, <2>1
  <2>3. Playback(d, x).session = FirstSession(d) + q /\ Playback(d, x).phase = j
    <3>1. Playback(d, x).session = FirstSession(d) + x \div 3 /\ Playback(d, x).phase = x % 3
      BY <2>2, RowIs
    <3> QED BY <2>1, <2>2, <3>1
  <2>4. Playback(d, p).session = FirstSession(d) + q
    BY <1>1, RowIs
  <2>5. Playback(d, x) \in History
    BY <2>2 DEF History
  <2> QED BY <2>1, <2>3, <2>4, <2>5
<1>4. ASSUME NEW o \in Of PROVE \E j \in 0 .. m - 1 : o = Playback(d, 3 * q + j) /\ o.phase = j
  <2>1. PICK x \in 0 .. DayCount(d) - 1 : o = Playback(d, x) /\ x \div 3 = p \div 3
    BY RowsOfSession
  <2>2. PICK j : j = x - 3 * q /\ j \in 0 .. m - 1 /\ x = 3 * q + j
    BY <1>1, <1>2, <2>1
  <2> QED BY <1>3, <2>1, <2>2
<1>5. phases \in [Of -> 0 .. m - 1]
  BY <1>4
<1>6. \A x, y \in Of : phases[x] = phases[y] => x = y
  BY <1>4
<1>7. \A i \in 0 .. m - 1 : \E x \in Of : phases[x] = i
  <2> SUFFICES ASSUME NEW i \in 0 .. m - 1 PROVE \E x \in Of : phases[x] = i
    OBVIOUS
  <2>1. PICK x \in Of : x.phase = i
    BY <1>3
  <2> QED BY <2>1
<1>8. {o.phase : o \in Of} = 0 .. m - 1
  <2>1. \A o \in Of : o.phase \in 0 .. m - 1
    BY <1>4
  <2>2. \A i \in 0 .. m - 1 : \E o \in Of : o.phase = i
    BY <1>3
  <2> QED BY <2>1, <2>2
<1> HIDE DEF phases, Of
<1>9. Cardinality(Of) = m
  BY <1>5, <1>6, <1>7, Numbered
<1>10. {o.phase : o \in Of} = 0 .. Cardinality(Of) - 1
  BY <1>8, <1>9
<1> QED BY <1>10 DEF Of

\* The events of the history are numbered through.
LEMMA HistoryKeys ==
  /\ {r.key : r \in History} = {<<"event", i>> : i \in 0 .. BaseCount - 1}
  /\ Cardinality(History) = BaseCount
<1>1. BaseCount \in Nat
  BY BatchNumbers
<1>2. ASSUME NEW d \in Days, NEW p \in 0 .. DayCount(d) - 1
      PROVE  /\ FirstEvent(d) + p \in 0 .. BaseCount - 1
             /\ Playback(d, p).key = <<"event", FirstEvent(d) + p>>
             /\ Playback(d, p).key[2] = FirstEvent(d) + p
  <2>1. HistoryDays \in 0 .. HistoryDays /\ d \in 0 .. HistoryDays /\ d < HistoryDays
    BY BatchNumbers DEF Days
  <2>2. FirstEvent(d) \in Nat /\ DayCount(d) \in Nat /\ FirstEvent(d) + DayCount(d) <= BaseCount
    BY <2>1, DayNumbers, DaySteps, DaysFollow, AllEvents
  <2>3. FirstEvent(d) + p \in 0 .. BaseCount - 1
    BY <1>1, <2>2
  <2>4. Playback(d, p).key = <<"event", FirstEvent(d) + p>>
    BY RowIs
  <2> QED BY <2>3, <2>4
<1>3. ASSUME NEW i \in 0 .. BaseCount - 1
      PROVE  \E r \in History : r.key = <<"event", i>> /\ r.key[2] = i
  <2>1. PICK d \in Days : i - FirstEvent(d) \in 0 .. DayCount(d) - 1
    BY DayOfEvent
  <2>2. PICK p : p = i - FirstEvent(d) /\ p \in 0 .. DayCount(d) - 1
    BY <2>1
  <2>3. FirstEvent(d) + p = i
    <3>1. FirstEvent(d) \in Nat
      BY BatchNumbers, DayNumbers DEF Days
    <3> QED BY <2>2, <3>1
  <2>4. Playback(d, p).key = <<"event", i>> /\ Playback(d, p).key[2] = i
    BY <1>2, <2>2, <2>3
  <2>5. Playback(d, p) \in History
    BY <2>2 DEF History
  <2> QED BY <2>4, <2>5
<1>4. ASSUME NEW r \in History
      PROVE  \E i \in 0 .. BaseCount - 1 : r.key = <<"event", i>> /\ r.key[2] = i
  <2>1. PICK d \in Days : \E p \in 0 .. DayCount(d) - 1 : r = Playback(d, p)
    BY DEF History
  <2>2. PICK p \in 0 .. DayCount(d) - 1 : r = Playback(d, p)
    BY <2>1
  <2> QED BY <1>2, <2>2
<1>5. ASSUME NEW r \in History, NEW o \in History, r.key[2] = o.key[2] PROVE r = o
  <2>1. PICK d \in Days : \E p \in 0 .. DayCount(d) - 1 : r = Playback(d, p)
    BY DEF History
  <2>2. PICK p \in 0 .. DayCount(d) - 1 : r = Playback(d, p)
    BY <2>1
  <2>3. PICK e \in Days : \E x \in 0 .. DayCount(e) - 1 : o = Playback(e, x)
    BY DEF History
  <2>4. PICK x \in 0 .. DayCount(e) - 1 : o = Playback(e, x)
    BY <2>3
  <2>5. FirstEvent(d) + p = FirstEvent(e) + x
    BY <1>2, <1>5, <2>2, <2>4
  <2> QED BY <2>2, <2>4, <2>5, OneEvent
<1>6. {r.key : r \in History} = {<<"event", i>> : i \in 0 .. BaseCount - 1}
  BY <1>3, <1>4
<1> DEFINE numbers == [r \in History |-> r.key[2]]
<1>7. numbers \in [History -> 0 .. BaseCount - 1]
  BY <1>4
<1>8. \A x, y \in History : numbers[x] = numbers[y] => x = y
  BY <1>5
<1>9. \A i \in 0 .. BaseCount - 1 : \E x \in History : numbers[x] = i
  <2> SUFFICES ASSUME NEW i \in 0 .. BaseCount - 1 PROVE \E x \in History : numbers[x] = i
    OBVIOUS
  <2>1. PICK x \in History : x.key[2] = i
    BY <1>3
  <2> QED BY <2>1
<1> HIDE DEF numbers
<1>10. Cardinality(History) = BaseCount
  BY <1>1, <1>7, <1>8, <1>9, Numbered
<1> QED BY <1>6, <1>10

\* A later event of a session is later in the day, and has seen no less.
LEMMA SessionInOrder ==
  ASSUME NEW d \in Days, NEW p \in 0 .. DayCount(d) - 1, NEW x \in 0 .. DayCount(d) - 1,
         x \div 3 = p \div 3
  PROVE  LET r == Playback(d, p)
             o == Playback(d, x)
         IN  /\ r.time < Cutover /\ r.time \div DaySeconds = d
             /\ o.phase < r.phase => o.time < r.time /\ o.watch <= r.watch
<1>1. PICK s, f :
        /\ s = FirstSession(d) + p \div 3 /\ s \in 0 .. BaseCount - 1
        /\ f = p % 3 /\ f \in 0 .. 2
        /\ Playback(d, p).phase = f /\ Playback(d, p).watch = WatchSeconds(s, f)
        /\ Playback(d, p).time = d * DaySeconds + Draw(s, 72000, 23) + Offset(s, f)
  BY RowIs
<1>2. PICK u, g :
        /\ u = FirstSession(d) + x \div 3
        /\ g = x % 3 /\ g \in 0 .. 2
        /\ Playback(d, x).phase = g /\ Playback(d, x).watch = WatchSeconds(u, g)
        /\ Playback(d, x).time = d * DaySeconds + Draw(u, 72000, 23) + Offset(u, g)
  BY RowIs
<1>3. u = s
  BY <1>1, <1>2
<1>4. PICK b, v, w : /\ b = Draw(s, 72000, 23) /\ v = Offset(s, f) /\ w = Offset(s, g)
                     /\ b \in Nat /\ b < 72000 /\ v \in Nat /\ v < 5159 /\ w \in Nat /\ w < 5159
  BY <1>1, <1>2, DrawnBelow, PhaseTimes
<1>5. Playback(d, p).time < Cutover /\ Playback(d, p).time \div DaySeconds = d
  BY <1>1, <1>4, TimeInDay
<1>6. ASSUME g < f PROVE /\ Playback(d, x).time < Playback(d, p).time
                         /\ Playback(d, x).watch <= Playback(d, p).watch
  <2>1. w < v /\ WatchSeconds(s, g) <= WatchSeconds(s, f)
    BY <1>1, <1>2, <1>4, <1>6, PhaseTimes
  <2>2. PICK a \in Nat : a = d * DaySeconds
    BY BatchNumbers DEF Days, DaySeconds
  <2>3. Playback(d, x).time = a + b + w /\ Playback(d, p).time = a + b + v
    BY <1>1, <1>2, <1>3, <1>4, <2>2
  <2>4. a + b + w < a + b + v
    BY <1>4, <2>1, <2>2
  <2> QED BY <1>1, <1>2, <1>3, <2>1, <2>3, <2>4
<1> QED BY <1>1, <1>2, <1>5, <1>6

\* After a bootstrap that ended well, however often it was cut off and given again, the
\* bucket has the whole history: each event, and each session in order within its day.
THEOREM HistoriesAreWhole == ConflictsApart => (GeneratorSpec => []HistoryIsWhole)
<1> SUFFICES ASSUME ConflictsApart PROVE GeneratorSpec => []HistoryIsWhole
  OBVIOUS
<1>1. IInv => HistoryIsWhole
  <2> SUFFICES ASSUME IInv, NEW c \in Commands, pc[c] = "done", Requested[c].mode = "bootstrap"
               PROVE  LET rows  == RowsOf(c)
                          Of(r) == {o \in rows : o.session = r.session}
                      IN  /\ {r.key : r \in rows} = {<<"event", i>> : i \in 0 .. BaseCount - 1}
                          /\ Cardinality(rows) = BaseCount
                          /\ \A r \in rows :
                               /\ r.time < Cutover
                               /\ {o.phase : o \in Of(r)} = 0 .. Cardinality(Of(r)) - 1
                               /\ \A o \in Of(r) :
                                    /\ o.time \div DaySeconds = r.time \div DaySeconds
                                    /\ o.phase < r.phase => o.time < r.time /\ o.watch <= r.watch
    BY DEF HistoryIsWhole
  <2>1. RowsOf(c) = History
    BY HistoryIsStored
  <2>2. ASSUME NEW r \in History
        PROVE  /\ r.time < Cutover
               /\ {o.phase : o \in {o \in History : o.session = r.session}}
                    = 0 .. Cardinality({o \in History : o.session = r.session}) - 1
               /\ \A o \in {o \in History : o.session = r.session} :
                    /\ o.time \div DaySeconds = r.time \div DaySeconds
                    /\ o.phase < r.phase => o.time < r.time /\ o.watch <= r.watch
    <3>1. PICK d \in Days : \E p \in 0 .. DayCount(d) - 1 : r = Playback(d, p)
      BY DEF History
    <3>2. PICK p \in 0 .. DayCount(d) - 1 : r = Playback(d, p)
      BY <3>1
    <3>3. r.time < Cutover
      BY <3>2, SessionInOrder
    <3>4. {o.phase : o \in {o \in History : o.session = r.session}}
            = 0 .. Cardinality({o \in History : o.session = r.session}) - 1
      BY <3>2, SessionIsWhole
    <3>5. ASSUME NEW o \in History, o.session = r.session
          PROVE  /\ o.time \div DaySeconds = r.time \div DaySeconds
                 /\ o.phase < r.phase => o.time < r.time /\ o.watch <= r.watch
      <4>1. PICK x \in 0 .. DayCount(d) - 1 : o = Playback(d, x) /\ x \div 3 = p \div 3
        BY <3>2, <3>5, RowsOfSession
      <4>2. r.time \div DaySeconds = d /\ (o.phase < r.phase => o.time < r.time /\ o.watch <= r.watch)
        BY <3>2, <4>1, SessionInOrder
      <4>3. o.time \div DaySeconds = d
        BY <4>1, SessionInOrder
      <4> QED BY <4>2, <4>3
    <3> QED BY <3>3, <3>4, <3>5
  <2> QED BY <2>1, <2>2, HistoryKeys
<1> QED BY <1>1, CountsAreKept, PTL
=============================================================================
