------------------------ MODULE ResourceStates_proofs ------------------------
(* That the barriers of ResourceStates name the right states, and order    *)
(* the work in all stages, for any lists, resources, slices and targets.   *)
EXTENDS ResourceStates, FiniteSetTheorems, SequenceTheorems, TLAPS

LEMMA TargetFacts ==
  /\ \A t \in AllTargets : t.state \in States /\ t.stages \in SUBSET Stages
  /\ Undefined \in AllTargets /\ Targets \subseteq AllTargets
  BY TargetsAssumption DEF AllTargets, States

LEMMA CommandFacts ==
  /\ \A r \in Resources, ss \in SUBSET Slices, b \in AllTargets, a \in AllTargets :
       /\ Barrier(r, ss, b, a) \in Command
       /\ Barrier(r, ss, b, a).res = r /\ Barrier(r, ss, b, a).slices = ss
       /\ Barrier(r, ss, b, a).before = b /\ Barrier(r, ss, b, a).after = a
  /\ \A c \in Command :
       /\ c.res \in Resources /\ c.slices \in SUBSET Slices
       /\ c.before \in AllTargets /\ c.after \in AllTargets
  BY DEF Barrier, Command

-----------------------------------------------------------------------------
(* Sequences of commands.                                                  *)

LEMMA AppendFacts ==
  ASSUME NEW S, NEW cs \in Seq(S), NEW c \in S
  PROVE  /\ cs \o <<c>> \in Seq(S)
         /\ Len(cs \o <<c>>) = Len(cs) + 1 /\ Len(cs) \in Nat
         /\ \A i \in 1 .. Len(cs) : (cs \o <<c>>)[i] = cs[i]
         /\ (cs \o <<c>>)[Len(cs) + 1] = c
  OBVIOUS

\* A command list leaves a slice in one state.
LEMMA LeftByUnique ==
  ASSUME NEW cs, NEW n \in Nat, NEW r, NEW s, NEW from, NEW st, NEW ts,
         LeftBy(cs, n, r, s, from, st), LeftBy(cs, n, r, s, from, ts)
  PROVE  st = ts
<1>1. CASE \A i \in 1 .. n : ~Concerns(cs[i], r, s)
  BY <1>1 DEF LeftBy
<1>2. CASE \E i \in 1 .. n : Concerns(cs[i], r, s)
  <2>1. PICK i \in 1 .. n : /\ Concerns(cs[i], r, s) /\ cs[i].after.state = st
                            /\ \A j \in i + 1 .. n : ~Concerns(cs[j], r, s)
    BY <1>2 DEF LeftBy
  <2>2. PICK k \in 1 .. n : /\ Concerns(cs[k], r, s) /\ cs[k].after.state = ts
                            /\ \A j \in k + 1 .. n : ~Concerns(cs[j], r, s)
    BY <1>2 DEF LeftBy
  <2>3. ~(i < k) /\ ~(k < i)
    <3>1. i < k => k \in i + 1 .. n
      OBVIOUS
    <3>2. k < i => i \in k + 1 .. n
      OBVIOUS
    <3> QED
      BY <3>1, <3>2, <2>1, <2>2
  <2> QED
    BY <2>1, <2>2, <2>3
<1> QED
  BY <1>1, <1>2

\* Nothing is left by nothing but what was there.
LEMMA LeftByUntouched ==
  ASSUME NEW cs, NEW n \in Nat, NEW r, NEW s, NEW from,
         \A i \in 1 .. n : ~Concerns(cs[i], r, s)
  PROVE  LeftBy(cs, n, r, s, from, from)
  BY DEF LeftBy

\* One command more.
LEMMA LeftByStep ==
  ASSUME NEW cs, NEW n \in Nat, NEW r, NEW s, NEW from, NEW st,
         LeftBy(cs, n, r, s, from, st)
  PROVE  /\ ~Concerns(cs[n + 1], r, s) => LeftBy(cs, n + 1, r, s, from, st)
         /\ Concerns(cs[n + 1], r, s) =>
              LeftBy(cs, n + 1, r, s, from, cs[n + 1].after.state)
<1>1. \A i \in 1 .. n + 1 : i \in 1 .. n \/ i = n + 1
  OBVIOUS
<1>2. ASSUME ~Concerns(cs[n + 1], r, s)
      PROVE  LeftBy(cs, n + 1, r, s, from, st)
  <2>1. CASE st = from /\ \A i \in 1 .. n : ~Concerns(cs[i], r, s)
    BY <1>1, <1>2, <2>1 DEF LeftBy
  <2>2. CASE \E i \in 1 .. n : /\ Concerns(cs[i], r, s) /\ cs[i].after.state = st
                               /\ \A j \in i + 1 .. n : ~Concerns(cs[j], r, s)
    <3>1. PICK i \in 1 .. n : /\ Concerns(cs[i], r, s) /\ cs[i].after.state = st
                              /\ \A j \in i + 1 .. n : ~Concerns(cs[j], r, s)
      BY <2>2
    <3>2. \A j \in i + 1 .. n + 1 : ~Concerns(cs[j], r, s)
      <4>1. \A j \in i + 1 .. n + 1 : j \in i + 1 .. n \/ j = n + 1
        OBVIOUS
      <4> QED
        BY <3>1, <1>2, <4>1
    <3>3. i \in 1 .. n + 1
      OBVIOUS
    <3> QED
      BY <3>1, <3>2, <3>3 DEF LeftBy
  <2> QED
    BY <2>1, <2>2 DEF LeftBy
<1>3. ASSUME Concerns(cs[n + 1], r, s)
      PROVE  LeftBy(cs, n + 1, r, s, from, cs[n + 1].after.state)
  <2>1. n + 1 \in 1 .. n + 1 /\ (n + 1) + 1 .. n + 1 = {}
    OBVIOUS
  <2> QED
    BY <1>3, <2>1 DEF LeftBy
<1> QED
  BY <1>2, <1>3

\* What a prefix leaves does not depend on what comes after it.
LEMMA LeftByPrefix ==
  ASSUME NEW cs, NEW ds, NEW n \in Nat, NEW r, NEW s, NEW from, NEW st,
         \A i \in 1 .. n : ds[i] = cs[i]
  PROVE  LeftBy(cs, n, r, s, from, st) <=> LeftBy(ds, n, r, s, from, st)
<1>1. ASSUME NEW as, NEW bs, \A i \in 1 .. n : bs[i] = as[i], LeftBy(as, n, r, s, from, st)
      PROVE  LeftBy(bs, n, r, s, from, st)
  <2>1. CASE st = from /\ \A i \in 1 .. n : ~Concerns(as[i], r, s)
    BY <1>1, <2>1 DEF LeftBy
  <2>2. CASE \E i \in 1 .. n : /\ Concerns(as[i], r, s) /\ as[i].after.state = st
                               /\ \A j \in i + 1 .. n : ~Concerns(as[j], r, s)
    <3>1. PICK i \in 1 .. n : /\ Concerns(as[i], r, s) /\ as[i].after.state = st
                              /\ \A j \in i + 1 .. n : ~Concerns(as[j], r, s)
      BY <2>2
    <3>2. \A j \in i + 1 .. n : j \in 1 .. n
      OBVIOUS
    <3>3. \A j \in i + 1 .. n : ~Concerns(bs[j], r, s)
      BY <1>1, <3>1, <3>2
    <3> QED
      BY <1>1, <3>1, <3>3 DEF LeftBy
  <2> QED
    BY <1>1, <2>1, <2>2 DEF LeftBy
<1> QED
  BY <1>1

\* A command that names the state it finds can be appended.
LEMMA ChainStep ==
  ASSUME NEW cs \in Seq(Command), NEW c \in Command, NEW r, NEW s, NEW from, NEW st,
         Chained(cs, r, s, from), LeftBy(cs, Len(cs), r, s, from, st),
         Concerns(c, r, s) => c.before.state = st
  PROVE  /\ Chained(cs \o <<c>>, r, s, from)
         /\ ~Concerns(c, r, s) => LeftBy(cs \o <<c>>, Len(cs \o <<c>>), r, s, from, st)
         /\ Concerns(c, r, s) =>
              LeftBy(cs \o <<c>>, Len(cs \o <<c>>), r, s, from, c.after.state)
<1> DEFINE ds == cs \o <<c>>
<1>1. /\ Len(ds) = Len(cs) + 1 /\ Len(cs) \in Nat
      /\ \A i \in 1 .. Len(cs) : ds[i] = cs[i]
      /\ ds[Len(cs) + 1] = c
  BY AppendFacts
<1> HIDE DEF ds
<1>2. LeftBy(ds, Len(cs), r, s, from, st)
  BY <1>1, LeftByPrefix
<1>3. ASSUME NEW n \in 1 .. Len(ds), Concerns(ds[n], r, s)
      PROVE  LeftBy(ds, n - 1, r, s, from, ds[n].before.state)
  <2>1. CASE n = Len(cs) + 1
    BY <1>1, <1>2, <1>3, <2>1
  <2>2. CASE n \in 1 .. Len(cs)
    <3>1. ds[n] = cs[n] /\ n - 1 \in Nat /\ \A i \in 1 .. n - 1 : i \in 1 .. Len(cs)
      BY <1>1, <2>2
    <3>2. LeftBy(cs, n - 1, r, s, from, ds[n].before.state)
      BY <1>3, <2>2, <3>1 DEF Chained
    <3>3. \A i \in 1 .. n - 1 : ds[i] = cs[i]
      BY <1>1, <3>1
    <3> QED
      BY <3>1, <3>2, <3>3, LeftByPrefix
  <2> QED
    BY <1>1, <2>1, <2>2
<1>4. /\ ~Concerns(c, r, s) => LeftBy(ds, Len(ds), r, s, from, st)
      /\ Concerns(c, r, s) => LeftBy(ds, Len(ds), r, s, from, c.after.state)
  BY <1>1, <1>2, LeftByStep
<1> QED
  BY <1>3, <1>4 DEF Chained, ds

LEMMA AppendTwo ==
  ASSUME NEW S, NEW cs \in Seq(S), NEW b \in S, NEW c \in S
  PROVE  /\ cs \o (<<b>> \o <<c>>) = (cs \o <<b>>) \o <<c>>
         /\ cs \o <<b, c>> = (cs \o <<b>>) \o <<c>>
         /\ cs \o (<<>> \o <<c>>) = cs \o <<c>>
<1>1. <<b>> \in Seq(S) /\ <<c>> \in Seq(S)
  OBVIOUS
<1>2. cs \o (<<b>> \o <<c>>) = (cs \o <<b>>) \o <<c>>
  BY <1>1, ConcatAssociative
<1>3. <<b>> \o <<c>> = <<b, c>>
  <2>1. <<b, c>> \in Seq(S) /\ <<b>> \o <<c>> \in Seq(S)
    BY <1>1
  <2>2. Len(<<b>> \o <<c>>) = Len(<<b, c>>)
    BY <1>1
  <2>3. \A i \in 1 .. Len(<<b>> \o <<c>>) : (<<b>> \o <<c>>)[i] = <<b, c>>[i]
    BY <1>1
  <2> QED
    BY <2>1, <2>2, <2>3, SeqEqual
<1>4. <<>> \o <<c>> = <<c>>
  BY <1>1, ConcatEmptySeq
<1> QED
  BY <1>2, <1>3, <1>4

-----------------------------------------------------------------------------
(* The types.                                                              *)

\* The groups of TypeOK that belong together.
CacheType ==
  /\ known \in [Lists -> SUBSET Resources]
  /\ initial \in [Lists -> [Resources -> AllTargets]]
  /\ current \in [Lists -> [Resources -> AllTargets]]

CodeType ==
  /\ status \in [Lists -> {"unused", "recording", "recorded"}]
  /\ code \in [Lists -> Seq(Command)]
  /\ slice \in [Lists -> [Resources -> [Slices -> AllTargets]]]

SubmitType ==
  /\ master \in [Resources -> AllTargets]
  /\ sub \in Lists \union {NoList}
  /\ inserted \subseteq Command
  /\ done \in Nat
  /\ assertion \in {"none", "state cache full", "too many barriers"}

GpuType ==
  /\ gpu_state \in [Resources -> [Slices -> States]]
  /\ visible \in [Resources -> [Slices -> SUBSET Stages]]
  /\ accessed \in [Resources -> [Slices -> SUBSET Stages]]

LEMMA TypeGroups == TypeOK <=> CacheType /\ CodeType /\ SubmitType /\ GpuType
  BY Zenon DEF TypeOK, CacheType, CodeType, SubmitType, GpuType

LEMMA TypeUnchanged ==
  /\ CacheType /\ UNCHANGED cache => CacheType'
  /\ CodeType /\ UNCHANGED <<status, code, slice>> => CodeType'
  /\ GpuType /\ UNCHANGED gpu => GpuType'
  BY DEF CacheType, CodeType, GpuType, cache, gpu

\* The commands the GPU executes next.
LEMMA UpcomingType ==
  ASSUME TypeOK
  PROVE  Upcoming \subseteq Command
<1>1. CASE sub # NoList /\ inserted = {} /\ done < Len(code[sub])
  <2>1. /\ code[sub] \in Seq(Command) /\ done \in Nat
        /\ sub \in Lists
    BY <1>1 DEF TypeOK
  <2>2. done + 1 \in 1 .. Len(code[sub])
    BY <1>1, <2>1
  <2>3. code[sub][done + 1] \in Command
    BY <2>1, <2>2
  <2> QED
    BY <1>1, <2>3 DEF Upcoming
<1> QED
  BY <1>1 DEF Upcoming, TypeOK

LEMMA ReleaseType ==
  ASSUME TypeOK, NEW l \in Lists, Release(l)
  PROVE  /\ status' \in [Lists -> {"unused", "recording", "recorded"}]
         /\ known' \in [Lists -> SUBSET Resources]
         /\ initial' \in [Lists -> [Resources -> AllTargets]]
         /\ current' \in [Lists -> [Resources -> AllTargets]]
         /\ code' \in [Lists -> Seq(Command)]
         /\ slice' \in [Lists -> [Resources -> [Slices -> AllTargets]]]
<1>1. CacheType /\ CodeType
  BY TypeGroups
<1>2. <<>> \in Seq(Command)
  OBVIOUS
<1>3. /\ status' \in [Lists -> {"unused", "recording", "recorded"}]
      /\ code' \in [Lists -> Seq(Command)]
  BY <1>1, <1>2 DEF CodeType, Release
<1>4. /\ known' \in [Lists -> SUBSET Resources]
      /\ initial' \in [Lists -> [Resources -> AllTargets]]
      /\ current' \in [Lists -> [Resources -> AllTargets]]
  BY <1>1, TargetFacts DEF CacheType, Release, EmptyCache
<1>5. slice' \in [Lists -> [Resources -> [Slices -> AllTargets]]]
  BY <1>1, TargetFacts DEF CodeType, Release, EmptyCache
<1> QED
  BY <1>3, <1>4, <1>5

LEMMA PutType ==
  ASSUME TypeOK, NEW l \in Lists, NEW cs \in Seq(Command), Put(l, cs)
  PROVE  code' \in [Lists -> Seq(Command)]
<1>1. code[l] \in Seq(Command)
  BY DEF TypeOK
<1>2. code[l] \o cs \in Seq(Command)
  BY <1>1
<1> QED
  BY <1>2 DEF TypeOK, Put

LEMMA RecordTypeOK ==
  ASSUME TypeOK, NEW l \in Lists, Record(l)
  PROVE  TypeOK'
<1>a. CacheType /\ CodeType /\ SubmitType /\ GpuType
  BY TypeGroups
<1>1. CASE BeginList(l)
  <2>1. CacheType'
    BY <1>1, <1>a, TargetFacts DEF BeginList, EmptyCache, CacheType
  <2>2. CodeType'
    <3>1. code' \in [Lists -> Seq(Command)]
      BY <1>1, <1>a DEF BeginList, CodeType
    <3> QED
      BY <1>1, <1>a, <3>1, TargetFacts DEF BeginList, EmptyCache, CodeType
  <2>3. SubmitType' /\ GpuType'
    BY <1>1, <1>a, TypeUnchanged DEF BeginList, SubmitType
  <2> QED
    BY <2>1, <2>2, <2>3, TypeGroups, PTL
<1>2. CASE EndList(l)
  <2>1. CacheType' /\ GpuType' /\ SubmitType'
    BY <1>2, <1>a, TypeUnchanged DEF EndList, SubmitType
  <2>2. CodeType'
    BY <1>2, <1>a DEF EndList, CodeType
  <2> QED
    BY <2>1, <2>2, TypeGroups, PTL
<1>3. ASSUME NEW r \in Resources, NEW t \in Targets, Transition(l, r, t)
      PROVE  TypeOK'
  <2>1. GpuType'
    BY <1>3, <1>a, TypeUnchanged DEF Transition
  <2>2. SubmitType'
    BY <1>3, <1>a DEF Transition, SubmitType
  <2>3. CASE CacheFull(l, r) /\ UNCHANGED list
    <3>1. CacheType' /\ CodeType'
      BY <2>3, <1>a, TypeUnchanged DEF list
    <3> QED
      BY <3>1, <2>1, <2>2, TypeGroups, PTL
  <2>4. CASE ~CacheFull(l, r)
    <3>1. t \in AllTargets /\ Slices \in SUBSET Slices
      BY TargetFacts
    <3>2. current[l][r] \in AllTargets /\ Required(l, r, t) \in AllTargets
      BY <1>a, <3>1 DEF CacheType, Required
    <3>3. Work(r, Slices, t) \in Command /\ Barrier(r, Slices, current[l][r], t) \in Command
      BY <3>1, <3>2, CommandFacts DEF Work
    <3> DEFINE cs == IF r \in known[l] THEN BarrierIfNeeded(r, Slices, current[l][r], t) ELSE <<>>
    <3>4. cs \in Seq(Command)
      BY <3>3 DEF BarrierIfNeeded
    <3>5. cs \o <<Work(r, Slices, t)>> \in Seq(Command)
      BY <3>3, <3>4
    <3>6. Put(l, cs \o <<Work(r, Slices, t)>>)
      BY <1>3, <2>4 DEF Transition
    <3>7. code' \in [Lists -> Seq(Command)]
      BY <3>5, <3>6, PutType
    <3>8. CacheType'
      <4>1. /\ known' = [known EXCEPT ![l] = @ \union {r}]
            /\ initial' = [initial EXCEPT ![l][r] = Required(l, r, t)]
            /\ current' = [current EXCEPT ![l][r] = t]
        BY <1>3, <2>4 DEF Transition
      <4> QED
        BY <1>a, <3>1, <3>2, <4>1 DEF CacheType
    <3>9. CodeType'
      <4>1. /\ slice' = [slice EXCEPT ![l][r] = [s \in Slices |-> t]]
            /\ status' = status
        BY <1>3, <2>4 DEF Transition
      <4> QED
        BY <1>a, <3>1, <3>7, <4>1 DEF CodeType
    <3> QED
      BY <2>1, <2>2, <3>8, <3>9, TypeGroups, PTL
  <2> QED
    BY <1>3, <2>3, <2>4 DEF Transition
<1>4. ASSUME NEW r \in Resources, NEW t \in Targets, ResetState(l, r, t)
      PROVE  TypeOK'
  <2>1. GpuType' /\ CodeType' /\ SubmitType'
    BY <1>4, <1>a, TypeUnchanged DEF ResetState, SubmitType
  <2>2. CacheType'
    BY <1>4, <1>a, TargetFacts DEF ResetState, CacheType
  <2> QED
    BY <2>1, <2>2, TypeGroups, PTL
<1>5. ASSUME NEW r \in Resources, NEW t \in Targets, NEW s \in Slices, TransitionSlice(l, r, s, t)
      PROVE  TypeOK'
  <2>1. t \in AllTargets /\ {s} \in SUBSET Slices /\ slice[l][r][s] \in AllTargets
    BY <1>a, TargetFacts DEF CodeType
  <2>2. Work(r, {s}, t) \in Command /\ Barrier(r, {s}, slice[l][r][s], t) \in Command
    BY <2>1, CommandFacts DEF Work
  <2>3. <<Barrier(r, {s}, slice[l][r][s], t), Work(r, {s}, t)>> \in Seq(Command)
    BY <2>2
  <2>4. code' \in [Lists -> Seq(Command)]
    BY <1>5, <2>3, PutType DEF TransitionSlice
  <2>5. CodeType'
    <3>1. slice' = [slice EXCEPT ![l][r][s] = t] /\ status' = status
      BY <1>5 DEF TransitionSlice
    <3> QED
      BY <1>a, <2>1, <2>4, <3>1 DEF CodeType
  <2>6. CacheType' /\ GpuType' /\ SubmitType'
    BY <1>5, <1>a, TypeUnchanged DEF TransitionSlice, SubmitType
  <2> QED
    BY <2>5, <2>6, TypeGroups, PTL
<1> QED
  BY <1>1, <1>2, <1>3, <1>4, <1>5 DEF Record

LEMMA SubmitTypeOK ==
  ASSUME TypeOK, NEW l \in Lists, SubmitList(l)
  PROVE  TypeOK'
<1>a. CacheType /\ CodeType /\ SubmitType /\ GpuType
  BY TypeGroups
<1>1. CacheType' /\ CodeType' /\ GpuType'
  BY <1>a, TypeUnchanged DEF SubmitList, list
<1>2. SubmitType'
  <2>1. CASE /\ assertion' = "too many barriers"
             /\ UNCHANGED <<master, sub, inserted, done>>
    BY <2>1, <1>a DEF SubmitType
  <2>2. CASE ~TooMany(Missing(l))
    <3>1. Missing(l) \subseteq Resources
      BY <1>a DEF Missing, CacheType
    <3>2. \A r \in Resources : Barrier(r, Slices, master[r], initial[l][r]) \in Command
      <4>1. \A r \in Resources : master[r] \in AllTargets /\ initial[l][r] \in AllTargets
        BY <1>a DEF SubmitType, CacheType
      <4> QED
        BY <4>1, CommandFacts
    <3>3. /\ inserted' = {Barrier(r, Slices, master[r], initial[l][r]) : r \in Missing(l)}
          /\ master' = [r \in Resources |-> IF r \in known[l] THEN Left(l, r) ELSE master[r]]
          /\ sub' = l /\ done' = 0 /\ assertion' = assertion
      BY <2>2 DEF SubmitList
    <3>4. inserted' \subseteq Command
      BY <3>1, <3>2, <3>3
    <3>5. master' \in [Resources -> AllTargets]
      BY <1>a, <3>3 DEF SubmitType, CacheType, Left
    <3> QED
      BY <1>a, <3>3, <3>4, <3>5 DEF SubmitType
  <2> QED
    BY <2>1, <2>2 DEF SubmitList
<1> QED
  BY <1>1, <1>2, TypeGroups, PTL

LEMMA ExecuteTypeOK ==
  ASSUME TypeOK, Execute
  PROVE  TypeOK'
<1>a. CacheType /\ CodeType /\ SubmitType /\ GpuType
  BY TypeGroups
<1>1. Upcoming \subseteq Command
  BY UpcomingType
<1>2. ASSUME NEW r \in Resources, NEW s \in Slices, \E c \in Upcoming : Concerns(c, r, s)
      PROVE  /\ (CHOOSE c \in Upcoming : Concerns(c, r, s)).after.state \in States
             /\ (CHOOSE c \in Upcoming : Concerns(c, r, s)).after.stages \in SUBSET Stages
  <2>1. (CHOOSE c \in Upcoming : Concerns(c, r, s)) \in Command
    BY <1>1, <1>2
  <2> QED
    BY <2>1, CommandFacts, TargetFacts
<1>3. gpu_state' \in [Resources -> [Slices -> States]]
  BY <1>2, <1>a DEF GpuType, Execute
<1>4. visible' \in [Resources -> [Slices -> SUBSET Stages]]
  BY <1>2, <1>a DEF GpuType, Execute
<1>5. accessed' \in [Resources -> [Slices -> SUBSET Stages]]
  <2>1. \A r \in Resources, s \in Slices : accessed[r][s] \in SUBSET Stages
    BY <1>a DEF GpuType
  <2> QED
    BY <1>2, <2>1 DEF Execute
<1>6. GpuType'
  BY <1>3, <1>4, <1>5 DEF GpuType
<1>7. CacheType' /\ CodeType'
  BY <1>a, TypeUnchanged DEF Execute, list
<1>8. SubmitType'
  <2>1. inserted' = {} /\ (done' = done \/ done' = done + 1) /\ UNCHANGED <<master, sub, assertion>>
    BY DEF Execute
  <2>2. done' \in Nat
    <3>1. done \in Nat
      BY <1>a DEF SubmitType
    <3> QED
      BY <2>1, <3>1
  <2> QED
    BY <1>a, <2>1, <2>2 DEF SubmitType
<1> QED
  BY <1>6, <1>7, <1>8, TypeGroups, PTL

LEMMA TypeInductive == TypeOK /\ [Next]_vars => TypeOK'
<1> SUFFICES ASSUME TypeOK, [Next]_vars
             PROVE  TypeOK'
  OBVIOUS
<1>a. CacheType /\ CodeType /\ SubmitType /\ GpuType
  BY TypeGroups
<1>1. ASSUME NEW l \in Lists, Discard(l)
      PROVE  TypeOK'
  <2>1. CacheType' /\ CodeType'
    BY <1>1, ReleaseType DEF Discard, CacheType, CodeType
  <2>2. GpuType' /\ SubmitType'
    BY <1>1, <1>a, TypeUnchanged DEF Discard, SubmitType
  <2> QED
    BY <2>1, <2>2, TypeGroups, PTL
<1>2. CASE Finish
  <2>1. sub \in Lists
    BY <1>2, <1>a DEF SubmitType, Finish
  <2>2. CacheType' /\ CodeType'
    BY <1>2, <2>1, ReleaseType DEF Finish, CacheType, CodeType
  <2>3. GpuType' /\ SubmitType'
    BY <1>2, <1>a, TypeUnchanged DEF Finish, SubmitType
  <2> QED
    BY <2>2, <2>3, TypeGroups, PTL
<1>3. CASE UNCHANGED vars
  <2>1. CacheType' /\ CodeType' /\ GpuType' /\ SubmitType'
    BY <1>3, <1>a, TypeUnchanged DEF vars, list, cache, SubmitType
  <2> QED
    BY <2>1, TypeGroups, PTL
<1> QED
  BY <1>1, <1>2, <1>3, RecordTypeOK, SubmitTypeOK, ExecuteTypeOK DEF Next

LEMMA InitTypeOK == Init => TypeOK
  BY TargetFacts DEF Init, TypeOK

\* The caches, the master states and the command buffers keep their types.
THEOREM TypeCorrect == Spec => []TypeOK
  BY InitTypeOK, TypeInductive, PTL DEF Spec

-----------------------------------------------------------------------------
(* Every list is a chain.                                                  *)

\* A command that names the state the list leaves its slices in is appended.
LEMMA ListAppend ==
  ASSUME NEW cs \in Seq(Command), NEW c \in Command, NEW kn, NEW ini, NEW sl, NEW sl2,
         ListRight(cs, kn, ini, sl), c.res \in kn,
         \A r \in kn, s \in Slices :
           Concerns(c, r, s) => /\ c.before.state = sl[r][s].state
                                /\ c.after.state = sl2[r][s].state,
         \A r \in kn, s \in Slices : ~Concerns(c, r, s) => sl2[r][s].state = sl[r][s].state
  PROVE  ListRight(cs \o <<c>>, kn, ini, sl2)
<1> DEFINE ds == cs \o <<c>>
<1>1. \A n \in 1 .. Len(ds) : ds[n].res \in kn
  <2>1. /\ Len(ds) = Len(cs) + 1 /\ Len(cs) \in Nat
        /\ \A i \in 1 .. Len(cs) : ds[i] = cs[i]
        /\ ds[Len(cs) + 1] = c
    BY AppendFacts
  <2> HIDE DEF ds
  <2>2. \A n \in 1 .. Len(ds) : n \in 1 .. Len(cs) \/ n = Len(cs) + 1
    BY <2>1
  <2>3. \A n \in 1 .. Len(cs) : cs[n].res \in kn
    BY DEF ListRight
  <2> QED
    BY <2>1, <2>2, <2>3
<1>2. ASSUME NEW r \in kn, NEW s \in Slices
      PROVE  /\ Chained(ds, r, s, ini[r].state)
             /\ LeftBy(ds, Len(ds), r, s, ini[r].state, sl2[r][s].state)
  <2>1. /\ Chained(cs, r, s, ini[r].state)
        /\ LeftBy(cs, Len(cs), r, s, ini[r].state, sl[r][s].state)
    BY DEF ListRight
  <2>2. /\ Chained(ds, r, s, ini[r].state)
        /\ ~Concerns(c, r, s) => LeftBy(ds, Len(ds), r, s, ini[r].state, sl[r][s].state)
        /\ Concerns(c, r, s) => LeftBy(ds, Len(ds), r, s, ini[r].state, c.after.state)
    BY <2>1, ChainStep
  <2> HIDE DEF ds
  <2> QED
    BY <2>2
<1> HIDE DEF ds
<1>3. ListRight(ds, kn, ini, sl2)
  BY <1>1, <1>2 DEF ListRight
<1> QED
  BY <1>3 DEF ds

\* A list that is about to touch a resource for the first time.
Entered(kn, ini, sl, ini2, sl2, r, t) ==
  /\ r \notin kn
  /\ ini2[r] = t /\ \A s \in Slices : sl2[r][s] = t
  /\ \A q \in kn : ini2[q] = ini[q] /\ sl2[q] = sl[q]

LEMMA ListNew ==
  ASSUME NEW cs \in Seq(Command), NEW kn, NEW ini, NEW sl, NEW ini2, NEW sl2, NEW r, NEW t,
         ListRight(cs, kn, ini, sl), Entered(kn, ini, sl, ini2, sl2, r, t)
  PROVE  ListRight(cs, kn \union {r}, ini2, sl2)
<1> USE DEF Entered
<1>0. Len(cs) \in Nat
  OBVIOUS
<1>1. \A n \in 1 .. Len(cs) : cs[n].res \in kn
  BY DEF ListRight
<1>2. ASSUME NEW s \in Slices
      PROVE  /\ Chained(cs, r, s, ini2[r].state)
             /\ LeftBy(cs, Len(cs), r, s, ini2[r].state, sl2[r][s].state)
  <2>1. \A i \in 1 .. Len(cs) : ~Concerns(cs[i], r, s)
    BY <1>1 DEF Concerns
  <2>2. Chained(cs, r, s, ini2[r].state)
    BY <2>1 DEF Chained
  <2>3. LeftBy(cs, Len(cs), r, s, ini2[r].state, ini2[r].state)
    BY <1>0, <2>1, LeftByUntouched
  <2> QED
    BY <2>2, <2>3
<1>3. ASSUME NEW q \in kn, NEW s \in Slices
      PROVE  /\ Chained(cs, q, s, ini2[q].state)
             /\ LeftBy(cs, Len(cs), q, s, ini2[q].state, sl2[q][s].state)
  BY DEF ListRight
<1> QED
  BY <1>1, <1>2, <1>3 DEF ListRight

LEMMA TransitionListRight ==
  ASSUME TypeOK, NEW l \in Lists, NEW r \in Resources, NEW t \in Targets,
         Transition(l, r, t), ~CacheFull(l, r),
         ListRight(code[l], known[l], initial[l], slice[l])
  PROVE  ListRight(code[l], known[l], initial[l], slice[l])'
<1>a. CacheType /\ CodeType
  BY TypeGroups
<1>b. t \in AllTargets /\ Slices \in SUBSET Slices
  BY TargetFacts
<1>c. /\ known' = [known EXCEPT ![l] = @ \union {r}]
      /\ initial' = [initial EXCEPT ![l][r] = Required(l, r, t)]
      /\ slice' = [slice EXCEPT ![l][r] = [s \in Slices |-> t]]
      /\ Put(l, (IF r \in known[l] THEN BarrierIfNeeded(r, Slices, current[l][r], t) ELSE <<>>)
                  \o <<Work(r, Slices, t)>>)
      /\ InStep(l, r)
  BY DEF Transition
<1> DEFINE cs == code[l]
           sl2 == [slice[l] EXCEPT ![r] = [s \in Slices |-> t]]
           b == Barrier(r, Slices, current[l][r], t)
           w == Work(r, Slices, t)
<1>d. cs \in Seq(Command) /\ current[l][r] \in AllTargets /\ known[l] \subseteq Resources
  BY <1>a DEF CacheType, CodeType
<1>e. /\ b \in Command /\ w \in Command
      /\ b.res = r /\ b.slices = Slices /\ b.before = current[l][r] /\ b.after = t
      /\ w.res = r /\ w.slices = Slices /\ w.before = t /\ w.after = t
  BY <1>b, <1>d, CommandFacts DEF Work
<1>f. slice'[l] = sl2 /\ known'[l] = known[l] \union {r}
  BY <1>a, <1>c DEF CacheType, CodeType
<1>g. /\ \A s \in Slices : sl2[r][s] = t
      /\ \A q \in Resources : q # r => sl2[q] = slice[l][q]
  BY <1>a DEF CodeType
<1> HIDE DEF sl2, b, w
<1>1. CASE r \notin known[l]
  <2>1. initial'[l][r] = t /\ \A q \in known[l] : initial'[l][q] = initial[l][q]
    <3>1. initial' = [initial EXCEPT ![l][r] = t]
      BY <1>c, <1>1 DEF Required
    <3>2. initial \in [Lists -> [Resources -> AllTargets]]
      BY <1>a DEF CacheType
    <3>3. \A q \in known[l] : q \in Resources /\ q # r
      BY <1>d, <1>1
    <3>4. initial'[l] = [initial[l] EXCEPT ![r] = t] /\ initial[l] \in [Resources -> AllTargets]
      BY <3>1, <3>2
    <3>5. initial'[l][r] = t
      BY <3>4
    <3>6. \A q \in known[l] : initial'[l][q] = initial[l][q]
      BY <3>3, <3>4
    <3> QED
      BY <3>5, <3>6
  <2>2. ListRight(cs, known[l] \union {r}, initial'[l], sl2)
    <3>1. \A q \in known[l] : initial'[l][q] = initial[l][q] /\ sl2[q] = slice[l][q]
      BY <1>d, <1>g, <1>1, <2>1
    <3>2. ListRight(cs, known[l], initial[l], slice[l])
      OBVIOUS
    <3> DEFINE kn == known[l]
               ini == initial[l]
               ini2 == initial'[l]
               sl == slice[l]
    <3>3. /\ cs \in Seq(Command) /\ ListRight(cs, kn, ini, sl)
          /\ Entered(kn, ini, sl, ini2, sl2, r, t)
      BY <1>d, <1>g, <1>1, <2>1, <3>1, <3>2 DEF Entered
    <3> HIDE DEF cs, kn, ini, ini2, sl
    <3>4. ListRight(cs, kn \union {r}, ini2, sl2)
      BY <3>3, ListNew
    <3> QED
      BY <3>4 DEF kn, ini2
  <2>3. ListRight(cs \o <<w>>, known[l] \union {r}, initial'[l], sl2)
    <3>1. \A q \in known[l] \union {r}, s \in Slices :
            Concerns(w, q, s) => /\ w.before.state = sl2[q][s].state
                                 /\ w.after.state = sl2[q][s].state
      BY <1>e, <1>g DEF Concerns
    <3>2. w.res \in known[l] \union {r}
      BY <1>e
    <3> QED
      BY <1>d, <1>e, <2>2, <3>1, <3>2, ListAppend
  <2>4. code'[l] = cs \o <<w>>
    <3>1. Put(l, <<>> \o <<w>>)
      BY <1>c, <1>1 DEF w
    <3>2. code'[l] = cs \o (<<>> \o <<w>>)
      BY <1>a, <3>1 DEF Put, CodeType
    <3>3. cs \in Seq(Command) /\ w \in Command
      BY <1>d, <1>e
    <3>4. cs \o (<<>> \o <<w>>) = cs \o <<w>>
      <4> HIDE DEF cs, w
      <4> QED
        BY <3>3, AppendTwo
    <3> QED
      BY <3>2, <3>4
  <2> QED
    BY <1>f, <2>3, <2>4
<1>2. CASE r \in known[l]
  <2>1. initial'[l] = initial[l] /\ known[l] \union {r} = known[l]
    BY <1>a, <1>c, <1>2 DEF CacheType, Required
  <2>2. \A s \in Slices : slice[l][r][s].state = current[l][r].state
    BY <1>c DEF InStep
  <2>3. ASSUME NEW ds \in Seq(Command), ListRight(ds, known[l], initial[l], sl2)
        PROVE  ListRight(ds \o <<w>>, known[l], initial[l], sl2)
    <3>1. \A q \in known[l], s \in Slices :
            Concerns(w, q, s) => /\ w.before.state = sl2[q][s].state
                                 /\ w.after.state = sl2[q][s].state
      BY <1>e, <1>g DEF Concerns
    <3>2. w.res \in known[l]
      BY <1>e, <1>2
    <3> QED
      BY <1>e, <2>3, <3>1, <3>2, ListAppend
  <2>4. CASE Redundant(current[l][r], t)
    <3>1. \A q \in known[l], s \in Slices : sl2[q][s].state = slice[l][q][s].state
      BY <1>d, <1>g, <2>2, <2>4 DEF Redundant
    <3>2. ListRight(cs, known[l], initial[l], sl2)
      BY <3>1 DEF ListRight
    <3>3. code'[l] = cs \o <<w>>
      <4>1. Put(l, <<>> \o <<w>>)
        BY <1>c, <1>2, <2>4 DEF BarrierIfNeeded, w
      <4>2. code'[l] = cs \o (<<>> \o <<w>>)
        BY <1>a, <4>1 DEF Put, CodeType
      <4>3. cs \in Seq(Command) /\ w \in Command
        BY <1>d, <1>e
      <4>4. cs \o (<<>> \o <<w>>) = cs \o <<w>>
        <5> HIDE DEF cs, w
        <5> QED
          BY <4>3, AppendTwo
      <4> QED
        BY <4>2, <4>4
    <3> QED
      BY <1>d, <1>f, <2>1, <2>3, <3>2, <3>3
  <2>5. CASE ~Redundant(current[l][r], t)
    <3>1. ListRight(cs \o <<b>>, known[l], initial[l], sl2)
      <4>1. \A q \in known[l], s \in Slices :
              Concerns(b, q, s) => /\ b.before.state = slice[l][q][s].state
                                   /\ b.after.state = sl2[q][s].state
        BY <1>e, <1>g, <2>2 DEF Concerns
      <4>2. \A q \in known[l], s \in Slices :
              ~Concerns(b, q, s) => sl2[q][s].state = slice[l][q][s].state
        BY <1>d, <1>e, <1>g DEF Concerns
      <4>3. b.res \in known[l]
        BY <1>e, <1>2
      <4> QED
        BY <1>d, <1>e, <4>1, <4>2, <4>3, ListAppend
    <3>2. code'[l] = (cs \o <<b>>) \o <<w>>
      <4>1. Put(l, <<b>> \o <<w>>)
        BY <1>c, <1>2, <2>5 DEF BarrierIfNeeded, b, w
      <4>2. code'[l] = cs \o (<<b>> \o <<w>>)
        BY <1>a, <4>1 DEF Put, CodeType
      <4>3. cs \in Seq(Command) /\ b \in Command /\ w \in Command
        BY <1>d, <1>e
      <4>4. cs \o (<<b>> \o <<w>>) = (cs \o <<b>>) \o <<w>>
        <5> HIDE DEF cs, b, w
        <5> QED
          BY <4>3, AppendTwo
      <4> QED
        BY <4>2, <4>4
    <3>3. cs \o <<b>> \in Seq(Command)
      BY <1>d, <1>e, AppendFacts
    <3> QED
      BY <1>f, <2>1, <2>3, <3>1, <3>2, <3>3
  <2> QED
    BY <2>4, <2>5
<1> QED
  BY <1>1, <1>2

LEMMA SliceListRight ==
  ASSUME TypeOK, NEW l \in Lists, NEW r \in Resources, NEW s \in Slices, NEW t \in Targets,
         TransitionSlice(l, r, s, t), ListRight(code[l], known[l], initial[l], slice[l])
  PROVE  ListRight(code[l], known[l], initial[l], slice[l])'
<1>a. CacheType /\ CodeType
  BY TypeGroups
<1> DEFINE cs == code[l]
           sl2 == [slice[l] EXCEPT ![r][s] = t]
           b == Barrier(r, {s}, slice[l][r][s], t)
           w == Work(r, {s}, t)
<1>b. /\ slice' = [slice EXCEPT ![l][r][s] = t]
      /\ Put(l, <<b, w>>)
      /\ r \in known[l] /\ known' = known /\ initial' = initial
  BY DEF TransitionSlice, cache
<1>c. /\ t \in AllTargets /\ {s} \in SUBSET Slices /\ slice[l][r][s] \in AllTargets
      /\ cs \in Seq(Command) /\ known[l] \subseteq Resources
  BY <1>a, TargetFacts DEF CacheType, CodeType
<1>d. /\ b \in Command /\ w \in Command
      /\ b.res = r /\ b.slices = {s} /\ b.before = slice[l][r][s] /\ b.after = t
      /\ w.res = r /\ w.slices = {s} /\ w.before = t /\ w.after = t
  BY <1>c, CommandFacts DEF Work
<1>e. slice'[l] = sl2
  BY <1>a, <1>b DEF CodeType
<1>f. /\ sl2[r][s] = t
      /\ \A q \in Resources, u \in Slices : q # r \/ u # s => sl2[q][u] = slice[l][q][u]
  BY <1>a DEF CodeType
<1>g. code'[l] = cs \o <<b, w>>
  BY <1>a, <1>b DEF Put, CodeType
<1> HIDE DEF sl2, b, w
<1>1. ListRight(cs \o <<b>>, known[l], initial[l], sl2)
  <2>1. \A q \in known[l], u \in Slices :
          Concerns(b, q, u) => /\ b.before.state = slice[l][q][u].state
                               /\ b.after.state = sl2[q][u].state
    BY <1>d, <1>f DEF Concerns
  <2>2. \A q \in known[l], u \in Slices :
          ~Concerns(b, q, u) => sl2[q][u].state = slice[l][q][u].state
    BY <1>c, <1>d, <1>f DEF Concerns
  <2> QED
    BY <1>b, <1>c, <1>d, <2>1, <2>2, ListAppend
<1>2. ListRight((cs \o <<b>>) \o <<w>>, known[l], initial[l], sl2)
  <2>1. \A q \in known[l], u \in Slices :
          Concerns(w, q, u) => /\ w.before.state = sl2[q][u].state
                               /\ w.after.state = sl2[q][u].state
    BY <1>d, <1>f DEF Concerns
  <2>2. cs \o <<b>> \in Seq(Command)
    BY <1>c, <1>d, AppendFacts
  <2> QED
    BY <1>b, <1>d, <1>1, <2>1, <2>2, ListAppend
<1>3. code'[l] = (cs \o <<b>>) \o <<w>>
  <2>1. cs \in Seq(Command) /\ b \in Command /\ w \in Command
    BY <1>c, <1>d
  <2>2. cs \o <<b, w>> = (cs \o <<b>>) \o <<w>>
    <3> HIDE DEF cs
    <3> QED
      BY <2>1, AppendTwo
  <2> QED
    BY <1>g, <2>2
<1> QED
  BY <1>b, <1>e, <1>2, <1>3

LEMMA EmptyListRight ==
  ASSUME NEW ini, NEW sl
  PROVE  ListRight(<<>>, {}, ini, sl)
  BY DEF ListRight

-----------------------------------------------------------------------------
(* The inductive invariant.                                                *)

\* Steps of one list that is not on its way to the GPU.
LEMMA ListStep ==
  ASSUME StatesInv, TypeOK', NEW l \in Lists, sub # l,
         UNCHANGED <<master, sub, inserted, done, gpu>>,
         \A k \in Lists \ {l} :
           /\ status'[k] = status[k] /\ known'[k] = known[k] /\ initial'[k] = initial[k]
           /\ current'[k] = current[k] /\ code'[k] = code[k] /\ slice'[k] = slice[k],
         ListRight(code[l], known[l], initial[l], slice[l])',
         status'[l] = "recorded" => \A r \in known'[l] : InStep(l, r)'
  PROVE  StatesInv'
<1>1. CodeRight'
  <2>1. ASSUME NEW k \in Lists
        PROVE  ListRight(code[k], known[k], initial[k], slice[k])'
    <3>1. CASE k = l
      BY <3>1
    <3>2. CASE k # l
      <4>1. ListRight(code[k], known[k], initial[k], slice[k])
        BY DEF StatesInv, CodeRight
      <4>2. /\ code'[k] = code[k] /\ known'[k] = known[k]
            /\ initial'[k] = initial[k] /\ slice'[k] = slice[k]
        BY <3>2
      <4> QED
        BY <4>1, <4>2
    <3> QED
      BY <3>1, <3>2
  <2> QED
    BY <2>1 DEF CodeRight
<1>2. CacheRight'
  <2>1. ASSUME NEW k \in Lists, k # l, status'[k] = "recorded", NEW r \in known'[k]
        PROVE  InStep(k, r)'
    BY <2>1 DEF StatesInv, CacheRight, InStep
  <2> QED
    BY <2>1 DEF CacheRight
<1>3. ProgressRight'
  <2>1. SUFFICES ASSUME sub # NoList
                 PROVE  ProgressRight'
    BY DEF ProgressRight
  <2>2. sub \in Lists \ {l}
    BY <2>1 DEF StatesInv, TypeOK
  <2>3. /\ status'[sub] = status[sub] /\ known'[sub] = known[sub] /\ initial'[sub] = initial[sub]
        /\ current'[sub] = current[sub] /\ code'[sub] = code[sub]
    BY <2>2
  <2> QED
    BY <2>1, <2>3 DEF StatesInv, ProgressRight, gpu
<1>4. MasterRight' /\ (sub = NoList => inserted = {})'
  BY DEF StatesInv, MasterRight, gpu
<1> QED
  BY <1>1, <1>2, <1>3, <1>4 DEF StatesInv

LEMMA RecordStatesInv ==
  ASSUME StatesInv, NEW l \in Lists, Record(l)
  PROVE  StatesInv'
<1>a. TypeOK /\ CodeRight /\ CacheRight /\ ProgressRight
  BY DEF StatesInv
<1>b. TypeOK'
  BY <1>a, RecordTypeOK
<1>c. CacheType /\ CodeType
  BY <1>a, TypeGroups
<1>d. ListRight(code[l], known[l], initial[l], slice[l])
  BY <1>a DEF CodeRight
<1>e. status[l] # "recorded" => sub # l
  <2>1. NoList \notin Lists
    BY SizesAssumption
  <2> QED
    BY <1>a, <2>1 DEF ProgressRight
<1>1. CASE BeginList(l)
  <2>1. /\ status' = [status EXCEPT ![l] = "recording"]
        /\ code' = [code EXCEPT ![l] = <<>>]
        /\ known' = [known EXCEPT ![l] = {}]
        /\ initial' = [initial EXCEPT ![l] = [r \in Resources |-> Undefined]]
        /\ current' = [current EXCEPT ![l] = [r \in Resources |-> Undefined]]
        /\ slice' = [slice EXCEPT ![l] = [r \in Resources |-> [s \in Slices |-> Undefined]]]
        /\ UNCHANGED <<master, sub, inserted, done, gpu>>
    BY <1>1 DEF BeginList, EmptyCache
  <2>2. \A k \in Lists \ {l} :
          /\ status'[k] = status[k] /\ known'[k] = known[k] /\ initial'[k] = initial[k]
          /\ current'[k] = current[k] /\ code'[k] = code[k] /\ slice'[k] = slice[k]
    BY <1>c, <2>1 DEF CacheType, CodeType
  <2>3. code'[l] = <<>> /\ known'[l] = {} /\ status'[l] = "recording"
    BY <1>c, <2>1 DEF CacheType, CodeType
  <2>4. sub # l
    BY <1>1, <1>e DEF BeginList
  <2>5. ListRight(code[l], known[l], initial[l], slice[l])'
    BY <2>3, EmptyListRight
  <2> QED
    BY <1>b, <2>1, <2>2, <2>3, <2>4, <2>5, ListStep
<1>2. CASE EndList(l)
  <2>1. /\ status' = [status EXCEPT ![l] = "recorded"]
        /\ UNCHANGED <<known, initial, current, code, slice>>
        /\ UNCHANGED <<master, sub, inserted, done, gpu>>
        /\ \A r \in known[l] : InStep(l, r)
    BY <1>2 DEF EndList, cache
  <2>2. \A k \in Lists \ {l} :
          /\ status'[k] = status[k] /\ known'[k] = known[k] /\ initial'[k] = initial[k]
          /\ current'[k] = current[k] /\ code'[k] = code[k] /\ slice'[k] = slice[k]
    BY <1>c, <2>1 DEF CodeType
  <2>3. sub # l
    BY <1>2, <1>e DEF EndList
  <2>4. ListRight(code[l], known[l], initial[l], slice[l])'
    BY <1>d, <2>1
  <2>5. \A r \in known'[l] : InStep(l, r)'
    BY <2>1 DEF InStep
  <2> QED
    BY <1>b, <2>1, <2>2, <2>3, <2>4, <2>5, ListStep
<1>3. ASSUME NEW r \in Resources, NEW t \in Targets, Transition(l, r, t)
      PROVE  StatesInv'
  <2>1. CASE CacheFull(l, r) /\ UNCHANGED list
    <3>1. UNCHANGED <<master, list, sub, inserted, done, gpu>>
      BY <1>3, <2>1 DEF Transition
    <3> QED
      BY <1>b, <3>1 DEF StatesInv, CodeRight, CacheRight, InStep, ProgressRight, MasterRight,
                        list, cache, gpu
  <2>2. CASE ~CacheFull(l, r)
    <3>1. /\ known' = [known EXCEPT ![l] = @ \union {r}]
          /\ initial' = [initial EXCEPT ![l][r] = Required(l, r, t)]
          /\ current' = [current EXCEPT ![l][r] = t]
          /\ slice' = [slice EXCEPT ![l][r] = [s \in Slices |-> t]]
          /\ \E cs : Put(l, cs)
          /\ status[l] = "recording" /\ status' = status
          /\ UNCHANGED <<master, sub, inserted, done, gpu>>
      BY <1>3, <2>2 DEF Transition
    <3>2. \A k \in Lists \ {l} :
            /\ status'[k] = status[k] /\ known'[k] = known[k] /\ initial'[k] = initial[k]
            /\ current'[k] = current[k] /\ code'[k] = code[k] /\ slice'[k] = slice[k]
      BY <1>c, <3>1 DEF CacheType, CodeType, Put
    <3>3. ListRight(code[l], known[l], initial[l], slice[l])'
      BY <1>3, <1>a, <1>d, <2>2, TransitionListRight
    <3> QED
      BY <1>b, <1>e, <3>1, <3>2, <3>3, ListStep
  <2> QED
    BY <1>3, <2>1, <2>2 DEF Transition
<1>4. ASSUME NEW r \in Resources, NEW t \in Targets, ResetState(l, r, t)
      PROVE  StatesInv'
  <2>1. /\ current' = [current EXCEPT ![l][r] = t]
        /\ status[l] = "recording"
        /\ UNCHANGED <<status, known, initial, code, slice>>
        /\ UNCHANGED <<master, sub, inserted, done, gpu>>
    BY <1>4 DEF ResetState
  <2>2. \A k \in Lists \ {l} : current'[k] = current[k]
    BY <1>c, <2>1 DEF CacheType
  <2>3. ListRight(code[l], known[l], initial[l], slice[l])'
    BY <1>d, <2>1
  <2> QED
    BY <1>b, <1>e, <2>1, <2>2, <2>3, ListStep
<1>5. ASSUME NEW r \in Resources, NEW t \in Targets, NEW s \in Slices, TransitionSlice(l, r, s, t)
      PROVE  StatesInv'
  <2>1. /\ slice' = [slice EXCEPT ![l][r][s] = t]
        /\ \E cs : Put(l, cs)
        /\ status[l] = "recording" /\ UNCHANGED <<status, known, initial, current>>
        /\ UNCHANGED <<master, sub, inserted, done, gpu>>
    BY <1>5 DEF TransitionSlice, cache
  <2>2. \A k \in Lists \ {l} : code'[k] = code[k] /\ slice'[k] = slice[k]
    BY <1>c, <2>1 DEF CodeType, Put
  <2>3. ListRight(code[l], known[l], initial[l], slice[l])'
    BY <1>5, <1>a, <1>d, SliceListRight
  <2> QED
    BY <1>b, <1>e, <2>1, <2>2, <2>3, ListStep
<1> QED
  BY <1>1, <1>2, <1>3, <1>4, <1>5 DEF Record

LEMMA ReleaseFacts ==
  ASSUME TypeOK, NEW l \in Lists, Release(l)
  PROVE  /\ \A k \in Lists \ {l} :
              /\ status'[k] = status[k] /\ known'[k] = known[k] /\ initial'[k] = initial[k]
              /\ current'[k] = current[k] /\ code'[k] = code[k] /\ slice'[k] = slice[k]
         /\ code'[l] = <<>> /\ known'[l] = {} /\ status'[l] = "unused"
<1>1. CacheType /\ CodeType
  BY TypeGroups
<1> QED
  BY <1>1 DEF Release, EmptyCache, CacheType, CodeType

LEMMA DiscardStatesInv ==
  ASSUME StatesInv, TypeOK', NEW l \in Lists, Discard(l)
  PROVE  StatesInv'
<1>1. /\ \A k \in Lists \ {l} :
           /\ status'[k] = status[k] /\ known'[k] = known[k] /\ initial'[k] = initial[k]
           /\ current'[k] = current[k] /\ code'[k] = code[k] /\ slice'[k] = slice[k]
      /\ code'[l] = <<>> /\ known'[l] = {} /\ status'[l] = "unused"
  BY ReleaseFacts DEF StatesInv, Discard
<1>2. ListRight(code[l], known[l], initial[l], slice[l])'
  BY <1>1, EmptyListRight
<1> QED
  BY <1>1, <1>2, ListStep DEF Discard

LEMMA SubmitStatesInv ==
  ASSUME StatesInv, TypeOK', NEW l \in Lists, SubmitList(l)
  PROVE  StatesInv'
<1>a. TypeOK /\ CodeRight /\ CacheRight /\ MasterRight /\ (sub = NoList => inserted = {})
  BY DEF StatesInv
<1>b. CacheType /\ CodeType /\ SubmitType
  BY <1>a, TypeGroups
<1>1. CodeRight' /\ CacheRight'
  <2>1. UNCHANGED <<status, known, initial, current, code, slice>>
    BY DEF SubmitList, list, cache
  <2>2. CodeRight'
    BY <1>a, <2>1 DEF CodeRight
  <2>3. CacheRight'
    BY <1>a, <2>1 DEF CacheRight, InStep
  <2> QED
    BY <2>2, <2>3
<1>2. CASE UNCHANGED <<master, sub, inserted, done>>
  <2>1. ProgressRight' /\ MasterRight' /\ (sub = NoList => inserted = {})'
    BY <1>2 DEF StatesInv, ProgressRight, MasterRight, SubmitList, list, cache, gpu
  <2> QED
    BY <1>1, <2>1 DEF StatesInv
<1>3. CASE ~TooMany(Missing(l))
  <2>1. /\ sub = NoList /\ status[l] = "recorded"
        /\ sub' = l /\ done' = 0
        /\ inserted' = {Barrier(r, Slices, master[r], initial[l][r]) : r \in Missing(l)}
        /\ master' = [r \in Resources |-> IF r \in known[l] THEN Left(l, r) ELSE master[r]]
        /\ UNCHANGED <<status, known, initial, current, code, gpu_state>>
    BY <1>3 DEF SubmitList, list, cache, gpu
  <2>2. l # NoList
    BY SizesAssumption
  <2>3. \A r \in Resources, s \in Slices : gpu_state[r][s] = master[r].state
    BY <1>a, <2>1 DEF MasterRight
  <2>4. known[l] \subseteq Resources /\ Missing(l) \subseteq known[l]
    BY <1>b DEF CacheType, Missing
  <2>5. \A r \in Resources : LET b == Barrier(r, Slices, master[r], initial[l][r])
                             IN  /\ b.res = r /\ b.slices = Slices
                                 /\ b.before = master[r] /\ b.after = initial[l][r]
    <3>1. \A r \in Resources : master[r] \in AllTargets /\ initial[l][r] \in AllTargets
      BY <1>b DEF SubmitType, CacheType
    <3> QED
      BY <3>1, CommandFacts
  <2>6. \A c \in inserted' :
          \E r \in Missing(l) : /\ c = Barrier(r, Slices, master[r], initial[l][r])
                                /\ c.res = r /\ c.slices = Slices
                                /\ c.before = master[r] /\ c.after = initial[l][r]
    BY <2>1, <2>4, <2>5
  <2>7. \A r \in Missing(l) : \E c \in inserted' : c.res = r
    BY <2>1, <2>4, <2>5
  <2>8. /\ \A r \in Resources \ known[l], s \in Slices : gpu_state[r][s] = master'[r].state
        /\ \A r \in known[l] : master'[r] = current[l][r]
    BY <2>1, <2>3, <2>4 DEF Left
  <2>9. ASSUME NEW r \in known[l], NEW s \in Slices
        PROVE  IF \E c \in inserted' : c.res = r
               THEN \A c \in inserted' : c.res = r => gpu_state[r][s] = c.before.state
               ELSE LeftBy(code[l], 0, r, s, initial[l][r].state, gpu_state[r][s])
    <3>1. CASE \E c \in inserted' : c.res = r
      BY <2>3, <2>4, <2>6, <3>1
    <3>2. CASE ~\E c \in inserted' : c.res = r
      <4>1. r \notin Missing(l)
        BY <2>7, <3>2
      <4>2. gpu_state[r][s] = initial[l][r].state
        BY <2>3, <2>4, <4>1 DEF Missing, Redundant
      <4>3. \A i \in 1 .. 0 : ~Concerns(code[l][i], r, s)
        OBVIOUS
      <4>4. LeftBy(code[l], 0, r, s, initial[l][r].state, initial[l][r].state)
        BY <4>3, LeftByUntouched
      <4> QED
        BY <3>2, <4>2, <4>4
    <3> QED
      BY <3>1, <3>2
  <2>10. 0 \in 0 .. Len(code[l])
    <3>1. Len(code[l]) \in Nat
      BY <1>b DEF CodeType
    <3> QED
      BY <3>1
  <2>11. /\ \A c \in inserted' : c.res \in known[l] /\ c.slices = Slices /\ c.after = initial[l][c.res]
         /\ \A c, d \in inserted' : c.res = d.res => c = d
    BY <2>4, <2>6
  <2>12. ProgressRight'
    <3>1. /\ sub' = l /\ done' = 0 /\ status'[l] = "recorded"
          /\ known'[l] = known[l] /\ code'[l] = code[l] /\ initial'[l] = initial[l]
          /\ current'[l] = current[l] /\ gpu_state' = gpu_state
      BY <2>1
    <3> QED
      BY <3>1, <2>8, <2>9, <2>10, <2>11 DEF ProgressRight
  <2>13. MasterRight' /\ (sub = NoList => inserted = {})'
    BY <2>1, <2>2 DEF MasterRight
  <2> QED
    BY <1>1, <2>12, <2>13 DEF StatesInv
<1> QED
  BY <1>2, <1>3 DEF SubmitList

LEMMA FinishStatesInv ==
  ASSUME StatesInv, TypeOK', Finish
  PROVE  StatesInv'
<1>a. TypeOK /\ CodeRight /\ CacheRight /\ ProgressRight
  BY DEF StatesInv
<1>b. CacheType /\ CodeType /\ SubmitType
  BY <1>a, TypeGroups
<1>c. /\ sub \in Lists /\ sub # NoList /\ Upcoming = {} /\ Release(sub) /\ sub' = NoList
      /\ UNCHANGED <<master, inserted, done, gpu_state>>
  BY <1>b DEF Finish, SubmitType, gpu
<1> DEFINE l == sub
<1>1. /\ \A k \in Lists \ {l} :
           /\ status'[k] = status[k] /\ known'[k] = known[k] /\ initial'[k] = initial[k]
           /\ current'[k] = current[k] /\ code'[k] = code[k] /\ slice'[k] = slice[k]
      /\ code'[l] = <<>> /\ known'[l] = {} /\ status'[l] = "unused"
  BY <1>a, <1>c, ReleaseFacts
<1>2. inserted = {} /\ done = Len(code[l])
  <2>1. inserted = {} /\ ~(done < Len(code[l]))
    BY <1>c DEF Upcoming
  <2>2. done \in 0 .. Len(code[l]) /\ Len(code[l]) \in Nat
    BY <1>a, <1>b, <1>c DEF ProgressRight, CodeType
  <2> QED
    BY <2>1, <2>2
<1>3. MasterRight'
  <2>1. ASSUME NEW r \in Resources, NEW s \in Slices
        PROVE  gpu_state[r][s] = master[r].state
    <3>1. CASE r \notin known[l]
      BY <1>a, <1>c, <3>1 DEF ProgressRight
    <3>2. CASE r \in known[l]
      <4>1. LeftBy(code[l], Len(code[l]), r, s, initial[l][r].state, gpu_state[r][s])
        BY <1>a, <1>c, <1>2, <3>2 DEF ProgressRight
      <4>2. LeftBy(code[l], Len(code[l]), r, s, initial[l][r].state, slice[l][r][s].state)
        BY <1>a, <1>c, <3>2 DEF CodeRight, ListRight
      <4>3. Len(code[l]) \in Nat
        BY <1>b, <1>c DEF CodeType
      <4>4. gpu_state[r][s] = slice[l][r][s].state
        BY <4>1, <4>2, <4>3, LeftByUnique
      <4>5. slice[l][r][s].state = current[l][r].state /\ master[r] = current[l][r]
        BY <1>a, <1>c, <3>2 DEF CacheRight, InStep, ProgressRight
      <4> QED
        BY <4>4, <4>5
    <3> QED
      BY <3>1, <3>2
  <2> QED
    BY <1>c, <2>1 DEF MasterRight
<1>4. CodeRight'
  <2>1. ASSUME NEW k \in Lists, k # l
        PROVE  ListRight(code[k], known[k], initial[k], slice[k])'
    <3>1. ListRight(code[k], known[k], initial[k], slice[k])
      BY <1>a DEF CodeRight
    <3>2. /\ code'[k] = code[k] /\ known'[k] = known[k]
          /\ initial'[k] = initial[k] /\ slice'[k] = slice[k]
      BY <1>1, <2>1
    <3> QED
      BY <3>1, <3>2
  <2>2. ListRight(code'[l], known'[l], initial'[l], slice'[l])
    BY <1>1, EmptyListRight
  <2>3. ASSUME NEW k \in Lists
        PROVE  ListRight(code'[k], known'[k], initial'[k], slice'[k])
    BY <2>1, <2>2
  <2> QED
    BY <2>3 DEF CodeRight
<1>5. CacheRight'
  <2>1. ASSUME NEW k \in Lists, status'[k] = "recorded", NEW r \in known'[k]
        PROVE  InStep(k, r)'
    BY <1>a, <1>1, <2>1 DEF CacheRight, InStep
  <2> QED
    BY <2>1 DEF CacheRight
<1>6. ProgressRight' /\ (sub = NoList => inserted = {})'
  BY <1>c, <1>2 DEF ProgressRight
<1> QED
  BY <1>3, <1>4, <1>5, <1>6 DEF StatesInv

\* What the GPU executes next.
LEMMA UpcomingFacts ==
  ASSUME StatesInv, Upcoming # {}
  PROVE  /\ sub \in Lists /\ sub # NoList
         /\ \/ inserted # {} /\ Upcoming = inserted /\ done = 0
            \/ /\ inserted = {} /\ Upcoming = {code[sub][done + 1]}
               /\ done \in Nat /\ done + 1 \in 1 .. Len(code[sub])
               /\ code[sub][done + 1] \in Command
<1>a. TypeOK /\ ProgressRight
  BY DEF StatesInv
<1>b. CodeType /\ SubmitType
  BY <1>a, TypeGroups
<1>1. sub \in Lists /\ sub # NoList
  BY <1>b DEF Upcoming, SubmitType
<1>2. CASE inserted # {}
  BY <1>a, <1>1, <1>2 DEF Upcoming, ProgressRight
<1>3. CASE inserted = {}
  <2>1. done < Len(code[sub]) /\ Upcoming = {code[sub][done + 1]}
    BY <1>1, <1>3 DEF Upcoming
  <2>2. done \in Nat /\ code[sub] \in Seq(Command)
    BY <1>b, <1>1 DEF SubmitType, CodeType
  <2>3. done + 1 \in 1 .. Len(code[sub])
    BY <2>1, <2>2
  <2>4. code[sub][done + 1] \in Command
    BY <2>2, <2>3
  <2> QED
    BY <1>1, <1>3, <2>1, <2>2, <2>3, <2>4
<1> QED
  BY <1>2, <1>3

LEMMA StatesInvImpliesBefore == StatesInv => BeforeStatesRight
<1> SUFFICES ASSUME StatesInv, NEW c \in Upcoming, NEW s \in c.slices
             PROVE  gpu_state[c.res][s] = c.before.state
  BY DEF BeforeStatesRight
<1>a. TypeOK /\ CodeRight /\ ProgressRight
  BY DEF StatesInv
<1>b. sub \in Lists /\ sub # NoList /\ c \in Command
  BY <1>a, UpcomingFacts, UpcomingType
<1>c. s \in Slices /\ Concerns(c, c.res, s)
  BY <1>b, CommandFacts DEF Concerns
<1>1. CASE inserted # {} /\ Upcoming = inserted
  <2>1. c \in inserted /\ c.res \in known[sub]
    BY <1>a, <1>b, <1>1 DEF ProgressRight
  <2> QED
    BY <1>a, <1>b, <1>c, <2>1 DEF ProgressRight
<1>2. CASE /\ inserted = {} /\ Upcoming = {code[sub][done + 1]}
           /\ done \in Nat /\ done + 1 \in 1 .. Len(code[sub])
  <2>1. c = code[sub][done + 1] /\ (done + 1) - 1 = done
    BY <1>2
  <2>2. c.res \in known[sub]
    BY <1>a, <1>b, <1>2, <2>1 DEF CodeRight, ListRight
  <2>3. Chained(code[sub], c.res, s, initial[sub][c.res].state)
    BY <1>a, <1>b, <1>c, <2>2 DEF CodeRight, ListRight
  <2>4. LeftBy(code[sub], done, c.res, s, initial[sub][c.res].state, c.before.state)
    BY <1>c, <1>2, <2>1, <2>3 DEF Chained
  <2>5. LeftBy(code[sub], done, c.res, s, initial[sub][c.res].state, gpu_state[c.res][s])
    BY <1>a, <1>b, <1>c, <1>2, <2>2 DEF ProgressRight
  <2> QED
    BY <1>2, <2>4, <2>5, LeftByUnique
<1> QED
  BY <1>1, <1>2, UpcomingFacts

LEMMA ExecuteStatesInv ==
  ASSUME StatesInv, TypeOK', Execute
  PROVE  StatesInv'
<1>a. TypeOK /\ CodeRight /\ CacheRight /\ ProgressRight
  BY DEF StatesInv
<1>b. CacheType /\ CodeType /\ SubmitType
  BY <1>a, TypeGroups
<1>c. /\ Upcoming # {}
      /\ gpu_state' = [r \in Resources |-> [s \in Slices |->
           IF \E c \in Upcoming : Concerns(c, r, s)
           THEN (CHOOSE c \in Upcoming : Concerns(c, r, s)).after.state
           ELSE gpu_state[r][s]]]
      /\ inserted' = {}
      /\ done' = IF inserted # {} THEN done ELSE done + 1
      /\ UNCHANGED <<master, sub, status, known, initial, current, code, slice>>
  BY DEF Execute, list, cache
<1>d. sub \in Lists /\ sub # NoList
  BY <1>c, UpcomingFacts
<1>e. known[sub] \subseteq Resources
  BY <1>b, <1>d DEF CacheType
<1>1. CodeRight' /\ CacheRight' /\ MasterRight' /\ (sub = NoList => inserted = {})'
  BY <1>a, <1>c, <1>d DEF CodeRight, CacheRight, InStep, MasterRight
<1>2. ASSUME NEW r \in Resources, NEW s \in Slices, \A c \in Upcoming : ~Concerns(c, r, s)
      PROVE  gpu_state'[r][s] = gpu_state[r][s]
  BY <1>c, <1>2
<1>3. ASSUME NEW r \in Resources, NEW s \in Slices, NEW st,
             \E c \in Upcoming : Concerns(c, r, s),
             \A c \in Upcoming : Concerns(c, r, s) => c.after.state = st
      PROVE  gpu_state'[r][s] = st
  BY <1>c, <1>3
<1>4. CASE inserted # {} /\ Upcoming = inserted /\ done = 0
  <2>1. /\ \A c \in inserted : /\ c.res \in known[sub] /\ c.slices = Slices
                               /\ c.after = initial[sub][c.res]
        /\ \A r \in Resources \ known[sub], s \in Slices : gpu_state[r][s] = master[r].state
    BY <1>a, <1>d DEF ProgressRight
  <2>2. \A r \in Resources \ known[sub], s \in Slices : gpu_state'[r][s] = master[r].state
    BY <1>2, <1>4, <2>1 DEF Concerns
  <2>3. ASSUME NEW r \in known[sub], NEW s \in Slices
        PROVE  LeftBy(code[sub], 0, r, s, initial[sub][r].state, gpu_state'[r][s])
    <3>1. \A i \in 1 .. 0 : ~Concerns(code[sub][i], r, s)
      OBVIOUS
    <3>2. CASE \E c \in inserted : c.res = r
      <4>1. \E c \in Upcoming : Concerns(c, r, s)
        BY <1>4, <2>1, <3>2 DEF Concerns
      <4>2. \A c \in Upcoming : Concerns(c, r, s) => c.after.state = initial[sub][r].state
        BY <1>4, <2>1 DEF Concerns
      <4>3. gpu_state'[r][s] = initial[sub][r].state
        BY <1>3, <1>e, <4>1, <4>2
      <4> QED
        BY <3>1, <4>3, LeftByUntouched
    <3>3. CASE ~\E c \in inserted : c.res = r
      <4>1. gpu_state'[r][s] = gpu_state[r][s]
        BY <1>2, <1>4, <1>e, <3>3 DEF Concerns
      <4>2. LeftBy(code[sub], 0, r, s, initial[sub][r].state, gpu_state[r][s])
        BY <1>a, <1>d, <1>4, <3>3 DEF ProgressRight
      <4> QED
        BY <4>1, <4>2
    <3> QED
      BY <3>2, <3>3
  <2>4. done' = 0
    BY <1>c, <1>4
  <2>5. ProgressRight'
    <3>1. /\ status[sub] = "recorded" /\ done' \in 0 .. Len(code[sub])
          /\ \A r \in known[sub] : master[r] = current[sub][r]
      BY <1>a, <1>d, <1>4, <2>4 DEF ProgressRight
    <3>2. \A r \in known[sub], s \in Slices :
            LeftBy(code[sub], done', r, s, initial[sub][r].state, gpu_state'[r][s])
      BY <2>3, <2>4
    <3> QED
      BY <1>c, <2>2, <3>1, <3>2 DEF ProgressRight
  <2> QED
    BY <1>1, <2>5 DEF StatesInv
<1>5. CASE /\ inserted = {} /\ Upcoming = {code[sub][done + 1]}
           /\ done \in Nat /\ done + 1 \in 1 .. Len(code[sub])
  <2> DEFINE c == code[sub][done + 1]
  <2>1. c.res \in known[sub] /\ Upcoming = {c}
    BY <1>a, <1>d, <1>5 DEF CodeRight, ListRight
  <2>2. \A r \in Resources \ known[sub], s \in Slices : gpu_state'[r][s] = master[r].state
    <3>1. \A r \in Resources \ known[sub], s \in Slices : gpu_state[r][s] = master[r].state
      BY <1>a, <1>d DEF ProgressRight
    <3>2. \A r \in Resources \ known[sub], s \in Slices : ~Concerns(c, r, s)
      BY <2>1 DEF Concerns
    <3> QED
      BY <1>2, <2>1, <3>1, <3>2
  <2>3. ASSUME NEW r \in known[sub], NEW s \in Slices
        PROVE  LeftBy(code[sub], done + 1, r, s, initial[sub][r].state, gpu_state'[r][s])
    <3>1. LeftBy(code[sub], done, r, s, initial[sub][r].state, gpu_state[r][s])
      BY <1>a, <1>d, <1>5 DEF ProgressRight
    <3>2. CASE Concerns(c, r, s)
      <4>1. gpu_state'[r][s] = c.after.state
        BY <1>3, <1>e, <2>1, <3>2
      <4> QED
        BY <1>5, <3>1, <3>2, <4>1, LeftByStep
    <3>3. CASE ~Concerns(c, r, s)
      <4>1. gpu_state'[r][s] = gpu_state[r][s]
        BY <1>2, <1>e, <2>1, <3>3
      <4> QED
        BY <1>5, <3>1, <3>3, <4>1, LeftByStep
    <3> QED
      BY <3>2, <3>3
  <2>4. done' = done + 1 /\ done + 1 \in 0 .. Len(code[sub])
    <3>1. Len(code[sub]) \in Nat
      BY <1>b, <1>d DEF CodeType
    <3> QED
      BY <1>c, <1>5, <3>1
  <2>5. ProgressRight'
    <3>1. /\ status[sub] = "recorded" /\ done' \in 0 .. Len(code[sub])
          /\ \A r \in known[sub] : master[r] = current[sub][r]
      BY <1>a, <1>d, <2>4 DEF ProgressRight
    <3>2. \A r \in known[sub], s \in Slices :
            LeftBy(code[sub], done', r, s, initial[sub][r].state, gpu_state'[r][s])
      BY <2>3, <2>4
    <3> QED
      BY <1>c, <2>2, <3>1, <3>2 DEF ProgressRight
  <2> QED
    BY <1>1, <2>5 DEF StatesInv
<1> QED
  BY <1>c, <1>4, <1>5, UpcomingFacts

LEMMA InitStatesInv == Init => StatesInv
<1> SUFFICES ASSUME Init
             PROVE  StatesInv
  OBVIOUS
<1>1. CodeRight
  BY EmptyListRight DEF Init, CodeRight
<1>2. CacheRight /\ ProgressRight /\ MasterRight /\ (sub = NoList => inserted = {})
  BY DEF Init, CacheRight, ProgressRight, MasterRight
<1> QED
  BY <1>1, <1>2, InitTypeOK DEF StatesInv

LEMMA StatesInvInductive == StatesInv /\ [Next]_vars => StatesInv'
<1> SUFFICES ASSUME StatesInv, [Next]_vars
             PROVE  StatesInv'
  OBVIOUS
<1>1. TypeOK'
  BY TypeInductive DEF StatesInv
<1>2. CASE UNCHANGED vars
  BY <1>1, <1>2 DEF StatesInv, CodeRight, CacheRight, InStep, ProgressRight, MasterRight,
                    vars, list, cache, gpu
<1> QED
  BY <1>1, <1>2, RecordStatesInv, DiscardStatesInv, SubmitStatesInv, ExecuteStatesInv,
     FinishStatesInv DEF Next

\* In every behaviour each command list names the state it finds, the cache knows the state it
\* leaves, and the master states are what the GPU has come to.
THEOREM StatesInvCorrect == Spec => []StatesInv
  BY InitStatesInv, StatesInvInductive, PTL DEF Spec

\* Whatever lists are recorded in which order, and submitted in another or discarded: every
\* barrier names the state its resource is in, and all work finds the state that was asked for.
THEOREM BeforeStatesCorrect == Spec => []BeforeStatesRight
  BY StatesInvCorrect, StatesInvImpliesBefore, PTL

\* Between two lists the master states are the states of the resources.
THEOREM MasterCorrect == Spec => []MasterRight
<1>1. StatesInv => MasterRight
  BY DEF StatesInv
<1> QED
  BY <1>1, StatesInvCorrect, PTL

-----------------------------------------------------------------------------
(* The capacity of the barrier bundle.                                     *)

CacheFits ==
  \A l \in Lists : IsFiniteSet(known[l]) /\ Cardinality(known[l]) <= MaxEntries

LEMMA CacheFitsInductive == TypeOK /\ CacheFits /\ [Next]_vars => CacheFits'
<1> SUFFICES ASSUME TypeOK, CacheFits, [Next]_vars
             PROVE  CacheFits'
  OBVIOUS
<1>a. known \in [Lists -> SUBSET Resources] /\ sub \in Lists \union {NoList} /\ MaxEntries \in Nat
  BY SizesAssumption DEF TypeOK
<1>1. ASSUME UNCHANGED known
      PROVE  CacheFits'
  BY <1>1 DEF CacheFits
<1>2. ASSUME NEW l \in Lists, EmptyCache(l)
      PROVE  CacheFits'
  BY <1>a, <1>2, FS_EmptySet DEF CacheFits, EmptyCache
<1>3. ASSUME NEW l \in Lists, NEW r \in Resources, NEW t \in Targets, Transition(l, r, t)
      PROVE  CacheFits'
  <2>1. CASE CacheFull(l, r) /\ UNCHANGED list
    BY <1>1, <2>1 DEF list, cache
  <2>2. CASE ~CacheFull(l, r)
    <3>1. known' = [known EXCEPT ![l] = @ \union {r}]
      BY <1>3, <2>2 DEF Transition
    <3>2. IsFiniteSet(known[l]) /\ Cardinality(known[l]) <= MaxEntries /\ Cardinality(known[l]) \in Nat
      BY FS_CardinalityType DEF CacheFits
    <3>3. r \in known[l] \/ Cardinality(known[l]) # MaxEntries
      BY <2>2 DEF CacheFull
    <3>4. /\ IsFiniteSet(known[l] \union {r})
          /\ Cardinality(known[l] \union {r}) =
               IF r \in known[l] THEN Cardinality(known[l]) ELSE Cardinality(known[l]) + 1
      BY <3>2, FS_AddElement
    <3>5. Cardinality(known[l] \union {r}) <= MaxEntries
      BY <1>a, <3>2, <3>3, <3>4
    <3> QED
      BY <1>a, <3>1, <3>4, <3>5 DEF CacheFits
  <2> QED
    BY <1>3, <2>1, <2>2 DEF Transition
<1>4. ASSUME NEW l \in Lists, Record(l)
      PROVE  CacheFits'
  BY <1>1, <1>2, <1>3, <1>4
  DEF Record, BeginList, EndList, ResetState, TransitionSlice, cache
<1>5. CASE Finish
  BY <1>a, <1>2, <1>5 DEF Finish, Release
<1> QED
  BY <1>1, <1>2, <1>4, <1>5 DEF Next, Discard, Release, SubmitList, Execute, vars, list, cache

LEMMA FitStep ==
  ASSUME TypeOK, CacheFits, BarriersFit, BundleSize >= MaxEntries, [Next]_vars
  PROVE  BarriersFit'
<1>a. BundleSize \in Nat /\ MaxEntries \in Nat
  BY SizesAssumption
<1>1. ASSUME NEW l \in Lists
      PROVE  ~TooMany(Missing(l))
  <2>1. /\ IsFiniteSet(known[l]) /\ Cardinality(known[l]) <= MaxEntries
        /\ Cardinality(known[l]) \in Nat
    BY FS_CardinalityType DEF CacheFits
  <2>2. ASSUME NEW rs \in SUBSET known[l]
        PROVE  ~(Cardinality(rs) > BundleSize)
    <3>1. Cardinality(rs) <= Cardinality(known[l]) /\ Cardinality(rs) \in Nat
      BY <2>1, FS_Subset, FS_CardinalityType
    <3> QED
      BY <1>a, <2>1, <3>1
  <2>3. Missing(l) \intersect Images \in SUBSET known[l] /\ Missing(l) \ Images \in SUBSET known[l]
    BY DEF Missing
  <2> QED
    BY <2>2, <2>3 DEF TooMany
<1>2. ASSUME NEW l \in Lists, SubmitList(l)
      PROVE  BarriersFit'
  BY <1>1, <1>2 DEF BarriersFit, SubmitList
<1>3. ASSUME NEW l \in Lists, Record(l)
      PROVE  BarriersFit'
  <2>1. CASE BeginList(l) \/ EndList(l)
    BY <2>1 DEF BarriersFit, BeginList, EndList
  <2>2. ASSUME NEW r \in Resources, NEW t \in Targets, Transition(l, r, t)
        PROVE  BarriersFit'
    BY <2>2 DEF BarriersFit, Transition
  <2>3. ASSUME NEW r \in Resources, NEW t \in Targets, ResetState(l, r, t)
        PROVE  BarriersFit'
    BY <2>3 DEF BarriersFit, ResetState
  <2>4. ASSUME NEW r \in Resources, NEW t \in Targets, NEW s \in Slices, TransitionSlice(l, r, s, t)
        PROVE  BarriersFit'
    BY <2>4 DEF BarriersFit, TransitionSlice
  <2> QED
    BY <1>3, <2>1, <2>2, <2>3, <2>4 DEF Record
<1>4. CASE Execute \/ Finish \/ UNCHANGED vars
  BY <1>4 DEF BarriersFit, Finish, Execute, vars
<1>5. ASSUME NEW l \in Lists, Discard(l)
      PROVE  BarriersFit'
  BY <1>5 DEF BarriersFit, Discard
<1> QED
  BY <1>2, <1>3, <1>4, <1>5 DEF Next

\* If the bundle of barriers a submitted list may need is as large as the state cache, as in
\* BackendD3D12, a list that could be recorded can be submitted.
THEOREM BarriersFitCorrect == BundleSize >= MaxEntries => (Spec => []BarriersFit)
<1> SUFFICES ASSUME BundleSize >= MaxEntries
             PROVE  Spec => []BarriersFit
  OBVIOUS
<1>1. Init => CacheFits /\ BarriersFit
  BY FS_EmptySet, SizesAssumption DEF Init, CacheFits, BarriersFit
<1>2. TypeOK /\ CacheFits /\ BarriersFit /\ [Next]_vars => (CacheFits /\ BarriersFit)'
  BY CacheFitsInductive, FitStep
<1> QED
  BY <1>1, <1>2, TypeCorrect, PTL DEF Spec

-----------------------------------------------------------------------------
(* What a state cache holds belongs to the list being recorded.            *)

\* the resources a sequence of commands is about
About(cs) == {cs[n].res : n \in DOMAIN cs}

CacheOwn == \A l \in Lists : known[l] \subseteq About(code[l])

LEMMA AboutAppend ==
  ASSUME NEW cs \in Seq(Command), NEW ds \in Seq(Command)
  PROVE  About(cs \o ds) = About(cs) \union About(ds)
<1>1. /\ DOMAIN cs = 1 .. Len(cs) /\ DOMAIN ds = 1 .. Len(ds)
      /\ DOMAIN (cs \o ds) = 1 .. Len(cs) + Len(ds)
      /\ Len(cs) \in Nat /\ Len(ds) \in Nat
  OBVIOUS
<1>2. /\ \A n \in 1 .. Len(cs) : (cs \o ds)[n] = cs[n]
      /\ \A n \in 1 .. Len(ds) : (cs \o ds)[Len(cs) + n] = ds[n]
  OBVIOUS
<1>3. About(cs) \subseteq About(cs \o ds)
  BY <1>1, <1>2 DEF About
<1>4. About(ds) \subseteq About(cs \o ds)
  <2> SUFFICES ASSUME NEW n \in 1 .. Len(ds) PROVE ds[n].res \in About(cs \o ds)
    BY <1>1 DEF About
  <2>1. Len(cs) + n \in DOMAIN (cs \o ds)
    BY <1>1
  <2> QED
    BY <1>2, <2>1 DEF About
<1>5. About(cs \o ds) \subseteq About(cs) \union About(ds)
  <2> SUFFICES ASSUME NEW n \in 1 .. Len(cs) + Len(ds)
               PROVE  (cs \o ds)[n].res \in About(cs) \union About(ds)
    BY <1>1 DEF About
  <2>1. CASE n <= Len(cs)
    BY <1>1, <1>2, <2>1 DEF About
  <2>2. CASE n > Len(cs)
    <3>1. PICK m \in 1 .. Len(ds) : n = Len(cs) + m
      <4>1. n - Len(cs) \in 1 .. Len(ds) /\ n = Len(cs) + (n - Len(cs))
        BY <1>1, <2>2
      <4> QED
        BY <4>1
    <3> QED
      BY <1>1, <1>2, <3>1 DEF About
  <2> QED
    BY <1>1, <2>1, <2>2
<1> QED
  BY <1>3, <1>4, <1>5

LEMMA PutOwn ==
  ASSUME TypeOK, CacheOwn, NEW l \in Lists, NEW cs \in Seq(Command), Put(l, cs),
         \A m \in Lists : known'[m] \subseteq known[m] \union (IF m = l THEN About(cs) ELSE {})
  PROVE  CacheOwn'
<1>1. code \in [Lists -> Seq(Command)]
  BY DEF TypeOK
<1>2. \A m \in Lists : code'[m] = IF m = l THEN code[l] \o cs ELSE code[m]
  BY <1>1 DEF Put
<1>3. About(code[l] \o cs) = About(code[l]) \union About(cs)
  BY <1>1, AboutAppend
<1>4. ASSUME NEW m \in Lists
      PROVE  known'[m] \subseteq About(code'[m])
  BY <1>2, <1>3 DEF CacheOwn
<1> QED
  BY <1>4 DEF CacheOwn, About

LEMMA CacheOwnInductive == TypeOK /\ CacheOwn /\ [Next]_vars => CacheOwn'
<1> SUFFICES ASSUME TypeOK, CacheOwn, [Next]_vars PROVE CacheOwn'
  OBVIOUS
<1>a. /\ known \in [Lists -> SUBSET Resources] /\ sub \in Lists \union {NoList}
      /\ code \in [Lists -> Seq(Command)]
      /\ current \in [Lists -> [Resources -> AllTargets]]
      /\ slice \in [Lists -> [Resources -> [Slices -> AllTargets]]]
  BY DEF TypeOK
<1>1. ASSUME UNCHANGED <<known, code>>
      PROVE  CacheOwn'
  BY <1>1 DEF CacheOwn, About
<1>2. ASSUME NEW l \in Lists, EmptyCache(l), code' = [code EXCEPT ![l] = <<>>]
      PROVE  CacheOwn'
  <2>1. \A m \in Lists : /\ known'[m] = IF m = l THEN {} ELSE known[m]
                         /\ m # l => code'[m] = code[m]
    BY <1>a, <1>2 DEF EmptyCache
  <2> QED
    BY <2>1 DEF CacheOwn, About
<1>3. ASSUME NEW l \in Lists, NEW r \in Resources, NEW t \in Targets, Transition(l, r, t)
      PROVE  CacheOwn'
  <2>1. CASE CacheFull(l, r)
    BY <1>1, <1>3, <2>1 DEF Transition, list, cache
  <2>2. CASE ~CacheFull(l, r)
    <3> DEFINE front == IF r \in known[l] THEN BarrierIfNeeded(r, Slices, current[l][r], t) ELSE <<>>
               cs == front \o <<Work(r, Slices, t)>>
    <3>1. known' = [known EXCEPT ![l] = @ \union {r}] /\ Put(l, cs)
      BY <1>3, <2>2 DEF Transition
    <3>2. /\ front \in Seq(Command) /\ <<Work(r, Slices, t)>> \in Seq(Command)
          /\ Work(r, Slices, t).res = r
      <4>1. /\ t \in AllTargets /\ current[l][r] \in AllTargets /\ Slices \in SUBSET Slices
        BY <1>a, TargetFacts
      <4>2. /\ Barrier(r, Slices, current[l][r], t) \in Command
            /\ Work(r, Slices, t) \in Command /\ Work(r, Slices, t).res = r
        BY <4>1, CommandFacts DEF Work
      <4> QED
        BY <4>2 DEF BarrierIfNeeded
    <3> HIDE DEF front
    <3>3. cs \in Seq(Command) /\ r \in About(cs)
      <4>1. r \in About(<<Work(r, Slices, t)>>)
        BY <3>2 DEF About
      <4>2. About(cs) = About(front) \union About(<<Work(r, Slices, t)>>)
        BY <3>2, AboutAppend
      <4>3. cs \in Seq(Command)
        BY <3>2
      <4> QED
        BY <4>1, <4>2, <4>3
    <3> HIDE DEF cs
    <3>4. \A m \in Lists : known'[m] \subseteq known[m] \union (IF m = l THEN About(cs) ELSE {})
      BY <1>a, <3>1, <3>3
    <3> QED
      BY <3>1, <3>3, <3>4, PutOwn
  <2> QED
    BY <2>1, <2>2
<1>4. ASSUME NEW l \in Lists, NEW r \in Resources, NEW t \in Targets, NEW s \in Slices,
             TransitionSlice(l, r, s, t)
      PROVE  CacheOwn'
  <2> DEFINE cs == <<Barrier(r, {s}, slice[l][r][s], t), Work(r, {s}, t)>>
  <2>1. known' = known /\ Put(l, cs)
    BY <1>4 DEF TransitionSlice, cache
  <2>2. cs \in Seq(Command)
    <3>1. t \in AllTargets /\ slice[l][r][s] \in AllTargets /\ {s} \in SUBSET Slices
      BY <1>a, TargetFacts
    <3>2. Barrier(r, {s}, slice[l][r][s], t) \in Command /\ Work(r, {s}, t) \in Command
      BY <3>1, CommandFacts DEF Work
    <3> QED
      BY <3>2
  <2> HIDE DEF cs
  <2> QED
    BY <2>1, <2>2, PutOwn
<1>5. ASSUME NEW l \in Lists, Record(l)
      PROVE  CacheOwn'
  BY <1>1, <1>2, <1>3, <1>4, <1>5 DEF Record, BeginList, EndList, ResetState, cache
<1>6. CASE Finish
  BY <1>a, <1>2, <1>6 DEF Finish, Release
<1>7. ASSUME NEW l \in Lists, Discard(l)
      PROVE  CacheOwn'
  BY <1>2, <1>7 DEF Discard, Release
<1> QED
  BY <1>1, <1>5, <1>6, <1>7 DEF Next, SubmitList, Execute, vars, list, cache

LEMMA CacheFullStep ==
  ASSUME TypeOK, CacheOwn, CacheFullRight, [Next]_vars
  PROVE  CacheFullRight'
<1>1. ASSUME NEW l \in Lists, Cardinality(known[l]) = MaxEntries
      PROVE  Cardinality(About(code[l])) >= MaxEntries
  <2>1. code[l] \in Seq(Command) /\ known[l] \subseteq About(code[l])
    BY DEF TypeOK, CacheOwn
  <2>2. DOMAIN code[l] = 1 .. Len(code[l]) /\ Len(code[l]) \in Nat
    BY <2>1
  <2>3. IsFiniteSet(DOMAIN code[l])
    BY <2>2, FS_Interval
  <2> DEFINE f == [n \in DOMAIN code[l] |-> code[l][n].res]
  <2>4. f \in Surjection(DOMAIN code[l], About(code[l]))
    BY DEF Surjection, About
  <2>5. IsFiniteSet(About(code[l]))
    BY <2>3, <2>4, FS_Surjection
  <2>6. Cardinality(known[l]) <= Cardinality(About(code[l]))
    BY <2>1, <2>5, FS_Subset
  <2>7. Cardinality(About(code[l])) \in Nat /\ MaxEntries \in Nat
    BY <2>5, FS_CardinalityType, SizesAssumption
  <2> QED
    BY <1>1, <2>6, <2>7
<1>2. ASSUME assertion' = "state cache full", assertion = "none"
      PROVE  \E l \in Lists : code' = code /\ Cardinality(known[l]) = MaxEntries
  <2>1. ASSUME NEW l \in Lists, Record(l)
        PROVE  code' = code /\ Cardinality(known[l]) = MaxEntries
    <3>1. PICK r \in Resources, t \in Targets : Transition(l, r, t)
      BY <1>2, <2>1 DEF Record, BeginList, EndList, ResetState, TransitionSlice
    <3> QED
      BY <1>2, <3>1 DEF Transition, CacheFull, list
  <2>2. \E l \in Lists : Record(l)
    BY <1>2 DEF Next, Discard, SubmitList, Execute, Finish, vars
  <2> QED
    BY <2>1, <2>2
<1>3. CASE assertion = "none"
  <2> SUFFICES ASSUME assertion' = "state cache full"
               PROVE  \E l \in Lists : Cardinality(About(code'[l])) >= MaxEntries
    BY DEF CacheFullRight, About
  <2> QED
    BY <1>1, <1>2, <1>3
<1>4. CASE assertion # "none"
  <2>1. UNCHANGED <<assertion, code>>
    BY <1>4 DEF Next, vars, list
  <2> QED
    BY <2>1 DEF CacheFullRight
<1> QED
  BY <1>3, <1>4

\* A state cache is full only of what its own list transitions: the cache is emptied whenever the
\* list's handle is given up, so none of its room is lost to an earlier list.
THEOREM CacheFullCorrect == Spec => []CacheFullRight
<1>1. Init => CacheOwn /\ CacheFullRight
  BY DEF Init, CacheOwn, CacheFullRight
<1>2. TypeOK /\ CacheOwn /\ CacheFullRight /\ [Next]_vars => (CacheOwn /\ CacheFullRight)'
  BY CacheOwnInductive, CacheFullStep
<1> QED
  BY <1>1, <1>2, TypeCorrect, PTL DEF Spec

-----------------------------------------------------------------------------
(* Without more resources than that, no assertion.                         *)

\* all resources have room in one state cache, and their barriers in one bundle
ResourcesFit ==
  /\ IsFiniteSet(Resources) /\ Cardinality(Resources) <= MaxEntries
  /\ Cardinality(Resources \intersect Images) <= BundleSize
  /\ Cardinality(Resources \ Images) <= BundleSize

LEMMA NoneFull ==
  ASSUME ResourcesFit, TypeOK, NEW l \in Lists, NEW r \in Resources
  PROVE  ~CacheFull(l, r)
<1>1. SUFFICES ASSUME r \notin known[l], Cardinality(known[l]) = MaxEntries PROVE FALSE
  BY DEF CacheFull
<1>2. known[l] \in SUBSET Resources /\ MaxEntries \in Nat
  BY SizesAssumption DEF TypeOK
<1>3. IsFiniteSet(known[l])
  BY <1>2, FS_Subset DEF ResourcesFit
<1>4. IsFiniteSet(known[l] \union {r}) /\ Cardinality(known[l] \union {r}) = MaxEntries + 1
  BY <1>1, <1>3, FS_AddElement
<1>5. Cardinality(known[l] \union {r}) <= Cardinality(Resources) /\ Cardinality(Resources) \in Nat
  <2>1. known[l] \union {r} \in SUBSET Resources
    BY <1>2
  <2> QED
    BY <2>1, FS_Subset, FS_CardinalityType DEF ResourcesFit
<1> QED
  BY <1>2, <1>4, <1>5 DEF ResourcesFit

LEMMA NoneTooMany ==
  ASSUME ResourcesFit, TypeOK, NEW l \in Lists
  PROVE  ~TooMany(Missing(l))
<1>1. BundleSize \in Nat /\ Missing(l) \in SUBSET Resources
  BY SizesAssumption DEF TypeOK, Missing
<1>2. ASSUME NEW S \in SUBSET Resources, NEW T \in SUBSET S, Cardinality(S) <= BundleSize
      PROVE  ~(Cardinality(T) > BundleSize)
  <2>1. IsFiniteSet(S)
    BY FS_Subset DEF ResourcesFit
  <2>2. Cardinality(T) <= Cardinality(S) /\ Cardinality(T) \in Nat /\ Cardinality(S) \in Nat
    BY <2>1, FS_Subset, FS_CardinalityType
  <2> QED
    BY <1>1, <1>2, <2>2
<1>3. ~(Cardinality(Missing(l) \intersect Images) > BundleSize)
  <2>1. Missing(l) \intersect Images \in SUBSET (Resources \intersect Images)
    BY <1>1
  <2> QED
    BY <1>2, <2>1 DEF ResourcesFit
<1>4. ~(Cardinality(Missing(l) \ Images) > BundleSize)
  <2>1. Missing(l) \ Images \in SUBSET (Resources \ Images)
    BY <1>1
  <2> QED
    BY <1>2, <2>1 DEF ResourcesFit
<1> QED
  BY <1>3, <1>4 DEF TooMany

\* No assertion of the two caches fires, whatever is recorded and submitted, where no list can
\* transition more resources than they have room for (vk_incomplete_state_cache.hh:45).
THEOREM NeverAssertsCorrect == ResourcesFit => (Spec => []NeverAsserts)
<1> SUFFICES ASSUME ResourcesFit
             PROVE  Spec => []NeverAsserts
  OBVIOUS
<1>1. Init => NeverAsserts
  BY DEF Init, NeverAsserts
<1>2. TypeOK /\ NeverAsserts /\ [Next]_vars => NeverAsserts'
  <2> SUFFICES ASSUME TypeOK, NeverAsserts, [Next]_vars
               PROVE  NeverAsserts'
    OBVIOUS
  <2>1. ASSUME UNCHANGED assertion
        PROVE  NeverAsserts'
    BY <2>1 DEF NeverAsserts
  <2>2. ASSUME NEW l \in Lists, SubmitList(l)
        PROVE  NeverAsserts'
    <3>1. UNCHANGED assertion
      BY <2>2, NoneTooMany DEF SubmitList
    <3> QED
      BY <2>1, <3>1
  <2>3. ASSUME NEW l \in Lists, Record(l)
        PROVE  NeverAsserts'
    <3>1. ASSUME NEW r \in Resources, NEW t \in Targets, Transition(l, r, t)
          PROVE  NeverAsserts'
      <4>1. UNCHANGED assertion
        BY <3>1, NoneFull DEF Transition
      <4> QED
        BY <2>1, <4>1
    <3> QED
      BY <2>1, <2>3, <3>1 DEF Record, BeginList, EndList, ResetState, TransitionSlice
  <2>4. ASSUME NEW l \in Lists, Discard(l)
        PROVE  NeverAsserts'
    BY <2>1, <2>4 DEF Discard
  <2>5. CASE Execute \/ Finish \/ UNCHANGED vars
    BY <2>1, <2>5 DEF Execute, Finish, vars
  <2> QED
    BY <2>2, <2>3, <2>4, <2>5 DEF Next
<1> QED
  BY <1>1, <1>2, TypeCorrect, PTL DEF Spec

-----------------------------------------------------------------------------
(* The pipeline stages.                                                    *)

\* a state is always asked for with the same stages
OneDependencyPerState ==
  \A t, u \in AllTargets : t.state = u.state => t = u

\* What is in a state is visible to the stages of that state, and to them only has it been used by.
StagesInv ==
  \A r \in Resources, s \in Slices, t \in AllTargets :
    gpu_state[r][s] = t.state =>
      /\ visible[r][s] = t.stages
      /\ accessed[r][s] \subseteq t.stages

LEMMA UpcomingUnique ==
  ASSUME StatesInv, NEW c \in Upcoming, NEW d \in Upcoming, c.res = d.res
  PROVE  c = d
<1>1. /\ sub # NoList
      /\ \/ inserted # {} /\ Upcoming = inserted
         \/ Upcoming = {code[sub][done + 1]}
  BY UpcomingFacts
<1>2. CASE Upcoming = inserted
  BY <1>1, <1>2 DEF StatesInv, ProgressRight
<1>3. CASE Upcoming = {code[sub][done + 1]}
  BY <1>3
<1> QED
  BY <1>1, <1>2, <1>3

\* what Execute does to a slice that a command concerns
LEMMA Executes ==
  ASSUME StatesInv, Execute, NEW r \in Resources, NEW s \in Slices
  PROVE  /\ \A c \in Upcoming : Concerns(c, r, s) =>
              /\ gpu_state'[r][s] = c.after.state
              /\ visible'[r][s] = IF IsWork(c) THEN visible[r][s] ELSE c.after.stages
              /\ accessed'[r][s] = IF IsWork(c) THEN accessed[r][s] \union c.after.stages ELSE {}
         /\ (\A c \in Upcoming : ~Concerns(c, r, s)) =>
              /\ gpu_state'[r][s] = gpu_state[r][s]
              /\ visible'[r][s] = visible[r][s]
              /\ accessed'[r][s] = accessed[r][s]
<1>1. ASSUME NEW c \in Upcoming, Concerns(c, r, s)
      PROVE  /\ gpu_state'[r][s] = c.after.state
             /\ visible'[r][s] = IF IsWork(c) THEN visible[r][s] ELSE c.after.stages
             /\ accessed'[r][s] = IF IsWork(c) THEN accessed[r][s] \union c.after.stages ELSE {}
  <2>1. \A d \in Upcoming : Concerns(d, r, s) => d = c
    BY <1>1, UpcomingUnique DEF Concerns
  <2>2. (CHOOSE d \in Upcoming : Concerns(d, r, s)) = c
    BY <1>1, <2>1
  <2>3. gpu_state'[r][s] = c.after.state
    BY <1>1, <2>2 DEF Execute
  <2>4. visible'[r][s] = IF \E d \in Upcoming : Concerns(d, r, s) /\ ~IsWork(d)
                         THEN c.after.stages ELSE visible[r][s]
    BY <2>2 DEF Execute
  <2>5. accessed'[r][s] = IF IsWork(c) THEN accessed[r][s] \union c.after.stages ELSE {}
    BY <1>1, <2>2 DEF Execute
  <2>6. (\E d \in Upcoming : Concerns(d, r, s) /\ ~IsWork(d)) <=> ~IsWork(c)
    BY <1>1, <2>1
  <2> QED
    BY <2>3, <2>4, <2>5, <2>6
<1>2. ASSUME \A c \in Upcoming : ~Concerns(c, r, s)
      PROVE  /\ gpu_state'[r][s] = gpu_state[r][s]
             /\ visible'[r][s] = visible[r][s]
             /\ accessed'[r][s] = accessed[r][s]
  BY <1>2 DEF Execute
<1> QED
  BY <1>1, <1>2

LEMMA StagesInvInductive ==
  OneDependencyPerState => (StatesInv /\ StagesInv /\ [Next]_vars => StagesInv')
<1> SUFFICES ASSUME OneDependencyPerState, StatesInv, StagesInv, [Next]_vars
             PROVE  StagesInv'
  OBVIOUS
<1>1. ASSUME UNCHANGED gpu
      PROVE  StagesInv'
  BY <1>1 DEF StagesInv, gpu
<1>2. CASE Execute
  <2> SUFFICES ASSUME NEW r \in Resources, NEW s \in Slices, NEW t \in AllTargets, gpu_state'[r][s] = t.state
               PROVE  visible'[r][s] = t.stages /\ accessed'[r][s] \subseteq t.stages
    BY DEF StagesInv
  <2>1. ASSUME NEW c \in Upcoming, Concerns(c, r, s)
        PROVE  visible'[r][s] = t.stages /\ accessed'[r][s] \subseteq t.stages
    <3>1. c \in Command
      BY <2>1, UpcomingType DEF StatesInv
    <3>2. c.before \in AllTargets /\ c.after \in AllTargets /\ s \in c.slices /\ c.res = r
      BY <2>1, <3>1, CommandFacts DEF Concerns
    <3>3. /\ gpu_state'[r][s] = c.after.state
          /\ visible'[r][s] = IF IsWork(c) THEN visible[r][s] ELSE c.after.stages
          /\ accessed'[r][s] = IF IsWork(c) THEN accessed[r][s] \union c.after.stages ELSE {}
      BY <1>2, <2>1, Executes
    <3>4. c.after = t
      BY <3>2, <3>3 DEF OneDependencyPerState
    <3>5. CASE ~IsWork(c)
      BY <3>3, <3>4, <3>5
    <3>6. CASE IsWork(c)
      <4>1. gpu_state[r][s] = c.before.state /\ c.before = t
        BY <3>2, <3>4, <3>6, StatesInvImpliesBefore DEF BeforeStatesRight, IsWork
      <4>2. visible[r][s] = t.stages /\ accessed[r][s] \subseteq t.stages
        BY <4>1 DEF StagesInv
      <4> QED
        BY <3>3, <3>4, <3>6, <4>2
    <3> QED
      BY <3>5, <3>6
  <2>2. CASE \A c \in Upcoming : ~Concerns(c, r, s)
    BY <1>2, <2>2, Executes DEF StagesInv
  <2> QED
    BY <2>1, <2>2
<1>3. ASSUME NEW l \in Lists, Record(l) \/ Discard(l) \/ SubmitList(l)
      PROVE  UNCHANGED gpu
  BY <1>3 DEF Record, BeginList, EndList, Transition, ResetState, TransitionSlice, Discard, SubmitList
<1>4. CASE Finish \/ UNCHANGED vars
  BY <1>1, <1>4 DEF Finish, vars
<1> QED
  BY <1>1, <1>2, <1>3, <1>4 DEF Next

\* All work sees what the barrier before it made visible, and every barrier waits for all work
\* before it, if no state is asked for with different stages (commands.hh:102): then a transition
\* that is dropped, as it changes no state, changes no stages.
THEOREM StagesCorrect == OneDependencyPerState => (Spec => []StagesOrdered)
<1> SUFFICES ASSUME OneDependencyPerState
             PROVE  Spec => []StagesOrdered
  OBVIOUS
<1>1. Init => StagesInv
  <2> SUFFICES ASSUME Init, NEW r \in Resources, NEW s \in Slices, NEW t \in AllTargets, gpu_state[r][s] = t.state
               PROVE  visible[r][s] = t.stages /\ accessed[r][s] \subseteq t.stages
    BY DEF StagesInv
  <2>1. /\ gpu_state[r][s] = Undefined.state /\ visible[r][s] = Undefined.stages /\ accessed[r][s] = {}
    BY DEF Init
  <2>2. t = Undefined
    BY <2>1, TargetFacts DEF OneDependencyPerState
  <2> QED
    BY <2>1, <2>2
<1>2. StatesInv /\ StagesInv => StagesOrdered
  <2> SUFFICES ASSUME StatesInv, StagesInv, NEW c \in Upcoming, NEW s \in c.slices
               PROVE  IF IsWork(c) THEN c.after.stages \subseteq visible[c.res][s]
                                   ELSE accessed[c.res][s] \subseteq c.before.stages
    BY DEF StagesOrdered
  <2>1. c \in Command
    BY UpcomingType DEF StatesInv
  <2>2. c.res \in Resources /\ s \in Slices /\ c.before \in AllTargets
    BY <2>1, CommandFacts
  <2>3. gpu_state[c.res][s] = c.before.state
    BY StatesInvImpliesBefore DEF BeforeStatesRight
  <2>4. visible[c.res][s] = c.before.stages /\ accessed[c.res][s] \subseteq c.before.stages
    BY <2>2, <2>3 DEF StagesInv
  <2> QED
    BY <2>4 DEF IsWork
<1>3. StatesInv /\ StagesInv /\ [Next]_vars => StagesInv'
  BY StagesInvInductive
<1> QED
  BY <1>1, <1>2, <1>3, StatesInvCorrect, PTL DEF Spec
=============================================================================
