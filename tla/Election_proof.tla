---------------------------- MODULE Election_proof ----------------------------
(* That Election keeps what it publishes, for any number of frontends, builds,  *)
(* configurations and generations.  The argument: the lock is with whoever may  *)
(* rename, nothing is renamed without its starter's record, and once that record *)
(* is sent a starter ends a child only when the child itself has given up, and  *)
(* a child that has given up is dead.  At the end: the lock is put to use.      *)
EXTENDS Election, SequenceTheorems, TLAPS

Holding == {"locked", "prepared", "uncertain", "serving", "leaving"}
GivenUp == {"aborted", "retry"}

\* What is so of each generation g.
HoldsTheLock(g) == proc[g] \in Holding => lock = g
Staged(g) == proc[g] \in {"prepared", "uncertain"} => g \in tokens
Authorized(g) == proc[g] = "uncertain" \/ canonical = g => control[g] = "commit"
PublishedWasPrepared(g) ==
  canonical = g => proc[g] \in {"uncertain", "serving", "leaving", "dead"}
NotYetBorn(g) == proc[g] = "unborn" => control[g] = "none" /\ said[g] = <<>>
KilledIsDead(g) == g \in killed => proc[g] = "dead"
DoomedIsUnpublished(g) == g \in doomed => proc[g] = "dead" /\ canonical # g
GivenUpIsDead(g) ==
  \A i \in 1..Len(said[g]) : said[g][i] \in GivenUp => proc[g] = "dead"

\* What is so of each frontend f.
ChildIsItsOwn(f) ==
  child[f] # 0 => starter[child[f]] = f /\ proc[child[f]] # "unborn"
NothingSentYet(f) == pc[f] = "waiting" => control[child[f]] = "none"
BuriedIsUnusable(f) ==
  \A g \in buried[f] : (proc[g] # "unborn" /\ Stale(f, g)) \/ Retired(g)

ChildrenInPlace ==
  \A g \in Gen : /\ HoldsTheLock(g) /\ Staged(g) /\ Authorized(g) /\ NotYetBorn(g)
                 /\ PublishedWasPrepared(g) /\ KilledIsDead(g) /\ DoomedIsUnpublished(g)
StartersInPlace == \A f \in Frontend : ChildIsItsOwn(f) /\ NothingSentYet(f)
Burials == \A f \in Frontend : BuriedIsUnusable(f)
Verdicts == \A g \in Gen : GivenUpIsDead(g)

InPlace == /\ ChildrenInPlace /\ StartersInPlace /\ Burials /\ Verdicts
           /\ PublishedIsNeverUndone

IInv == TypeOK /\ InPlace

\* 0 names no generation.
LEMMA GenFacts == Gen \subseteq Nat /\ 0 \notin Gen /\ 0..MaxGen = Gen \cup {0}
BY BoundsAssumption DEF Gen

\* The invariant holds before anything is started.
LEMMA Initially == Init => IInv
<1>. SUFFICES ASSUME Init PROVE IInv
  OBVIOUS
<1>1. TypeOK
  BY BoundsAssumption, NobodyAssumption, GenFacts DEF Init, TypeOK, Phase
<1>2. ChildrenInPlace
  BY GenFacts DEF Init, ChildrenInPlace, HoldsTheLock, Staged, Authorized,
     PublishedWasPrepared,
     NotYetBorn, KilledIsDead, DoomedIsUnpublished, Holding
<1>3. StartersInPlace /\ Burials /\ Verdicts /\ PublishedIsNeverUndone
  BY DEF Init, StartersInPlace, ChildIsItsOwn, NothingSentYet, Burials,
     BuriedIsUnusable, Verdicts, GivenUpIsDead, PublishedIsNeverUndone
<1>. QED  BY <1>1, <1>2, <1>3 DEF IInv, InPlace

(***************************************************************************)
(* What an end and a verdict of a child do                                 *)
(***************************************************************************)

\* A child's end frees the lock if it was its own, and touches no other child.
LEMMA EndsFacts ==
  ASSUME TypeOK, NEW g \in Gen, Ends(g)
  PROVE  /\ proc' \in [Gen -> Phase] /\ lock' \in 0..MaxGen
         /\ lock' # 0 => proc'[lock'] \notin {"unborn", "starting", "dead"}
         /\ proc'[g] = "dead" /\ \A h \in Gen \ {g} : proc'[h] = proc[h]
         /\ lock' # g /\ \A h \in Gen \ {g} : lock' = h <=> lock = h
<1>1. /\ proc' \in [Gen -> Phase] /\ proc'[g] = "dead"
      /\ \A h \in Gen \ {g} : proc'[h] = proc[h]
  BY DEF TypeOK, Ends, Phase
<1>2. /\ lock' \in 0..MaxGen /\ lock' # g /\ (lock' # 0 => lock' = lock)
      /\ \A h \in Gen \ {g} : lock' = h <=> lock = h
  BY GenFacts DEF TypeOK, Ends
<1>3. lock' # 0 => proc'[lock'] \notin {"unborn", "starting", "dead"}
  BY <1>1, <1>2, GenFacts DEF TypeOK
<1>. QED  BY <1>1, <1>2, <1>3

\* A verdict is appended, or lost where nobody reads it.
LEMMA SaysFacts ==
  ASSUME TypeOK, NEW g \in Gen, NEW v \in Verdict, Says(g, v)
  PROVE  /\ said' \in [Gen -> Seq(Verdict)]
         /\ \A h \in Gen \ {g} : said'[h] = said[h]
         /\ said'[g] = said[g] \/ said'[g] = Append(said[g], v)
BY AppendProperties DEF TypeOK, Says

\* A frontend that stops waiting has no child any more.
LEMMA AfterTheStartFacts ==
  ASSUME TypeOK, NEW f \in Frontend, child[f] # 0,
         NEW permanent \in BOOLEAN, AfterTheStart(f, permanent), owner' = owner
  PROVE  /\ pc' \in [Frontend -> {"looking", "contending", "waiting", "awaiting",
                               "settling", "attached", "direct", "dead"}]
         /\ child' \in [Frontend -> 0..MaxGen] /\ owner' \in [Frontend -> 0..MaxGen]
         /\ \A h \in Frontend : /\ (child'[h] # 0) = (pc'[h] \in {"waiting", "awaiting"})
                               /\ (owner'[h] # 0) = (pc'[h] = "attached")
         /\ \A h \in Frontend : pc'[h] = "waiting" => pc[h] = "waiting" /\ child'[h] = child[h]
         /\ child'[f] = 0 /\ \A h \in Frontend \ {f} : child'[h] = child[h]
         /\ said' \in [Gen -> Seq(Verdict)]
         /\ \A h \in Gen : said'[h] = said[h] \/ said'[h] = <<>>
<1>1. said' \in [Gen -> Seq(Verdict)] /\ \A h \in Gen : said'[h] = said[h] \/ said'[h] = <<>>
  BY EmptySeq DEF AfterTheStart, TypeOK
<1>2. \E q \in {"settling", "looking"} : pc' = [pc EXCEPT ![f] = q]
  BY DEF AfterTheStart
<1>. QED  BY <1>1, <1>2, GenFacts DEF AfterTheStart, TypeOK

\* What a frontend does to a child it gives up.
LEMMA AbandonsFacts ==
  ASSUME TypeOK, NEW f \in Frontend, child[f] # 0, NEW staged \in BOOLEAN,
         Abandons(f, staged)
  PROVE  /\ child[f] \in Gen /\ Ends(child[f])
         /\ killed' \subseteq killed \cup {child[f]}
         /\ proc[child[f]] = "dead" => killed' = killed
         /\ doomed' = IF staged THEN doomed \cup {child[f]} ELSE doomed
BY GenFacts DEF TypeOK, Abandons

(***************************************************************************)
(* Types                                                                   *)
(***************************************************************************)

LEMMA LooksTyped ==
  ASSUME NEW f \in Frontend, TypeOK, Looks(f) PROVE TypeOK'
<1>1. /\ pc[f] \in {"looking", "settling"}
      /\ UNCHANGED <<proc, starter, said, control, lock, disk, killed, mishaps>>
  BY DEF Looks
<1>2. CASE FindsNothing(f)
  BY <1>1, <1>2, GenFacts DEF TypeOK, disk, FindsNothing, Onward
<1>3. CASE FindsRefused(f)
  BY <1>1, <1>3, GenFacts DEF TypeOK, disk, FindsRefused, Onward, Buries, Probes,
     Published
<1>4. CASE FindsSilent(f)
  BY <1>1, <1>4, GenFacts DEF TypeOK, disk, FindsSilent, Onward
<1>5. CASE FindsAnswering(f)
  BY <1>1, <1>5, GenFacts DEF TypeOK, disk, FindsAnswering, Probes, Published
<1>6. CASE LeavesTheRivalAlone(f)
  BY <1>1, <1>6, GenFacts DEF TypeOK, disk, LeavesTheRivalAlone
<1>7. CASE FindsStale(f)
  <2>1. canonical \in Gen
    BY <1>7, GenFacts DEF FindsStale, Published, TypeOK
  <2>2. turnover' \subseteq Gen
    BY <1>7, <2>1 DEF FindsStale, TypeOK
  <2>3. buried' \in [Frontend -> SUBSET Gen] /\ asked' \in [Frontend -> BOOLEAN]
    BY <1>7, <2>1 DEF FindsStale, TypeOK, Buries
  <2>4. /\ pc' \in [Frontend -> {"looking", "contending", "waiting", "awaiting",
                              "settling", "attached", "direct", "dead"}]
        /\ child' \in [Frontend -> 0..MaxGen] /\ owner' \in [Frontend -> 0..MaxGen]
        /\ \A h \in Frontend : /\ (child'[h] # 0) = (pc'[h] \in {"waiting", "awaiting"})
                              /\ (owner'[h] # 0) = (pc'[h] = "attached")
    BY <1>1, <1>7 DEF FindsStale, TypeOK, Onward
  <2>. QED  BY <1>1, <1>7, <2>2, <2>3, <2>4 DEF FindsStale, TypeOK, disk
<1>. QED  BY <1>2, <1>3, <1>4, <1>5, <1>6, <1>7 DEF Looks

LEMMA MovesTyped ==
  ASSUME NEW f \in Frontend, TypeOK,
         RunsOutOfTime(f) \/ LosesItsOwner(f) \/ HoldsBack(f) \/ Spawns(f)
  PROVE  TypeOK'
<1>1. CASE RunsOutOfTime(f)
  BY <1>1, GenFacts DEF TypeOK, RunsOutOfTime, disk, children
<1>2. CASE HoldsBack(f)
  BY <1>2, GenFacts DEF TypeOK, HoldsBack, disk, children
<1>3. CASE LosesItsOwner(f)
  <2>1. buried' \in [Frontend -> SUBSET Gen] /\ asked' \in [Frontend -> BOOLEAN]
    BY <1>3, GenFacts DEF LosesItsOwner, Buries, TypeOK
  <2>2. /\ pc' \in [Frontend -> {"looking", "contending", "waiting", "awaiting",
                              "settling", "attached", "direct", "dead"}]
        /\ child' \in [Frontend -> 0..MaxGen] /\ owner' \in [Frontend -> 0..MaxGen]
        /\ \A h \in Frontend : /\ (child'[h] # 0) = (pc'[h] \in {"waiting", "awaiting"})
                              /\ (owner'[h] # 0) = (pc'[h] = "attached")
    BY <1>3 DEF LosesItsOwner, TypeOK
  <2>. QED  BY <1>3, <2>1, <2>2 DEF LosesItsOwner, TypeOK, disk, children
<1>4. CASE Spawns(f)
  <2>1. /\ pc' \in [Frontend -> {"looking", "contending", "waiting", "awaiting",
                              "settling", "attached", "direct", "dead"}]
        /\ child' \in [Frontend -> 0..MaxGen] /\ owner' \in [Frontend -> 0..MaxGen]
        /\ \A h \in Frontend : /\ (child'[h] # 0) = (pc'[h] \in {"waiting", "awaiting"})
                              /\ (owner'[h] # 0) = (pc'[h] = "attached")
    BY <1>4, GenFacts DEF Spawns, TypeOK
  <2>2. /\ proc' \in [Gen -> Phase] /\ starter' \in [Gen -> Frontend \cup {Nobody}]
        /\ lock # 0 => proc'[lock] \notin {"unborn", "starting", "dead"}
    BY <1>4, GenFacts DEF Spawns, TypeOK, Phase
  <2>. QED  BY <1>4, <2>1, <2>2 DEF Spawns, TypeOK, disk
<1>. QED  BY <1>1, <1>2, <1>3, <1>4

\* What is so of every end of a wait for a child.
Waits(f) ==
  \/ RejectsThePrepared(f) \/ StopsTheUnprepared(f) \/ StopsTheGivenUp(f)
  \/ HearsOfTheCommit(f) \/ SettlesTheMissing(f)

\* How a wait ends: nothing happens to the child, or it is abandoned; after the record
\* was sent it is abandoned only on a verdict of its own that it gave up.
LEMMA WaitsFacts ==
  ASSUME NEW f \in Frontend, TypeOK, Waits(f)
  PROVE  /\ child[f] # 0 /\ child[f] \in Gen
         /\ \E permanent \in BOOLEAN : AfterTheStart(f, permanent)
         /\ \/ UNCHANGED <<proc, lock, killed, doomed>>
            \/ \E staged \in BOOLEAN :
                 /\ Abandons(f, staged)
                 /\ pc[f] # "waiting" =>
                      ~staged /\ \E v \in GivenUp : NextIs(f, v)
         /\ UNCHANGED <<build, settings, owner, buried, asked, starter, control, turnover,
                        canonical, pending, tokens, mishaps>>
<1>. USE DEF Waits
<1>1. pc[f] \in {"waiting", "awaiting"}
  BY DEF RejectsThePrepared, StopsTheUnprepared, StopsTheGivenUp, HearsOfTheCommit,
     SettlesTheMissing
<1>2. child[f] # 0 /\ child[f] \in Gen
  BY <1>1, GenFacts DEF TypeOK
<1>3. CASE RejectsThePrepared(f)
  BY <1>2, <1>3 DEF RejectsThePrepared
<1>4. CASE StopsTheUnprepared(f)
  <2>1. NextIs(f, "aborted") \in BOOLEAN
    BY DEF NextIs
  <2>. QED  BY <1>2, <1>4, <2>1 DEF StopsTheUnprepared
<1>5. CASE StopsTheGivenUp(f)
  <2>1. PICK v \in GivenUp : NextIs(f, v) /\ AfterTheStart(f, v = "aborted")
    BY <1>5, Zenon DEF StopsTheGivenUp, GivenUp
  <2>2. (v = "aborted") \in BOOLEAN
    OBVIOUS
  <2>3. \E permanent \in BOOLEAN : AfterTheStart(f, permanent)
    BY <2>1, <2>2, Zenon
  <2>. QED  BY <1>2, <1>5, <2>1, <2>3 DEF StopsTheGivenUp
<1>6. CASE HearsOfTheCommit(f)
  BY <1>2, <1>6 DEF HearsOfTheCommit, disk
<1>7. CASE SettlesTheMissing(f)
  BY <1>2, <1>7 DEF SettlesTheMissing, disk
<1>. QED  BY <1>3, <1>4, <1>5, <1>6, <1>7

LEMMA WaitsTyped ==
  ASSUME NEW f \in Frontend, TypeOK, Waits(f) PROVE TypeOK'
<1>1. /\ proc' \in [Gen -> Phase] /\ lock' \in 0..MaxGen
      /\ lock' # 0 => proc'[lock'] \notin {"unborn", "starting", "dead"}
      /\ killed' \subseteq Gen /\ doomed' \subseteq Gen
  <2>1. ASSUME NEW staged \in BOOLEAN, Abandons(f, staged)
        PROVE  <1>1!:
    <3>1. child[f] # 0 /\ child[f] \in Gen
      BY WaitsFacts
    <3>2. Ends(child[f])
      BY <2>1, <3>1, AbandonsFacts
    <3>3. killed' \subseteq Gen /\ doomed' \subseteq Gen
      <4>1. killed \subseteq Gen /\ doomed \subseteq Gen
        BY DEF TypeOK
      <4>. QED  BY <2>1, <3>1, <4>1, AbandonsFacts
    <3>. QED  BY <3>1, <3>2, <3>3, EndsFacts
  <2>2. CASE UNCHANGED <<proc, lock, killed, doomed>>
    BY <2>2 DEF TypeOK
  <2>. QED  BY <2>1, <2>2, WaitsFacts
<1>. QED  BY <1>1, WaitsFacts, AfterTheStartFacts DEF TypeOK

LEMMA SendsTyped ==
  ASSUME NEW f \in Frontend, TypeOK, SendsCommit(f) PROVE TypeOK'
BY GenFacts, HeadTailProperties DEF TypeOK, SendsCommit, NextIs, Heard, disk

LEMMA DiesTyped ==
  ASSUME NEW f \in Frontend, TypeOK, FrontendDies(f) PROVE TypeOK'
<1>1. control' \in [Gen -> {"none", "commit", "eof"}] /\ said' \in [Gen -> Seq(Verdict)]
  BY EmptySeq DEF FrontendDies, TypeOK
<1>2. doomed' \subseteq Gen /\ mishaps' \in 0..MaxMishaps
  BY BoundsAssumption DEF FrontendDies, TypeOK, Mishap
<1>3. /\ pc' \in [Frontend -> {"looking", "contending", "waiting", "awaiting",
                            "settling", "attached", "direct", "dead"}]
      /\ child' \in [Frontend -> 0..MaxGen] /\ owner' \in [Frontend -> 0..MaxGen]
      /\ \A h \in Frontend : /\ (child'[h] # 0) = (pc'[h] \in {"waiting", "awaiting"})
                            /\ (owner'[h] # 0) = (pc'[h] = "attached")
  BY GenFacts DEF FrontendDies, TypeOK
<1>. QED  BY <1>1, <1>2, <1>3 DEF FrontendDies, TypeOK

LEMMA EndingTyped ==
  ASSUME NEW g \in Gen, TypeOK,
         \/ ContendsForTheLock(g) \/ FailsToStart(g) \/ HearsTheStarterGo(g)
         \/ AuthorizationTimesOut(g) \/ Stops(g) \/ Crashes(g)
  PROVE  TypeOK'
<1>. USE DEF ContendsForTheLock, FailsToStart, HearsTheStarterGo,
        AuthorizationTimesOut, Stops, Crashes
<1>1. mishaps' \in 0..MaxMishaps
  BY BoundsAssumption DEF TypeOK, Mishap
<1>2. said' \in [Gen -> Seq(Verdict)]
  BY SaysFacts DEF TypeOK, Verdict
<1>3. /\ proc' \in [Gen -> Phase] /\ lock' \in 0..MaxGen
      /\ lock' # 0 => proc'[lock'] \notin {"unborn", "starting", "dead"}
  <2>1. CASE ContendsForTheLock(g) /\ lock = 0 /\ ~Ends(g)
    BY <2>1, GenFacts DEF TypeOK, Phase
  <2>2. CASE Ends(g)
    BY <2>2, EndsFacts
  <2>. QED  BY <2>1, <2>2
<1>4. UNCHANGED <<frontends, starter, control, turnover, disk, killed>>
  OBVIOUS
<1>. QED  BY <1>1, <1>2, <1>3, <1>4 DEF TypeOK, frontends, disk

LEMMA CommitsTyped ==
  ASSUME NEW g \in Gen, TypeOK, Commits(g) PROVE TypeOK'
<1>1. mishaps' \in 0..MaxMishaps
  BY BoundsAssumption DEF TypeOK, Mishap, Commits
<1>2. said' \in [Gen -> Seq(Verdict)]
  BY SaysFacts DEF TypeOK, Commits, Verdict
<1>3. /\ proc' \in [Gen -> Phase] /\ lock' \in 0..MaxGen
      /\ lock' # 0 => proc'[lock'] \notin {"unborn", "starting", "dead"}
  <2>1. CASE Ends(g)
    BY <2>1, EndsFacts
  <2>2. CASE ~Ends(g)
    <3>1. /\ lock' = lock
          /\ \E q \in {"serving", "uncertain"} : proc' = [proc EXCEPT ![g] = q]
      BY <2>2 DEF Commits
    <3>. QED  BY <3>1, GenFacts DEF TypeOK, Phase
  <2>. QED  BY <2>1, <2>2
<1>4. canonical' \in 0..MaxGen /\ pending' \subseteq Gen
  BY GenFacts DEF Commits, Renames, TypeOK
<1>5. UNCHANGED <<frontends, starter, control, turnover, tokens, doomed, killed>>
  BY DEF Commits
<1>. QED  BY <1>1, <1>2, <1>3, <1>4, <1>5 DEF TypeOK, frontends

LEMMA GoesOnTyped ==
  ASSUME NEW g \in Gen, TypeOK,
         \/ Prepares(g) \/ Reconciles(g) \/ TurnsOver(g) \/ Retires(g) \/ Discards(g)
  PROVE  TypeOK'
<1>. USE DEF Prepares, Reconciles, TurnsOver, Retires, Discards
<1>1. said' \in [Gen -> Seq(Verdict)]
  BY SaysFacts DEF TypeOK, Verdict, children
<1>2. /\ proc' \in [Gen -> Phase] /\ lock' = lock
      /\ lock' # 0 => proc'[lock'] \notin {"unborn", "starting", "dead"}
  <2>1. /\ lock' = lock
        /\ \/ proc' = proc \/ proc' = [proc EXCEPT ![g] = "prepared"]
           \/ proc' = [proc EXCEPT ![g] = "serving"]
           \/ proc' = [proc EXCEPT ![g] = "leaving"]
    BY DEF children
  <2>. QED  BY <2>1, GenFacts DEF TypeOK, Phase
<1>3. /\ canonical' \in 0..MaxGen /\ pending' \subseteq Gen /\ tokens' \subseteq Gen
      /\ doomed' \subseteq Gen
  BY GenFacts DEF TypeOK, Renames, Swept, disk
<1>4. UNCHANGED <<frontends, starter, control, turnover, killed, mishaps>>
  BY DEF children
<1>. QED  BY <1>1, <1>2, <1>3, <1>4 DEF TypeOK, frontends

\* Every step keeps the types.
LEMMA NextTyped == TypeOK /\ Next => TypeOK'
BY LooksTyped, MovesTyped, WaitsTyped, SendsTyped, DiesTyped, EndingTyped, CommitsTyped,
   GoesOnTyped DEF Next, FrontendStep, ChildProceeds, Waits

(***************************************************************************)
(* Parts of the invariant that a step leaves alone                         *)
(***************************************************************************)

\* No burial becomes unearned while nobody comes back to life or changes its starter.
LEMMA BurialsStay ==
  ASSUME IInv, build' = build, buried' = buried,
         \A g \in Gen : /\ proc[g] # "unborn" => proc'[g] # "unborn" /\ starter'[g] = starter[g]
                        /\ Retired(g) => Retired(g)'
  PROVE  Burials'
BY DEF IInv, InPlace, Burials, BuriedIsUnusable, TypeOK, Stale

\* A verdict of having given up comes only from a child that ends with it.
LEMMA VerdictsStay ==
  ASSUME IInv,
         \A g \in Gen :
           /\ proc[g] = "dead" => proc'[g] = "dead"
           /\ \/ said'[g] = said[g] \/ said'[g] = <<>>
              \/ said[g] # <<>> /\ said'[g] = Tail(said[g])
              \/ \E v \in Verdict : /\ said'[g] = Append(said[g], v)
                                    /\ v \in GivenUp => proc'[g] = "dead"
  PROVE  Verdicts'
<1>. SUFFICES ASSUME NEW g \in Gen, NEW i \in 1..Len(said'[g]), said'[g][i] \in GivenUp
              PROVE  proc'[g] = "dead"
  BY DEF Verdicts, GivenUpIsDead
<1>0. said[g] \in Seq(Verdict)
  BY DEF IInv, InPlace, TypeOK
<1>1. CASE said'[g] = said[g]
  BY <1>1 DEF IInv, InPlace, Verdicts, GivenUpIsDead
<1>2. CASE said'[g] = <<>>
  BY <1>2, EmptySeq
<1>3. CASE said[g] # <<>> /\ said'[g] = Tail(said[g])
  <2>1. i + 1 \in 1..Len(said[g]) /\ said'[g][i] = said[g][i + 1]
    BY <1>0, <1>3, HeadTailProperties, EmptySeq
  <2>. QED  BY <2>1 DEF IInv, InPlace, Verdicts, GivenUpIsDead
<1>4. ASSUME NEW v \in Verdict, said'[g] = Append(said[g], v),
             v \in GivenUp => proc'[g] = "dead"
      PROVE  proc'[g] = "dead"
  <2>1. (i \in 1..Len(said[g]) /\ said'[g][i] = said[g][i]) \/ said'[g][i] = v
    BY <1>0, <1>4, AppendProperties
  <2>. QED  BY <2>1, <1>4 DEF IInv, InPlace, Verdicts, GivenUpIsDead
<1>. QED  BY <1>1, <1>2, <1>3, <1>4

\* Nothing a frontend relies on about its child is changed by others.
LEMMA StartersStay ==
  ASSUME IInv,
         \A f \in Frontend : /\ child'[f] = 0 \/ child'[f] = child[f]
                             /\ pc'[f] = "waiting" =>
                                  pc[f] = "waiting" /\ child'[f] = child[f],
         \A g \in Gen : /\ starter'[g] = starter[g]
                        /\ control'[g] = control[g]
                        /\ proc[g] # "unborn" => proc'[g] # "unborn"
  PROVE  StartersInPlace'
<1>. SUFFICES ASSUME NEW f \in Frontend PROVE ChildIsItsOwn(f)' /\ NothingSentYet(f)'
  BY DEF StartersInPlace
<1>1. child[f] # 0 => child[f] \in Gen
  BY GenFacts DEF IInv, InPlace, TypeOK
<1>2. pc[f] = "waiting" => child[f] # 0
  BY DEF IInv, InPlace, TypeOK
<1>. QED  BY <1>1, <1>2 DEF IInv, InPlace, StartersInPlace, ChildIsItsOwn,
   NothingSentYet

\* The end of a child leaves the children in place.
LEMMA EndingKeepsChildren ==
  ASSUME IInv, NEW g \in Gen, Ends(g), UNCHANGED <<control, canonical, tokens>>,
         \A h \in Gen \ {g} : said'[h] = said[h] \/ said'[h] = <<>>,
         killed' \subseteq killed \cup {g}, doomed' \subseteq doomed \cup {g},
         g \in doomed' => g \in doomed \/ canonical # g,
         proc[g] # "unborn", canonical = g => proc[g] # "starting"
  PROVE  ChildrenInPlace'
<1>1. /\ proc'[g] = "dead" /\ \A h \in Gen \ {g} : proc'[h] = proc[h]
      /\ \A h \in Gen \ {g} : lock' = h <=> lock = h
  BY EndsFacts DEF IInv
<1>. SUFFICES ASSUME NEW h \in Gen
              PROVE  /\ HoldsTheLock(h)' /\ Staged(h)' /\ Authorized(h)'
                     /\ PublishedWasPrepared(h)' /\ NotYetBorn(h)' /\ KilledIsDead(h)'
                     /\ DoomedIsUnpublished(h)'
  BY DEF ChildrenInPlace
<1>. QED  BY <1>1 DEF IInv, InPlace, ChildrenInPlace, HoldsTheLock, Staged, Authorized,
     PublishedWasPrepared, NotYetBorn, KilledIsDead, DoomedIsUnpublished, Holding

(***************************************************************************)
(* One lemma for the actions that disturb the same parts of the invariant  *)
(***************************************************************************)

LEMMA LooksKeeps ==
  ASSUME NEW f \in Frontend, IInv,
         Looks(f)
  PROVE  InPlace'
<1>. USE DEF Looks, FindsNothing, FindsStale, FindsRefused, FindsSilent, FindsAnswering,
        LeavesTheRivalAlone
<1>1. UNCHANGED <<build, settings, child, proc, starter, said, control, lock, disk, killed>>
      /\ turnover \subseteq turnover'
      /\ \A h \in Frontend : pc'[h] = "waiting" => pc[h] = "waiting"
  BY DEF Onward, IInv, InPlace, TypeOK
<1>2. ChildrenInPlace'
  BY <1>1 DEF IInv, InPlace, disk, ChildrenInPlace, HoldsTheLock, Staged, Authorized,
     PublishedWasPrepared, NotYetBorn, KilledIsDead, DoomedIsUnpublished, Holding
<1>3. StartersInPlace'
  BY <1>1, StartersStay
<1>4. Burials'
  <2>. SUFFICES ASSUME NEW h \in Frontend, NEW g \in buried'[h]
                PROVE  (proc[g] # "unborn" /\ Stale(h, g)) \/ Retired(g)'
    BY <1>1 DEF Burials, BuriedIsUnusable, Stale
  <2>1. CASE g \in buried[h]
    BY <1>1, <2>1 DEF IInv, InPlace, Burials, BuriedIsUnusable, Retired
  <2>2. CASE g \notin buried[h]
    <3>1. h = f /\ g = canonical /\ g \in Gen /\ (Stale(f, g) \/ ~Listening(g))
      BY <2>2, GenFacts DEF Buries, Published, Probes, IInv, InPlace, TypeOK
    <3>2. proc[g] \in {"uncertain", "serving", "leaving", "dead"}
      BY <3>1 DEF IInv, InPlace, ChildrenInPlace, PublishedWasPrepared
    <3>. QED  BY <1>1, <3>1, <3>2 DEF Listening, Retired
  <2>. QED  BY <2>1, <2>2
<1>5. Verdicts'
  BY <1>1, VerdictsStay
<1>6. PublishedIsNeverUndone'
  BY <1>1 DEF IInv, InPlace, PublishedIsNeverUndone, disk
<1>. QED  BY <1>1, <1>2, <1>3, <1>4, <1>5, <1>6 DEF InPlace

LEMMA MovesKeep ==
  ASSUME NEW f \in Frontend, IInv,
         RunsOutOfTime(f) \/ LosesItsOwner(f) \/ HoldsBack(f)
  PROVE  InPlace'
<1>. USE DEF RunsOutOfTime, LosesItsOwner, HoldsBack
<1>1. /\ UNCHANGED <<build, settings, child, children, lock, disk, killed>>
      /\ \A h \in Frontend : pc'[h] = "waiting" => pc[h] = "waiting"
  BY DEF IInv, InPlace, TypeOK
<1>2. ChildrenInPlace'
  BY <1>1 DEF IInv, InPlace, disk, children, ChildrenInPlace, HoldsTheLock, Staged,
     Authorized, PublishedWasPrepared, NotYetBorn, KilledIsDead, DoomedIsUnpublished,
     Holding
<1>3. StartersInPlace'
  BY <1>1, StartersStay DEF children
<1>4. Burials'
  <2>. SUFFICES ASSUME NEW h \in Frontend, NEW g \in buried'[h]
                PROVE  (proc[g] # "unborn" /\ Stale(h, g)) \/ Retired(g)
    BY <1>1 DEF Burials, BuriedIsUnusable, Stale, Retired, children
  <2>1. CASE g \in buried[h]
    BY <2>1 DEF IInv, InPlace, Burials, BuriedIsUnusable
  <2>2. CASE g \notin buried[h]
    <3>1. LosesItsOwner(f)
      BY <2>2
    <3>2. g = owner[f]
      BY <2>2, <3>1 DEF Buries, IInv, TypeOK
    <3>. QED  BY <3>1, <3>2
  <2>. QED  BY <2>1, <2>2
<1>5. Verdicts'
  BY <1>1, VerdictsStay DEF children
<1>6. PublishedIsNeverUndone'
  BY <1>1 DEF IInv, InPlace, PublishedIsNeverUndone, disk
<1>. QED  BY <1>1, <1>2, <1>3, <1>4, <1>5, <1>6 DEF InPlace

LEMMA SpawnsKeeps ==
  ASSUME NEW f \in Frontend, IInv,
         Spawns(f)
  PROVE  InPlace'
<1>1. ChildrenInPlace'
  BY DEF Spawns, IInv, InPlace, TypeOK, disk, ChildrenInPlace, HoldsTheLock, Staged,
     Authorized, PublishedWasPrepared, NotYetBorn, KilledIsDead, DoomedIsUnpublished,
     Holding
<1>2. StartersInPlace'
  BY GenFacts DEF Spawns, IInv, InPlace, TypeOK, ChildrenInPlace, NotYetBorn,
     StartersInPlace,
     ChildIsItsOwn, NothingSentYet
<1>3. Burials'
  BY BurialsStay DEF Spawns, IInv, InPlace, TypeOK, Retired
<1>4. Verdicts'
  BY VerdictsStay DEF Spawns, IInv, InPlace, TypeOK
<1>5. PublishedIsNeverUndone'
  BY DEF Spawns, IInv, InPlace, PublishedIsNeverUndone, disk
<1>. QED  BY <1>1, <1>2, <1>3, <1>4, <1>5 DEF InPlace

LEMMA SendsCommitKeeps ==
  ASSUME NEW f \in Frontend, IInv,
         SendsCommit(f)
  PROVE  InPlace'
<1>1. child[f] \in Gen /\ said[child[f]] # <<>>
  BY DEF SendsCommit, NextIs, Heard, IInv, InPlace, TypeOK
<1>2. ChildrenInPlace'
  BY <1>1 DEF SendsCommit, IInv, InPlace, TypeOK, StartersInPlace, ChildIsItsOwn,
     disk, ChildrenInPlace, HoldsTheLock, Staged, Authorized, PublishedWasPrepared,
     NotYetBorn, KilledIsDead, DoomedIsUnpublished, Holding
<1>3. StartersInPlace'
  BY GenFacts DEF SendsCommit, IInv, InPlace, TypeOK, StartersInPlace,
     ChildIsItsOwn, NothingSentYet
<1>4. Burials'
  BY BurialsStay DEF SendsCommit, Retired
<1>5. Verdicts'
  BY <1>1, VerdictsStay DEF SendsCommit, IInv, InPlace, TypeOK
<1>6. PublishedIsNeverUndone'
  BY DEF SendsCommit, IInv, InPlace, PublishedIsNeverUndone, disk
<1>. QED  BY <1>1, <1>2, <1>3, <1>4, <1>5, <1>6 DEF InPlace

LEMMA WaitsKeep ==
  ASSUME NEW f \in Frontend, IInv, Waits(f) PROVE InPlace'
<1>1. TypeOK /\ child[f] \in Gen /\ child[f] # 0
  BY WaitsFacts DEF IInv
<1>2. /\ UNCHANGED <<build, settings, owner, buried, asked, starter, control, turnover,
                     canonical, pending, tokens, mishaps>>
      /\ \E permanent \in BOOLEAN : AfterTheStart(f, permanent)
  BY <1>1, WaitsFacts
<1>3. /\ \A h \in Frontend : /\ child'[h] = 0 \/ child'[h] = child[h]
                             /\ pc'[h] = "waiting" => pc[h] = "waiting" /\ child'[h] = child[h]
      /\ \A h \in Gen : said'[h] = said[h] \/ said'[h] = <<>>
  BY <1>1, <1>2, AfterTheStartFacts
<1>4. /\ starter[child[f]] = f /\ proc[child[f]] # "unborn"
      /\ pc[f] = "waiting" => control[child[f]] = "none"
  BY <1>1 DEF IInv, InPlace, StartersInPlace, ChildIsItsOwn, NothingSentYet
<1>5. CASE UNCHANGED <<proc, lock, killed, doomed>>
  <2>1. ChildrenInPlace'
    BY <1>1, <1>2, <1>3, <1>5 DEF IInv, InPlace, ChildrenInPlace, HoldsTheLock, Staged,
       Authorized, PublishedWasPrepared, NotYetBorn, KilledIsDead, DoomedIsUnpublished,
       Holding
  <2>2. StartersInPlace' /\ Burials' /\ Verdicts'
    BY <1>2, <1>3, <1>5, StartersStay, BurialsStay, VerdictsStay DEF Retired
  <2>3. PublishedIsNeverUndone'
    BY <1>2, <1>5 DEF IInv, InPlace, PublishedIsNeverUndone
  <2>. QED  BY <2>1, <2>2, <2>3 DEF InPlace
<1>6. ASSUME NEW staged \in BOOLEAN, Abandons(f, staged),
             pc[f] # "waiting" => ~staged /\ \E v \in GivenUp : NextIs(f, v)
      PROVE  InPlace'
  <2>1. /\ Ends(child[f]) /\ killed' \subseteq killed \cup {child[f]}
        /\ proc[child[f]] = "dead" => killed' = killed
        /\ doomed' = IF staged THEN doomed \cup {child[f]} ELSE doomed
    BY <1>1, <1>6, AbandonsFacts
  <2>2. canonical = child[f] => ~staged /\ proc[child[f]] = "dead"
    <3>1. CASE pc[f] = "waiting"
      BY <1>1, <1>4, <3>1 DEF IInv, InPlace, ChildrenInPlace, Authorized
    <3>2. CASE pc[f] # "waiting"
      <4>1. Len(said[child[f]]) \in Nat \ {0} /\ said[child[f]][1] \in GivenUp
        BY <1>1, <1>6, <3>2, EmptySeq DEF NextIs, Heard, TypeOK
      <4>2. proc[child[f]] = "dead"
        BY <1>1, <4>1 DEF IInv, InPlace, Verdicts, GivenUpIsDead
      <4>. QED  BY <1>6, <3>2, <4>2
    <3>. QED  BY <3>1, <3>2
  <2>3. proc[child[f]] = "starting" => canonical # child[f]
    BY <1>1 DEF IInv, InPlace, ChildrenInPlace, PublishedWasPrepared
  <2>4. ChildrenInPlace'
    BY <1>1, <1>2, <1>3, <1>4, <2>1, <2>2, <2>3, EndingKeepsChildren
  <2>5. /\ proc'[child[f]] = "dead" /\ \A h \in Gen \ {child[f]} : proc'[h] = proc[h]
    BY <1>1, <2>1, EndsFacts
  <2>6. StartersInPlace' /\ Burials' /\ Verdicts'
    <3>1. \A g \in Gen : /\ proc[g] # "unborn" => proc'[g] # "unborn"
                         /\ proc[g] = "dead" => proc'[g] = "dead"
                         /\ Retired(g) => Retired(g)'
      BY <1>2, <2>5 DEF Retired
    <3>. QED  BY <1>2, <1>3, <3>1, StartersStay, BurialsStay, VerdictsStay
  <2>7. PublishedIsNeverUndone'
    BY <1>2, <2>1, <2>2 DEF IInv, InPlace, PublishedIsNeverUndone
  <2>. QED  BY <2>4, <2>6, <2>7 DEF InPlace
<1>. QED  BY <1>1, <1>5, <1>6, WaitsFacts

LEMMA DiesKeeps ==
  ASSUME NEW f \in Frontend, IInv, FrontendDies(f) PROVE InPlace'
<1>1. ChildrenInPlace'
  BY GenFacts DEF FrontendDies, IInv, InPlace, TypeOK, StartersInPlace, ChildIsItsOwn,
     ChildrenInPlace, HoldsTheLock, Staged, Authorized,
     PublishedWasPrepared, NotYetBorn, KilledIsDead, DoomedIsUnpublished, Holding
<1>2. StartersInPlace'
  BY GenFacts DEF FrontendDies, IInv, InPlace, TypeOK, StartersInPlace, ChildIsItsOwn,
     NothingSentYet
<1>3. Burials' /\ Verdicts'
  BY BurialsStay, VerdictsStay DEF FrontendDies, Retired, IInv, TypeOK
<1>4. PublishedIsNeverUndone'
  BY DEF FrontendDies, IInv, InPlace, PublishedIsNeverUndone
<1>. QED  BY <1>1, <1>2, <1>3, <1>4 DEF InPlace

\* A child that ends of its own accord, whatever it says.
LEMMA EndingKeeps ==
  ASSUME NEW g \in Gen, IInv, Ends(g), proc[g] # "unborn",
         UNCHANGED <<frontends, starter, control, turnover, canonical, tokens, doomed, killed>>,
         said' = said \/ \E v \in Verdict : Says(g, v)
  PROVE  InPlace'
<1>1. /\ proc'[g] = "dead" /\ \A h \in Gen \ {g} : proc'[h] = proc[h]
  BY EndsFacts DEF IInv
<1>2. \A h \in Gen : \/ said'[h] = said[h]
                     \/ h = g /\ \E v \in Verdict : said'[h] = Append(said[h], v)
  BY SaysFacts DEF IInv
<1>3. \A h \in Gen : /\ proc[h] # "unborn" => proc'[h] # "unborn"
                     /\ proc[h] = "dead" => proc'[h] = "dead"
                     /\ Retired(h) => Retired(h)'
  BY <1>1 DEF Retired
<1>4. proc[g] = "starting" => canonical # g
  BY DEF IInv, InPlace, ChildrenInPlace, PublishedWasPrepared
<1>5. ChildrenInPlace'
  BY <1>2, <1>4, EndingKeepsChildren
<1>6. StartersInPlace' /\ Burials' /\ Verdicts'
  BY <1>1, <1>2, <1>3, StartersStay, BurialsStay, VerdictsStay DEF frontends
<1>7. PublishedIsNeverUndone'
  BY DEF IInv, InPlace, PublishedIsNeverUndone
<1>. QED  BY <1>5, <1>6, <1>7 DEF InPlace

\* The actions in which a child ends by itself.
LEMMA EndsOfItsOwnAccord ==
  ASSUME NEW g \in Gen, IInv,
         \/ FailsToStart(g) \/ HearsTheStarterGo(g) \/ AuthorizationTimesOut(g)
         \/ Stops(g) \/ Crashes(g) \/ (ContendsForTheLock(g) /\ lock # 0)
  PROVE  InPlace'
<1>1. Ends(g) /\ proc[g] # "unborn"
  BY DEF FailsToStart, HearsTheStarterGo, AuthorizationTimesOut, Stops, Crashes,
     ContendsForTheLock
<1>2. /\ UNCHANGED <<frontends, starter, control, turnover, canonical, tokens, doomed, killed>>
      /\ said' = said \/ \E v \in Verdict : Says(g, v)
  BY DEF FailsToStart, HearsTheStarterGo, AuthorizationTimesOut, Stops, Crashes,
     ContendsForTheLock, disk, Verdict
<1>. QED  BY <1>1, <1>2, EndingKeeps

\* A child that goes on: to another phase, and perhaps to the canonical name.
GoesOn(g, q) ==
  /\ proc' = [proc EXCEPT ![g] = q]
  /\ said' = said \/ \E v \in Verdict \ GivenUp : Says(g, v)
  /\ UNCHANGED <<frontends, starter, control, turnover, doomed, killed>>

\* What a child that goes on leaves in place.
LEMMA GoingOnKeeps ==
  ASSUME NEW g \in Gen, IInv, NEW q \in Holding, GoesOn(g, q), proc[g] # "leaving",
         proc[g] \notin {"unborn", "dead"}
  PROVE  StartersInPlace' /\ Burials' /\ Verdicts'
<1>1. \A h \in Gen : \/ said'[h] = said[h]
                     \/ \E v \in Verdict \ GivenUp : said'[h] = Append(said[h], v)
  BY SaysFacts DEF IInv, GoesOn
<1>2. \A h \in Gen : /\ proc[h] # "unborn" => proc'[h] # "unborn"
                     /\ proc[h] = "dead" => proc'[h] = "dead"
                     /\ Retired(h) => Retired(h)'
  BY DEF GoesOn, Retired, Holding, IInv, TypeOK
<1>. QED  BY <1>1, <1>2, StartersStay, BurialsStay, VerdictsStay DEF GoesOn, frontends

LEMMA ContendsKeeps ==
  ASSUME NEW g \in Gen, IInv, ContendsForTheLock(g) /\ lock = 0 PROVE InPlace'
<1>1. /\ GoesOn(g, "locked") /\ proc[g] \notin {"unborn", "dead", "leaving"}
  BY DEF GoesOn, Verdict, GivenUp, disk, children, ContendsForTheLock
<1>2. ChildrenInPlace'
  <2>1. \A h \in Gen \ {g} : said'[h] = said[h]
    BY <1>1, SaysFacts DEF GoesOn, IInv
  <2>. QED  BY <1>1, <2>1, GenFacts DEF GoesOn, ContendsForTheLock, disk, children,
     IInv, InPlace, TypeOK, ChildrenInPlace, HoldsTheLock, Staged, Authorized,
     PublishedWasPrepared, NotYetBorn, KilledIsDead, DoomedIsUnpublished, Holding
<1>3. StartersInPlace' /\ Burials' /\ Verdicts'
  BY <1>1, GoingOnKeeps DEF Holding
<1>4. PublishedIsNeverUndone'
  BY <1>1, GenFacts DEF ContendsForTheLock, GoesOn, disk, children, IInv, InPlace,
     TypeOK, PublishedIsNeverUndone,
     ChildrenInPlace, Staged, KilledIsDead
<1>. QED  BY <1>2, <1>3, <1>4 DEF InPlace

LEMMA PreparesKeeps ==
  ASSUME NEW g \in Gen, IInv, Prepares(g) PROVE InPlace'
<1>1. /\ GoesOn(g, "prepared") /\ proc[g] \notin {"unborn", "dead", "leaving"}
  BY DEF GoesOn, Verdict, GivenUp, disk, children, Prepares, Swept
<1>2. ChildrenInPlace'
  <2>1. \A h \in Gen \ {g} : said'[h] = said[h]
    BY <1>1, SaysFacts DEF GoesOn, IInv
  <2>. QED  BY <1>1, <2>1, GenFacts DEF GoesOn, Prepares, Swept, disk, children, IInv,
     InPlace, TypeOK, ChildrenInPlace, HoldsTheLock, Staged, Authorized,
     PublishedWasPrepared, NotYetBorn, KilledIsDead, DoomedIsUnpublished, Holding
<1>3. StartersInPlace' /\ Burials' /\ Verdicts'
  BY <1>1, GoingOnKeeps DEF Holding
<1>4. PublishedIsNeverUndone'
  BY <1>1, GenFacts DEF Prepares, Swept, GoesOn, disk, children, IInv, InPlace,
     TypeOK, PublishedIsNeverUndone,
     ChildrenInPlace, Staged, KilledIsDead
<1>. QED  BY <1>2, <1>3, <1>4 DEF InPlace

LEMMA ReconcilesKeeps ==
  ASSUME NEW g \in Gen, IInv, Reconciles(g) PROVE InPlace'
<1>1. /\ GoesOn(g, "serving") /\ proc[g] \notin {"unborn", "dead", "leaving"}
  BY DEF GoesOn, Verdict, GivenUp, disk, children, Reconciles, Renames
<1>2. ChildrenInPlace'
  <2>1. \A h \in Gen \ {g} : said'[h] = said[h]
    BY <1>1, SaysFacts DEF GoesOn, IInv
  <2>. QED  BY <1>1, <2>1, GenFacts DEF GoesOn, Reconciles, Renames, disk, children,
     IInv, InPlace, TypeOK, ChildrenInPlace, HoldsTheLock, Staged, Authorized,
     PublishedWasPrepared, NotYetBorn, KilledIsDead, DoomedIsUnpublished, Holding
<1>3. StartersInPlace' /\ Burials' /\ Verdicts'
  BY <1>1, GoingOnKeeps DEF Holding
<1>4. PublishedIsNeverUndone'
  BY <1>1, GenFacts DEF Reconciles, Renames, GoesOn, disk, children, IInv, InPlace,
     TypeOK, PublishedIsNeverUndone,
     ChildrenInPlace, Staged, KilledIsDead
<1>. QED  BY <1>2, <1>3, <1>4 DEF InPlace

LEMMA LeavingKeeps ==
  ASSUME NEW g \in Gen, IInv, TurnsOver(g) \/ Retires(g) PROVE InPlace'
<1>1. /\ GoesOn(g, "leaving") /\ proc[g] \notin {"unborn", "dead", "leaving"}
  BY DEF GoesOn, Verdict, GivenUp, disk, children, TurnsOver, Retires
<1>2. ChildrenInPlace'
  <2>1. \A h \in Gen \ {g} : said'[h] = said[h]
    BY <1>1, SaysFacts DEF GoesOn, IInv
  <2>. QED  BY <1>1, <2>1, GenFacts DEF GoesOn, TurnsOver, Retires, disk, children,
     IInv, InPlace, TypeOK, ChildrenInPlace, HoldsTheLock, Staged, Authorized,
     PublishedWasPrepared, NotYetBorn, KilledIsDead, DoomedIsUnpublished, Holding
<1>3. StartersInPlace' /\ Burials' /\ Verdicts'
  BY <1>1, GoingOnKeeps DEF Holding
<1>4. PublishedIsNeverUndone'
  BY <1>1, GenFacts DEF TurnsOver, Retires, GoesOn, disk, children, IInv, InPlace,
     TypeOK, PublishedIsNeverUndone,
     ChildrenInPlace, Staged, KilledIsDead
<1>. QED  BY <1>2, <1>3, <1>4 DEF InPlace

LEMMA CommitsKeeps ==
  ASSUME NEW g \in Gen, IInv, Commits(g) PROVE InPlace'
<1>1. CASE Ends(g) /\ Says(g, "aborted") /\ UNCHANGED canonical
  BY <1>1, EndingKeeps DEF Commits, Verdict
<1>2. CASE ~(Ends(g) /\ Says(g, "aborted") /\ UNCHANGED canonical)
  <2>1. PICK q \in {"serving", "uncertain"} : GoesOn(g, q)
    <3>1. /\ \/ proc' = [proc EXCEPT ![g] = "serving"] /\ Says(g, "committed")
             \/ proc' = [proc EXCEPT ![g] = "uncertain"] /\ said' = said
          /\ UNCHANGED <<frontends, starter, control, turnover, doomed, killed>>
      BY <1>2 DEF Commits
    <3>2. "committed" \in Verdict \ GivenUp
      BY DEF Verdict, GivenUp
    <3>3. GoesOn(g, "serving") \/ GoesOn(g, "uncertain")
      BY <3>1, <3>2 DEF GoesOn
    <3>. QED  BY <3>3
  <2>2. lock' = lock /\ (canonical' = canonical \/ canonical' = g)
    BY <1>2, <2>1 DEF Commits, Renames
  <2>3. proc[g] = "prepared" /\ control[g] = "commit" /\ tokens' = tokens
    BY DEF Commits, GoAhead
  <2>4. \A h \in Gen \ {g} : said'[h] = said[h]
    BY <2>1, SaysFacts DEF GoesOn, IInv
  <2>5. ChildrenInPlace'
    BY <2>1, <2>2, <2>3, <2>4 DEF GoesOn, IInv, InPlace, TypeOK, ChildrenInPlace,
       HoldsTheLock, Staged, Authorized,
     PublishedWasPrepared, NotYetBorn, KilledIsDead, DoomedIsUnpublished, Holding
  <2>6. StartersInPlace' /\ Burials' /\ Verdicts'
    BY <2>1, <2>3, GoingOnKeeps DEF Holding
  <2>7. PublishedIsNeverUndone'
    BY <2>1, <2>2, <2>3 DEF GoesOn, IInv, InPlace, PublishedIsNeverUndone,
       ChildrenInPlace, Staged, KilledIsDead
  <2>. QED  BY <2>5, <2>6, <2>7 DEF InPlace
<1>. QED  BY <1>1, <1>2

LEMMA DiscardsKeeps ==
  ASSUME NEW g \in Gen, IInv, Discards(g) PROVE InPlace'
<1>1. proc[g] = "dead" /\ canonical # g
  BY DEF Discards, IInv, InPlace, ChildrenInPlace, DoomedIsUnpublished
<1>2. ChildrenInPlace'
  BY <1>1 DEF Discards, children, IInv, InPlace, ChildrenInPlace, HoldsTheLock,
     Staged, Authorized,
     PublishedWasPrepared, NotYetBorn, KilledIsDead, DoomedIsUnpublished, Holding
<1>3. StartersInPlace' /\ Burials' /\ Verdicts'
  BY StartersStay, BurialsStay, VerdictsStay DEF Discards, frontends, children, Retired
<1>4. PublishedIsNeverUndone'
  BY <1>1 DEF Discards, IInv, InPlace, PublishedIsNeverUndone
<1>. QED  BY <1>2, <1>3, <1>4 DEF InPlace

LEMMA StutterKeeps ==
  ASSUME IInv, UNCHANGED vars PROVE IInv'
<1>. USE DEF vars, frontends, children, disk
<1>1. TypeOK'
  BY DEF IInv, TypeOK
<1>2. ChildrenInPlace'
  BY DEF IInv, InPlace, ChildrenInPlace, HoldsTheLock, Staged, Authorized,
     PublishedWasPrepared, NotYetBorn, KilledIsDead, DoomedIsUnpublished, Holding
<1>3. StartersInPlace' /\ Burials' /\ Verdicts'
  BY StartersStay, BurialsStay, VerdictsStay DEF Retired
<1>4. PublishedIsNeverUndone'
  BY DEF IInv, InPlace, PublishedIsNeverUndone
<1>. QED  BY <1>1, <1>2, <1>3, <1>4 DEF IInv, InPlace

\* Every step keeps the invariant.
LEMMA StepKeeps == IInv /\ [Next]_vars => IInv'
<1>. SUFFICES ASSUME IInv, Next PROVE InPlace'
  BY StutterKeeps, NextTyped DEF IInv
<1>1. ASSUME NEW f \in Frontend, FrontendStep(f) PROVE InPlace'
  BY <1>1, LooksKeeps, MovesKeep, SpawnsKeeps, SendsCommitKeeps, WaitsKeep, DiesKeeps
  DEF FrontendStep, Waits
<1>2. ASSUME NEW g \in Gen,
             ChildProceeds(g) \/ FailsToStart(g) \/ Retires(g) \/ Crashes(g) \/ Discards(g)
      PROVE  InPlace'
  BY <1>2, ContendsKeeps, EndsOfItsOwnAccord, PreparesKeeps, CommitsKeeps,
     ReconcilesKeeps,
     LeavingKeeps, DiscardsKeeps
  DEF ChildProceeds
<1>. QED  BY <1>1, <1>2 DEF Next

(***************************************************************************)
(* One owner after the other                                               *)
(***************************************************************************)

\* Only an owner that listens is asked to stand down, so a child that has yet to
\* contend was never asked.
AskedWasUp == \A g \in turnover : proc[g] \notin {"unborn", "starting"}

\* A child that has contended does not go back to contending.
LEMMA AskedStaysUp == IInv /\ AskedWasUp /\ [Next]_vars => AskedWasUp'
<1>. SUFFICES ASSUME IInv, AskedWasUp, [Next]_vars, NEW h \in turnover'
              PROVE  proc'[h] \notin {"unborn", "starting"}
  BY DEF AskedWasUp
<1>. USE DEF AskedWasUp, IInv, TypeOK
<1>1. CASE UNCHANGED vars
  BY <1>1 DEF vars, children
<1>2. ASSUME NEW f \in Frontend, FrontendStep(f) PROVE proc'[h] \notin {"unborn", "starting"}
  <2>1. CASE Looks(f)
    <3>1. proc' = proc /\ (h \in turnover \/ (h = canonical /\ Listening(h)))
      BY <2>1 DEF Looks, FindsNothing, FindsStale, FindsRefused, FindsSilent,
         FindsAnswering, LeavesTheRivalAlone
    <3>. QED  BY <3>1 DEF Listening
  <2>2. CASE Spawns(f)
    BY <2>2 DEF Spawns
  <2>3. CASE Waits(f)
    <3>1. turnover' = turnover /\ child[f] \in Gen /\ child[f] # 0
      BY <2>3, WaitsFacts
    <3>2. proc' = proc \/ Ends(child[f])
      BY <2>3, <3>1, WaitsFacts, AbandonsFacts
    <3>3. \A g \in Gen : proc'[g] = proc[g] \/ proc'[g] = "dead"
      BY <3>1, <3>2, EndsFacts
    <3>. QED  BY <3>1, <3>3
  <2>4. CASE RunsOutOfTime(f) \/ LosesItsOwner(f) \/ HoldsBack(f) \/ SendsCommit(f)
             \/ FrontendDies(f)
    BY <2>4 DEF RunsOutOfTime, LosesItsOwner, HoldsBack, SendsCommit, FrontendDies, children
  <2>. QED  BY <1>2, <2>1, <2>2, <2>3, <2>4 DEF FrontendStep, Waits
<1>3. ASSUME NEW g \in Gen,
             ChildProceeds(g) \/ FailsToStart(g) \/ Retires(g) \/ Crashes(g) \/ Discards(g)
      PROVE  proc'[h] \notin {"unborn", "starting"}
  <2>1. turnover' = turnover
    BY <1>3 DEF ChildProceeds, FailsToStart, Retires, Crashes, Discards, ContendsForTheLock,
       Prepares, Commits, HearsTheStarterGo, AuthorizationTimesOut, Reconciles, TurnsOver,
       Stops, children
  <2>2. proc' = proc \/ \E q \in Holding \cup {"dead"} : proc' = [proc EXCEPT ![g] = q]
    BY <1>3 DEF ChildProceeds, FailsToStart, Retires, Crashes, Discards, ContendsForTheLock,
       Prepares, Commits, HearsTheStarterGo, AuthorizationTimesOut, Reconciles, TurnsOver,
       Stops, children, Ends, Holding
  <2>. QED  BY <2>1, <2>2 DEF Holding
<1>. QED  BY <1>1, <1>2, <1>3 DEF Next

\* Nobody's standing as an owner changes.
LEMMA NobodyChanges ==
  ASSUME \A g \in Gen : OwnerSeen(g)' = OwnerSeen(g)
  PROVE  [Succession!Next]_([g \in Gen |-> OwnerSeen(g)])
OBVIOUS

\* One child's standing changes, in a way that the succession allows.
LEMMA OneChanges ==
  ASSUME NEW g \in Gen, NEW v, OwnerSeen(g)' = v,
         \A h \in Gen \ {g} : OwnerSeen(h)' = OwnerSeen(h)
  PROVE  [h \in Gen |-> OwnerSeen(h)]' = [[h \in Gen |-> OwnerSeen(h)] EXCEPT ![g] = v]
OBVIOUS

\* A child that ends goes, if it was still there.
LEMMA EndingIsGoing ==
  ASSUME IInv, NEW g \in Gen, Ends(g), turnover' = turnover
  PROVE  [Succession!Next]_([h \in Gen |-> OwnerSeen(h)])
<1>1. proc'[g] = "dead" /\ \A h \in Gen \ {g} : proc'[h] = proc[h]
  BY EndsFacts DEF IInv
<1>2. OwnerSeen(g)' = "gone" /\ \A h \in Gen \ {g} : OwnerSeen(h)' = OwnerSeen(h)
  BY <1>1 DEF OwnerSeen, Retired
<1>3. CASE OwnerSeen(g) = "gone"
  <2>1. \A h \in Gen : OwnerSeen(h)' = OwnerSeen(h)
    BY <1>2, <1>3
  <2>. QED  BY <2>1, NobodyChanges
<1>4. CASE OwnerSeen(g) # "gone"
  <2>1. Succession!Goes(g)
    BY <1>2, <1>4, OneChanges DEF Succession!Goes, Succession!MayGo
  <2>. QED  BY <2>1 DEF Succession!Next
<1>. QED  BY <1>3, <1>4

\* The child that gets the lock comes: nobody else is an owner, for whoever is has it.
LEMMA LockingIsComing ==
  ASSUME IInv, AskedWasUp, NEW g \in Gen, ContendsForTheLock(g), lock = 0
  PROVE  [Succession!Next]_([h \in Gen |-> OwnerSeen(h)])
<1>. DEFINE seen == [h \in Gen |-> OwnerSeen(h)]
<1>1. proc[g] = "starting" /\ turnover' = turnover
  BY DEF ContendsForTheLock
<1>2. CASE Ends(g)
  BY <1>1, <1>2, EndingIsGoing
<1>3. CASE ~Ends(g)
  <2>1. proc' = [proc EXCEPT ![g] = "locked"]
    BY <1>3 DEF ContendsForTheLock
  <2>2. g \notin turnover /\ OwnerSeen(g) = "unborn"
    BY <1>1 DEF AskedWasUp, OwnerSeen
  <2>3. OwnerSeen(g)' = "up" /\ \A h \in Gen \ {g} : OwnerSeen(h)' = OwnerSeen(h)
    BY <1>1, <2>1, <2>2 DEF OwnerSeen, Retired, IInv, TypeOK
  <2>4. ASSUME NEW h \in Gen PROVE OwnerSeen(h) \in {"unborn", "gone"}
    <3>1. proc[h] \in Phase /\ proc[h] \notin Holding
      BY GenFacts DEF IInv, InPlace, TypeOK, ChildrenInPlace, HoldsTheLock
    <3>. QED  BY <3>1 DEF OwnerSeen, Phase, Holding
  <2>5. Succession!MayCome(seen, g)
    BY <2>2, <2>4 DEF Succession!MayCome
  <2>6. Succession!Comes(g)
    BY <2>3, <2>5, OneChanges DEF Succession!Comes
  <2>. QED  BY <2>6 DEF Succession!Next
<1>. QED  BY <1>2, <1>3

\* A child that leaves or is asked to stand down retires, if it had not before.
LEMMA LeavingIsRetiring ==
  ASSUME NEW g \in Gen, OwnerSeen(g) \in {"up", "retiring"}, OwnerSeen(g)' = "retiring",
         \A h \in Gen \ {g} : OwnerSeen(h)' = OwnerSeen(h)
  PROVE  [Succession!Next]_([h \in Gen |-> OwnerSeen(h)])
<1>1. CASE OwnerSeen(g) = "up"
  <2>1. Succession!Retires(g)
    BY <1>1, OneChanges DEF Succession!Retires, Succession!MayRetire
  <2>. QED  BY <2>1 DEF Succession!Next
<1>2. CASE OwnerSeen(g) = "retiring"
  <2>1. \A h \in Gen : OwnerSeen(h)' = OwnerSeen(h)
    BY <1>2
  <2>. QED  BY <2>1, NobodyChanges
<1>. QED  BY <1>1, <1>2

\* A child that goes on, from one phase of an owner to another.
LEMMA GoingOnIsUnseen ==
  ASSUME IInv, NEW g \in Gen, proc[g] \in Holding \ {"leaving"},
         NEW q \in Holding \ {"leaving"}, proc' = [proc EXCEPT ![g] = q],
         turnover' = turnover
  PROVE  [Succession!Next]_([h \in Gen |-> OwnerSeen(h)])
<1>1. \A h \in Gen : OwnerSeen(h)' = OwnerSeen(h)
  BY DEF OwnerSeen, Retired, Holding, IInv, TypeOK
<1>. QED  BY <1>1, NobodyChanges

LEMMA FrontendInSuccession ==
  ASSUME IInv, NEW f \in Frontend, FrontendStep(f)
  PROVE  [Succession!Next]_([h \in Gen |-> OwnerSeen(h)])
<1>1. CASE Looks(f)
  <2>1. /\ proc' = proc
        /\ \/ turnover' = turnover
           \/ turnover' = turnover \cup {canonical} /\ canonical # 0 /\ Listening(canonical)
    BY <1>1 DEF Looks, FindsNothing, FindsStale, FindsRefused, FindsSilent,
       FindsAnswering, LeavesTheRivalAlone, Published
  <2>2. CASE turnover' = turnover
    <3>1. \A h \in Gen : OwnerSeen(h)' = OwnerSeen(h)
      BY <2>1, <2>2 DEF OwnerSeen, Retired
    <3>. QED  BY <3>1, NobodyChanges
  <2>3. CASE turnover' = turnover \cup {canonical} /\ canonical # 0 /\ Listening(canonical)
    <3>1. PICK g \in Gen : g = canonical
      BY <2>3, GenFacts DEF IInv, TypeOK
    <3>2. OwnerSeen(g) \in {"up", "retiring"} /\ OwnerSeen(g)' = "retiring"
      BY <2>1, <2>3, <3>1 DEF OwnerSeen, Retired, Listening
    <3>3. \A h \in Gen \ {g} : OwnerSeen(h)' = OwnerSeen(h)
      BY <2>1, <2>3, <3>1 DEF OwnerSeen, Retired
    <3>. QED  BY <3>2, <3>3, LeavingIsRetiring
  <2>. QED  BY <2>1, <2>2, <2>3
<1>2. CASE Spawns(f)
  <2>1. PICK g \in Gen : proc[g] = "unborn" /\ proc' = [proc EXCEPT ![g] = "starting"]
    BY <1>2 DEF Spawns
  <2>2. \A h \in Gen : OwnerSeen(h)' = OwnerSeen(h)
    BY <1>2, <2>1 DEF Spawns, OwnerSeen, Retired, IInv, TypeOK
  <2>. QED  BY <2>2, NobodyChanges
<1>3. CASE Waits(f)
  <2>1. turnover' = turnover /\ child[f] \in Gen /\ child[f] # 0
    BY <1>3, WaitsFacts DEF IInv
  <2>2. CASE proc' = proc
    <3>1. \A h \in Gen : OwnerSeen(h)' = OwnerSeen(h)
      BY <2>1, <2>2 DEF OwnerSeen, Retired
    <3>. QED  BY <3>1, NobodyChanges
  <2>3. CASE Ends(child[f])
    BY <2>1, <2>3, EndingIsGoing
  <2>. QED  BY <1>3, <2>1, <2>2, <2>3, WaitsFacts, AbandonsFacts DEF IInv
<1>4. CASE RunsOutOfTime(f) \/ LosesItsOwner(f) \/ HoldsBack(f) \/ SendsCommit(f)
           \/ FrontendDies(f)
  <2>1. proc' = proc /\ turnover' = turnover
    BY <1>4 DEF RunsOutOfTime, LosesItsOwner, HoldsBack, SendsCommit, FrontendDies, children
  <2>2. \A h \in Gen : OwnerSeen(h)' = OwnerSeen(h)
    BY <2>1 DEF OwnerSeen, Retired
  <2>. QED  BY <2>2, NobodyChanges
<1>. QED  BY <1>1, <1>2, <1>3, <1>4 DEF FrontendStep, Waits

LEMMA ChildInSuccession ==
  ASSUME IInv, AskedWasUp, NEW g \in Gen,
         ChildProceeds(g) \/ FailsToStart(g) \/ Retires(g) \/ Crashes(g) \/ Discards(g)
  PROVE  [Succession!Next]_([h \in Gen |-> OwnerSeen(h)])
<1>1. CASE ContendsForTheLock(g) /\ lock = 0
  BY <1>1, LockingIsComing
<1>2. CASE \/ FailsToStart(g) \/ HearsTheStarterGo(g) \/ AuthorizationTimesOut(g)
           \/ Stops(g) \/ Crashes(g) \/ (ContendsForTheLock(g) /\ lock # 0)
           \/ (Commits(g) /\ Ends(g))
  <2>1. Ends(g) /\ turnover' = turnover
    BY <1>2 DEF FailsToStart, HearsTheStarterGo, AuthorizationTimesOut, Stops, Crashes,
       ContendsForTheLock, Commits
  <2>. QED  BY <2>1, EndingIsGoing
<1>3. CASE Prepares(g) \/ Reconciles(g) \/ (Commits(g) /\ ~Ends(g))
  <2>1. /\ proc[g] \in {"locked", "prepared", "uncertain"} /\ turnover' = turnover
        /\ \E q \in {"prepared", "uncertain", "serving"} : proc' = [proc EXCEPT ![g] = q]
    BY <1>3 DEF Prepares, Reconciles, Commits
  <2>. QED  BY <2>1, GoingOnIsUnseen DEF Holding
<1>4. CASE Retires(g) \/ TurnsOver(g)
  <2>1. /\ proc[g] \in {"serving", "uncertain"} /\ turnover' = turnover
        /\ proc' = [proc EXCEPT ![g] = "leaving"]
    BY <1>4 DEF Retires, TurnsOver
  <2>2. OwnerSeen(g) \in {"up", "retiring"} /\ OwnerSeen(g)' = "retiring"
        /\ \A h \in Gen \ {g} : OwnerSeen(h)' = OwnerSeen(h)
    BY <2>1 DEF OwnerSeen, Retired, IInv, TypeOK
  <2>. QED  BY <2>2, LeavingIsRetiring
<1>5. CASE Discards(g)
  <2>1. \A h \in Gen : OwnerSeen(h)' = OwnerSeen(h)
    BY <1>5 DEF Discards, children, OwnerSeen, Retired
  <2>. QED  BY <2>1, NobodyChanges
<1>. QED  BY <1>1, <1>2, <1>3, <1>4, <1>5 DEF ChildProceeds

(***************************************************************************)
(* Theorems                                                                *)
(***************************************************************************)

\* The inductive invariant: where the lock is, what was authorized, what is on
\* disk and what a frontend has given up, for every frontend and generation.
THEOREM InPlaceAlways == Spec => []IInv
BY Initially, StepKeeps, PTL DEF Spec

\* Every variable keeps its type; a frontend waits on a child exactly while it
\* has one, and the lock is never with a process that has ended.
THEOREM ElectionTyped == Spec => []TypeOK
BY InPlaceAlways, PTL DEF IInv

\* No frontend ever kills the owner the descriptor names, or takes its token,
\* whatever verdicts, frontends and children are lost on the way.
THEOREM NeverUndone == Spec => []PublishedIsNeverUndone
<1>1. IInv => PublishedIsNeverUndone
  BY DEF IInv, InPlace
<1>. QED  BY <1>1, InPlaceAlways, PTL

\* A frontend writes off only what it could not use: an older build's owner, or
\* one that has closed admission.
THEOREM BurialsAreEarned == Spec => []OnlyTheUnusableAreBuried
<1>1. IInv => OnlyTheUnusableAreBuried
  BY DEF IInv, InPlace, Burials, BuriedIsUnusable, OnlyTheUnusableAreBuried
<1>. QED  BY <1>1, InPlaceAlways, PTL

\* The canonical descriptor is replaced only by the holder of the daemon lock,
\* with its starter's record.
THEOREM PublishesUnderTheLock == Spec => PublishedUnderTheLock
<1>1. ASSUME IInv, Next, canonical' # canonical
      PROVE  lock = canonical' /\ control[canonical'] = "commit"
  <2>1. \A f \in Frontend : ~FrontendStep(f)
    BY <1>1 DEF FrontendStep, Looks, RunsOutOfTime, LosesItsOwner, Spawns, HoldsBack,
       SendsCommit, RejectsThePrepared, StopsTheUnprepared, HearsOfTheCommit,
       StopsTheGivenUp, SettlesTheMissing, FrontendDies, disk
  <2>2. PICK g \in Gen : Commits(g) \/ Reconciles(g)
    BY <1>1, <2>1 DEF Next, ChildProceeds, ContendsForTheLock, Prepares,
       HearsTheStarterGo,
       AuthorizationTimesOut, TurnsOver, Stops, FailsToStart, Retires, Crashes, Discards, disk
  <2>3. canonical' = g /\ proc[g] \in {"prepared", "uncertain"}
    BY <1>1, <2>2 DEF Commits, Reconciles, Renames
  <2>4. lock = g /\ (proc[g] = "uncertain" => control[g] = "commit")
    BY <1>1, <2>3 DEF IInv, InPlace, ChildrenInPlace, HoldsTheLock, Authorized, Holding
  <2>5. proc[g] = "prepared" => control[g] = "commit"
    BY <2>2 DEF Commits, GoAhead, Reconciles
  <2>. QED  BY <2>3, <2>4, <2>5
<1>2. IInv /\ [Next]_vars
        => [canonical' # canonical =>
              lock = canonical' /\ control[canonical'] = "commit"]_vars
  BY <1>1
<1>. QED  BY <1>2, InPlaceAlways, PTL DEF Spec, PublishedUnderTheLock

\* Election implements OwnerSuccession: the owners of a profile come one after the
\* other, each when the one before it is gone, and one that has closed admission
\* does not open it again, however many children are started, lost and killed.
THEOREM OwnersSucceedEachOther == Spec => OneOwnerAfterAnother
<1>1. Init => Succession!Init /\ AskedWasUp
  <2>. SUFFICES ASSUME Init PROVE Succession!Init /\ AskedWasUp
    OBVIOUS
  <2>1. \A g \in Gen : OwnerSeen(g) = "unborn"
    BY DEF Init, OwnerSeen
  <2>. QED  BY <2>1 DEF Init, Succession!Init, AskedWasUp
<1>2. IInv /\ AskedWasUp /\ [Next]_vars => [Succession!Next]_([g \in Gen |-> OwnerSeen(g)])
  <2>. SUFFICES ASSUME IInv, AskedWasUp, [Next]_vars
                PROVE  [Succession!Next]_([g \in Gen |-> OwnerSeen(g)])
    OBVIOUS
  <2>1. CASE UNCHANGED vars
    <3>1. \A h \in Gen : OwnerSeen(h)' = OwnerSeen(h)
      BY <2>1 DEF vars, children, OwnerSeen, Retired
    <3>. QED  BY <3>1, NobodyChanges
  <2>. QED  BY <2>1, FrontendInSuccession, ChildInSuccession DEF Next
<1>. QED  BY InPlaceAlways, AskedStaysUp, <1>1, <1>2, PTL
     DEF Spec, OneOwnerAfterAnother, Succession!Spec

(***************************************************************************)
(* The lock is put to use                                                  *)
(***************************************************************************)

\* A child's own descriptor is there for it to publish until it has published it.
StagedIsThere(g) ==
  /\ proc[g] = "prepared" => g \in pending
  /\ proc[g] = "uncertain" => g \in pending \/ canonical = g
NothingStagedIsLost == \A g \in Gen : StagedIsThere(g)

\* What a child that holds the lock can be at next.
Later(phase) ==
  CASE phase = "locked" -> {"prepared"}
    [] phase = "prepared" -> {"uncertain", "serving"}
    [] phase = "uncertain" -> {"serving", "leaving"}
    [] phase = "serving" -> {"leaving"}
    [] OTHER -> {}

\* A frontend does nothing to a child but start it, ask it to stand down or end it.
LEMMA FrontendsLetThemBe ==
  ASSUME IInv, NEW f \in Frontend, FrontendStep(f), NEW g \in Gen
  PROVE  /\ UNCHANGED <<canonical, pending>>
         /\ \/ proc'[g] = proc[g] /\ (lock' = g <=> lock = g)
            \/ proc'[g] = "dead" /\ lock' # g
            \/ proc[g] = "unborn" /\ proc'[g] = "starting" /\ lock' = lock
<1>. USE DEF IInv, TypeOK
<1>1. UNCHANGED <<canonical, pending>>
  BY DEF FrontendStep, Looks, RunsOutOfTime, LosesItsOwner, Spawns, HoldsBack,
     SendsCommit, RejectsThePrepared, StopsTheUnprepared, HearsOfTheCommit,
     StopsTheGivenUp, SettlesTheMissing, FrontendDies, disk
<1>2. CASE Spawns(f)
  BY <1>1, <1>2 DEF Spawns
<1>3. CASE Waits(f)
  <2>1. child[f] \in Gen /\ child[f] # 0
    BY <1>3, WaitsFacts
  <2>2. CASE Ends(child[f])
    BY <1>1, <2>1, <2>2, EndsFacts
  <2>3. CASE UNCHANGED <<proc, lock>>
    BY <1>1, <2>3
  <2>. QED  BY <1>3, <2>1, <2>2, <2>3, WaitsFacts, AbandonsFacts
<1>4. CASE Looks(f) \/ RunsOutOfTime(f) \/ LosesItsOwner(f) \/ HoldsBack(f) \/ SendsCommit(f)
           \/ FrontendDies(f)
  BY <1>1, <1>4 DEF Looks, RunsOutOfTime, LosesItsOwner, HoldsBack, SendsCommit,
     FrontendDies, children
<1>. QED  BY <1>2, <1>3, <1>4 DEF FrontendStep, Waits

\* A child's own steps take it on, or end it, and leave the others alone.
LEMMA ChildrenGetOn ==
  ASSUME IInv, NEW g \in Gen,
         ChildProceeds(g) \/ FailsToStart(g) \/ Retires(g) \/ Crashes(g)
  PROVE  /\ \A h \in Gen \ {g} : proc'[h] = proc[h] /\ (lock = h => lock' = h)
         /\ \/ lock' # g /\ proc'[g] = "dead"
            \/ lock' = g /\ (lock = g => proc'[g] \in Later(proc[g]))
<1>. USE GenFacts DEF IInv, TypeOK
<1>1. CASE \/ FailsToStart(g) \/ HearsTheStarterGo(g) \/ AuthorizationTimesOut(g)
           \/ Stops(g) \/ Crashes(g) \/ (ContendsForTheLock(g) /\ lock # 0)
           \/ (Commits(g) /\ Ends(g))
  <2>1. Ends(g)
    BY <1>1 DEF FailsToStart, HearsTheStarterGo, AuthorizationTimesOut, Stops, Crashes,
       ContendsForTheLock, Commits
  <2>. QED  BY <2>1, EndsFacts
<1>2. CASE ContendsForTheLock(g) /\ lock = 0
  BY <1>2 DEF ContendsForTheLock, Ends
<1>3. CASE Prepares(g) \/ Reconciles(g) \/ Retires(g) \/ TurnsOver(g) \/ (Commits(g) /\ ~Ends(g))
  <2>1. /\ lock = g
        /\ \E q \in Later(proc[g]) : proc' = [proc EXCEPT ![g] = q]
    BY <1>3 DEF Prepares, Reconciles, Retires, TurnsOver, Commits, Later, InPlace,
       ChildrenInPlace, HoldsTheLock, Holding
  <2>2. lock' = lock
    BY <1>3 DEF Prepares, Reconciles, Retires, TurnsOver, Commits
  <2>. QED  BY <2>1, <2>2 DEF Later
<1>. QED  BY <1>1, <1>2, <1>3 DEF ChildProceeds

\* Whoever holds the lock keeps what it staged: only it may sweep, rename or have it
\* discarded, the last because it must have died for that.
LEMMA StagedStays == IInv /\ NothingStagedIsLost /\ [Next]_vars => NothingStagedIsLost'
<1>. SUFFICES ASSUME IInv, NothingStagedIsLost, [Next]_vars, NEW h \in Gen
              PROVE  StagedIsThere(h)'
  BY DEF NothingStagedIsLost
<1>. USE DEF NothingStagedIsLost, StagedIsThere
<1>1. CASE UNCHANGED vars
  BY <1>1 DEF vars, children, disk
<1>2. ASSUME NEW f \in Frontend, FrontendStep(f) PROVE StagedIsThere(h)'
  BY <1>2, FrontendsLetThemBe
<1>3. ASSUME NEW g \in Gen, Discards(g) PROVE StagedIsThere(h)'
  <2>1. proc' = proc /\ canonical' = canonical /\ pending' = pending \ {g} /\ proc[g] = "dead"
    BY <1>3 DEF Discards, children, IInv, InPlace, ChildrenInPlace, DoomedIsUnpublished
  <2>. QED  BY <2>1
<1>4. ASSUME NEW g \in Gen, FailsToStart(g) \/ Retires(g) \/ Crashes(g)
                            \/ ContendsForTheLock(g) \/ HearsTheStarterGo(g)
                            \/ AuthorizationTimesOut(g) \/ TurnsOver(g) \/ Stops(g)
      PROVE  StagedIsThere(h)'
  <2>1. UNCHANGED <<canonical, pending>>
    BY <1>4 DEF FailsToStart, Retires, Crashes, ContendsForTheLock, HearsTheStarterGo,
       AuthorizationTimesOut, TurnsOver, Stops, disk
  <2>2. proc'[h] = proc[h] \/ proc'[h] \in {"dead", "locked", "leaving"}
    BY <1>4 DEF FailsToStart, Retires, Crashes, ContendsForTheLock, HearsTheStarterGo,
       AuthorizationTimesOut, TurnsOver, Stops, Ends, IInv, TypeOK
  <2>. QED  BY <2>1, <2>2
<1>5. ASSUME NEW g \in Gen, Prepares(g) \/ Commits(g) \/ Reconciles(g)
      PROVE  StagedIsThere(h)'
  <2>1. proc[g] \in {"locked", "prepared", "uncertain"} /\ lock = g
    BY <1>5 DEF Prepares, Commits, Reconciles, IInv, InPlace, ChildrenInPlace,
       HoldsTheLock, Holding
  <2>2. CASE h = g
    BY <1>5, <2>1, <2>2 DEF Prepares, Commits, Reconciles, Renames, Ends, disk, IInv, TypeOK
  <2>3. CASE h # g
    <3>1. proc[h] \notin Holding
      BY <2>1, <2>3 DEF IInv, InPlace, ChildrenInPlace, HoldsTheLock
    <3>2. proc'[h] = proc[h]
      BY <1>5, <2>3, ChildrenGetOn DEF ChildProceeds
    <3>. QED  BY <3>1, <3>2 DEF Holding
  <2>. QED  BY <2>2, <2>3
<1>. QED  BY <1>1, <1>2, <1>3, <1>4, <1>5 DEF Next, ChildProceeds

\* What the holder of the lock is at changes only for something later.
LEMMA HoldersOnlyGetOn ==
  ASSUME IInv, [Next]_vars, NEW g \in Gen, lock = g
  PROVE  lock' # g \/ (lock' = g /\ (proc'[g] = proc[g] \/ proc'[g] \in Later(proc[g])))
<1>1. CASE UNCHANGED vars
  BY <1>1 DEF vars, children
<1>2. ASSUME NEW f \in Frontend, FrontendStep(f)
      PROVE  lock' # g \/ (lock' = g /\ proc'[g] = proc[g])
  BY <1>2, FrontendsLetThemBe, GenFacts DEF IInv, TypeOK
<1>3. ASSUME NEW h \in Gen, ChildProceeds(h) \/ FailsToStart(h) \/ Retires(h) \/ Crashes(h)
      PROVE  lock' # g \/ (lock' = g /\ (proc'[g] = proc[g] \/ proc'[g] \in Later(proc[g])))
  BY <1>3, ChildrenGetOn
<1>4. ASSUME NEW h \in Gen, Discards(h) PROVE lock' = g /\ proc'[g] = proc[g]
  BY <1>4 DEF Discards, children
<1>. QED  BY <1>1, <1>2, <1>3, <1>4 DEF Next

\* A child that holds the lock, and is not serving, has a step of its own to take.  A
\* reader sees that, and TLC; the provers know nothing of ENABLED.
HoldersCanProceed ==
  \A g \in Gen :
    /\ lock = g
    /\ \/ proc[g] \in {"locked", "prepared", "leaving"}
       \/ proc[g] = "uncertain" /\ (g \in pending \/ canonical = g)
    => ENABLED <<ChildProceeds(g)>>_vars

\* A child that takes the lock serves or gives it back, whatever becomes of its starter:
\* each of its steps brings it nearer to that, and it goes on taking them.
THEOREM TheLockIsPutToUse == Spec /\ []HoldersCanProceed => LockIsPutToUse
<1>1. Spec => []NothingStagedIsLost
  <2>1. Init => NothingStagedIsLost
    BY DEF Init, NothingStagedIsLost, StagedIsThere
  <2>. QED  BY <2>1, StagedStays, InPlaceAlways, PTL DEF Spec
<1>2. ASSUME NEW g \in Gen
      PROVE  Spec /\ []HoldersCanProceed => (lock = g ~> lock # g \/ proc[g] = "serving")
  <2>. DEFINE At(phase) == lock = g /\ proc[g] = phase
              Good == lock # g \/ proc[g] = "serving"
  <2>1. IInv => Good \/ At("locked") \/ At("prepared") \/ At("uncertain") \/ At("leaving")
    BY GenFacts DEF IInv, TypeOK, Phase
  <2>2. IInv /\ [Next]_vars /\ At("locked") => Good' \/ At("locked")' \/ At("prepared")'
    BY HoldersOnlyGetOn DEF Later
  <2>3. IInv /\ [Next]_vars /\ At("prepared") => Good' \/ At("prepared")' \/ At("uncertain")'
    BY HoldersOnlyGetOn DEF Later
  <2>4. IInv /\ [Next]_vars /\ At("uncertain") => Good' \/ At("uncertain")' \/ At("leaving")'
    BY HoldersOnlyGetOn DEF Later
  <2>5. IInv /\ [Next]_vars /\ At("leaving") => Good' \/ At("leaving")'
    BY HoldersOnlyGetOn DEF Later
  <2>6. IInv /\ <<Next /\ ChildProceeds(g)>>_vars /\ At("locked") => Good' \/ At("prepared")'
    BY ChildrenGetOn DEF Later
  <2>7. IInv /\ <<Next /\ ChildProceeds(g)>>_vars /\ At("prepared") => Good' \/ At("uncertain")'
    BY ChildrenGetOn DEF Later
  <2>8. IInv /\ <<Next /\ ChildProceeds(g)>>_vars /\ At("uncertain") => Good' \/ At("leaving")'
    BY ChildrenGetOn DEF Later
  <2>9. IInv /\ <<Next /\ ChildProceeds(g)>>_vars /\ At("leaving") => Good'
    BY ChildrenGetOn DEF Later
  <2>10. NothingStagedIsLost /\ HoldersCanProceed
           /\ (At("locked") \/ At("prepared") \/ At("uncertain") \/ At("leaving"))
           => ENABLED <<ChildProceeds(g)>>_vars
    BY DEF NothingStagedIsLost, StagedIsThere, HoldersCanProceed
  <2>11. Fairness => KeepsOn(g)
    BY DEF Fairness
  <2>. HIDE DEF At
  <2>12. Good <=> (lock # g \/ proc[g] = "serving")
    OBVIOUS
  <2>. QED  BY <1>1, <2>1, <2>2, <2>3, <2>4, <2>5, <2>6, <2>7, <2>8, <2>9, <2>10, <2>11,
               InPlaceAlways, PTL DEF Spec, KeepsOn
<1>. QED  BY <1>2 DEF LockIsPutToUse
===============================================================================
