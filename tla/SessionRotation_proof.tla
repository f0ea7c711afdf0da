--------------------------- MODULE SessionRotation_proof ---------------------------
(* What replacing a session promises, for any processes and any bounds.  The        *)
(* argument: files are moved only by the process that holds the profile, so what    *)
(* lies where is known at each of its steps, and everybody else's steps leave it.   *)
(* A worker that stages late breaks this, and a browser directory that would not    *)
(* go: what is said of the files is said as long as neither has happened.           *)
EXTENDS SessionRotation, TLAPS

\* The artifacts that are there are of one session; no artifact of one place is of
\* another session than one of the other.
Coherent(place) == \A a, b \in Present(place) : place[a] = place[b]
Joint(x, y) == \A a \in Present(x), b \in Present(y) : x[a] = y[b]

SigningIn(p) == task[p] \in {"login", "import"}
LoginSteps == {"opens", "opened", "exported", "committed"}
ImportSteps == {"staging", "staged", "validating"}
Making == LoginSteps \cup ImportSteps
Restoring == {"parks", "putsBack", "retiresAgain"}

\* The types of what is on disk, of what the processes keep, and of the rest.
FilesTyped ==
  /\ live \in Contents
  /\ kept \in [Quarantine -> Contents] /\ debris \in [Quarantine -> Contents]
  /\ rotations \in 0..MaxQuarantine /\ minted \in 0..MaxSession
  /\ established \subseteq Session /\ forgotten \subseteq Session

TasksTyped ==
  /\ task \in [Proc -> {"none", "retire", "login", "import", "logout"}]
  /\ pc \in [Proc -> Steps]
  /\ guard \in [Proc -> {Unguarded, NoSession} \cup Session]
  /\ todo \in [Proc -> SUBSET Artifact] /\ moved \in [Proc -> SUBSET Artifact]
  /\ retired \in [Proc -> Quarantine \cup {NoQuarantine}]
  /\ fresh \in [Proc -> Session \cup {NoSession}]
  /\ adrift \in [Proc -> Session \cup {NoSession}]

RestTyped ==
  /\ lease \in Proc \cup {Nobody}
  /\ mishaps \in 0..MaxMishaps
  /\ tainted \in BOOLEAN /\ spoiled \in [Proc -> BOOLEAN]
  /\ before \in [Proc -> Session \cup {NoSession}]

\* Who may be where, and who holds the profile.
Placed ==
  \A p \in Proc :
    /\ pc[p] = "idle" <=> task[p] = "none"
    /\ pc[p] \in {"lists", "holds", "moves", "undoes"} => task[p] \in {"retire", "login", "import"}
    /\ pc[p] \in LoginSteps => task[p] = "login"
    /\ pc[p] \in ImportSteps => task[p] = "import"
    /\ pc[p] \in Restoring \cup {"stuck", "asks"} => SigningIn(p)
    /\ pc[p] \in {"asked", "deletes"} => task[p] = "logout"
    /\ pc[p] \in {"moves", "undoes", "deletes"} => lease = p
    /\ SigningIn(p) /\ pc[p] # "asks" => lease = p
    /\ pc[p] \in {"idle", "asks", "asked"} => lease # p

\* What a process says about itself, whether or not it holds the profile.
Kempt ==
  /\ \A p \in Proc :
       /\ lease # p => retired[p] = NoQuarantine /\ fresh[p] = NoSession
       /\ pc[p] \in {"idle", "asks", "lists", "holds"} => retired[p] = NoQuarantine
       /\ pc[p] \in {"idle", "asks", "lists", "holds", "moves", "undoes"} =>
            fresh[p] = NoSession
       /\ pc[p] \in {"idle", "asks", "lists"} => moved[p] = {} /\ todo[p] = {}
       /\ pc[p] \in {"holds", "parks"} \cup Making => moved[p] = {}
       /\ pc[p] \in Making => todo[p] = {}
       /\ pc[p] \in {"moves", "undoes"} \cup Restoring => retired[p] # NoQuarantine
       /\ fresh[p] # NoSession => SigningIn(p)
       /\ retired[p] <= rotations
       /\ fresh[p] <= minted
       /\ pc[p] = "opens" => fresh[p] = NoSession
       /\ pc[p] \in {"opened", "exported", "committed", "staged", "validating"} =>
            fresh[p] # NoSession
       /\ pc[p] \in {"opened", "exported"} \cup ImportSteps => fresh[p] \notin established
  /\ established \subseteq 1..minted
  /\ \A q \in Quarantine : q > rotations => kept[q] = Nothing /\ debris[q] = Nothing

\* Each part of a session that worked is somewhere.
Somewhere(s, a) ==
  \/ live[a] = s
  \/ \E q \in Quarantine : kept[q][a] = s \/ debris[q][a] = s

\* The files, whoever holds the profile.
Orderly ==
  /\ Coherent(live)
  /\ \A q \in Quarantine : Coherent(kept[q]) /\ Coherent(debris[q])
  /\ \A s \in established \ forgotten : \A a \in Artifact : Somewhere(s, a)

\* The files at each step of the process that holds the profile, with what it has
\* moved away.
Laid(p) ==
  LET q == retired[p] IN
  /\ pc[p] = "holds" /\ SigningIn(p) => todo[p] = Present(live)
  /\ pc[p] = "moves" =>
       /\ Joint(live, kept[q]) /\ debris[q] = Nothing
       /\ Present(kept[q]) = moved[p] /\ moved[p] \cap Present(live) = {}
       /\ todo[p] \cap moved[p] = {}
       /\ SigningIn(p) => todo[p] = Present(live)
  /\ pc[p] = "undoes" =>
       /\ Joint(live, kept[q]) /\ moved[p] \cap Present(live) = {}
  /\ pc[p] \in {"opens", "staging"} => live = Nothing
  /\ pc[p] \in Making /\ q # NoQuarantine => debris[q] = Nothing
  /\ pc[p] = "opened" => live = [Nothing EXCEPT !["profile"] = fresh[p]]
  /\ pc[p] \in {"exported", "validating"} =>
       live = [Nothing EXCEPT !["profile"] = fresh[p], !["cookies"] = fresh[p]]
  /\ pc[p] = "committed" => Whole(live, fresh[p])
  /\ pc[p] = "staged" => live = [Nothing EXCEPT !["cookies"] = fresh[p]]
  /\ pc[p] = "parks" =>
       /\ Joint(live, debris[q]) /\ Present(debris[q]) \cap Present(live) = {}
       /\ Ready(live) => Whole(live, fresh[p]) /\ todo[p] = {}
  /\ pc[p] \in {"putsBack", "retiresAgain"} =>
       /\ Joint(live, kept[q])
       /\ Present(kept[q]) \cap Present(live) = {}
       /\ moved[p] \subseteq Present(live)
  /\ pc[p] = "putsBack" => todo[p] = Present(kept[q]) /\ moved[p] = Present(live)
  /\ pc[p] = "retiresAgain" => ~Ready(live)
  /\ pc[p] = "deletes" => established \subseteq forgotten

\* Where the session is that a sign-in found, as long as nothing has gone wrong.
Accounted(p, s) ==
  LET q == retired[p] IN
  /\ pc[p] \in {"lists", "holds"} => Whole(live, s)
  /\ pc[p] = "moves" =>
       \A a \in Artifact :
         (live[a] = s /\ a \in todo[p]) \/ (kept[q][a] = s /\ a \in moved[p])
  /\ pc[p] \notin {"undoes", "retiresAgain"}
  /\ pc[p] \in Making \cup {"parks"} => q # NoQuarantine /\ Whole(kept[q], s)
  /\ pc[p] = "putsBack" => \A a \in Artifact : live[a] = s \/ kept[q][a] = s
  /\ pc[p] = "ends" => Whole(live, s) \/ Whole(live, fresh[p])

\* A session is moved away or deleted by a process that meant it.
Meant(p) ==
  pc[p] \in {"moves", "deletes"} \/ (pc[p] \in {"lists", "holds"} /\ SigningIn(p)) =>
    \A s \in Session : Whole(live, s) => guard[p] \in {Unguarded, s}

InHand(p) ==
  /\ Laid(p) /\ Meant(p)
  /\ SigningIn(p) /\ ~spoiled[p] /\ before[p] # NoSession => Accounted(p, before[p])

Holding == \A p \in Proc : lease = p => InHand(p)

Basics == FilesTyped /\ TasksTyped /\ RestTyped /\ Placed /\ Kempt

IInv == Basics /\ (tainted \/ (Orderly /\ Holding))

LEMMA TypesFollow == Basics => TypeOK
BY DEF Basics, FilesTyped, TasksTyped, RestTyped, Placed, TypeOK, Steps

LEMMA Bounds ==
  /\ MaxSession \in Nat /\ MaxQuarantine \in Nat /\ MaxMishaps \in Nat
  /\ Session = 1..MaxSession /\ Quarantine = 1..MaxQuarantine
  /\ NoSession = 0 /\ NoQuarantine = 0 /\ Unguarded = -1
  /\ Nothing \in Contents /\ Nobody \notin Proc
  /\ Artifact = {"profile", "cookies", "state"}
BY BoundsAreNumbers, ProcsAreNamed DEF Session, Quarantine, NoSession, NoQuarantine,
   Unguarded,
   Nothing, Contents, Nobody, Artifact

\* What putting one artifact somewhere makes of it.
Put(f, q, a, s) == [f EXCEPT ![q][a] = s]

LEMMA PutsOne ==
  ASSUME NEW f \in [Quarantine -> Contents], NEW q \in Quarantine, NEW a \in Artifact,
         NEW s \in Session \cup {NoSession}
  PROVE  /\ Put(f, q, a, s) \in [Quarantine -> Contents]
         /\ Put(f, q, a, s)[q][a] = s
         /\ \A b \in Artifact : b # a => Put(f, q, a, s)[q][b] = f[q][b]
         /\ \A r \in Quarantine : r # q => Put(f, q, a, s)[r] = f[r]
<1>. DEFINE g == Put(f, q, a, s)
<1>1. g = [r \in Quarantine |-> IF r = q THEN [f[q] EXCEPT ![a] = s] ELSE f[r]]
  BY DEF Put
<1>2. f[q] \in Contents
  OBVIOUS
<1>3. [f[q] EXCEPT ![a] = s] = [b \in Artifact |-> IF b = a THEN s ELSE f[q][b]]
  BY <1>2 DEF Contents
<1>4. [f[q] EXCEPT ![a] = s] \in Contents
  BY <1>2, <1>3 DEF Contents
<1>. HIDE DEF g
<1>5. g \in [Quarantine -> Contents] /\ \A r \in Quarantine : r # q => g[r] = f[r]
  BY <1>1, <1>4
<1>6. g[q] = [b \in Artifact |-> IF b = a THEN s ELSE f[q][b]]
  BY <1>1, <1>3
<1>. QED  BY <1>5, <1>6 DEF g

LEMMA PutsLive ==
  ASSUME NEW f \in Contents, NEW a \in Artifact, NEW s \in Session \cup {NoSession},
         NEW g, g = [f EXCEPT ![a] = s]
  PROVE  /\ g \in Contents /\ g[a] = s
         /\ \A b \in Artifact : b # a => g[b] = f[b]
BY DEF Contents

LEMMA ForemostIsOne ==
  ASSUME NEW S, S \subseteq Artifact, S # {}
  PROVE  Foremost(S) \in S /\ Foremost(S) \in Artifact
<1>1. \E a \in S : \A b \in S : Rank[a] <= Rank[b]
  <2>1. CASE "profile" \in S
    BY <2>1 DEF Artifact, Rank
  <2>2. CASE "profile" \notin S /\ "cookies" \in S
    BY <2>2 DEF Artifact, Rank
  <2>3. CASE S = {"state"}
    BY <2>3 DEF Rank
  <2>. QED  BY <2>1, <2>2, <2>3 DEF Artifact
<1>. QED  BY <1>1 DEF Foremost

(***************************************************************************)
(* The steps that move one artifact, seen from the one they move            *)
(***************************************************************************)

Slips(p) == mishaps' \in 0..MaxMishaps /\ spoiled' = [spoiled EXCEPT ![p] = TRUE]
Still == UNCHANGED <<mishaps, spoiled>>
Rest == <<task, guard, retired, fresh, adrift, tainted, before, established, forgotten, lease,
          rotations, minted>>

LEMMA FaultSlips == ASSUME Basics, NEW p \in Proc, Fault(p) PROVE Slips(p)
BY Bounds DEF Basics, RestTyped, Fault, Slips

LEMMA MovesAwayIs ==
  ASSUME Basics, NEW p \in Proc, MovesAway(p)
  PROVE  /\ pc[p] = "moves" /\ UNCHANGED <<Rest, debris>>
         /\ \E a \in todo[p] :
              \/ /\ live[a] # NoSession /\ a \in Artifact
                 /\ kept' = [kept EXCEPT ![retired[p]][a] = live[a]]
                 /\ live' = [live EXCEPT ![a] = NoSession]
                 /\ todo' = [todo EXCEPT ![p] = @ \ {a}]
                 /\ moved' = [moved EXCEPT ![p] = @ \cup {a}]
                 /\ UNCHANGED pc /\ Still
              \/ /\ a \in Artifact /\ Goes(p, "undoes") /\ UNCHANGED <<live, kept, todo, moved>>
                 /\ Slips(p) \/ (live[a] = NoSession /\ Still)
<1>1. Foremost(todo[p]) \in todo[p] /\ Foremost(todo[p]) \in Artifact
  BY ForemostIsOne DEF MovesAway, Basics, TasksTyped
<1>. QED  BY <1>1, FaultSlips DEF MovesAway, Rest, Still

LEMMA UndoesTheMovesIs ==
  ASSUME Basics, NEW p \in Proc, UndoesTheMoves(p)
  PROVE  /\ pc[p] = "undoes" /\ UNCHANGED <<Rest, debris, todo>>
         /\ \/ /\ moved[p] = {} /\ Goes(p, "ends") /\ UNCHANGED <<live, kept, moved>> /\ Still
            \/ \E a \in moved[p] :
                 /\ a \in Artifact /\ moved' = [moved EXCEPT ![p] = @ \ {a}] /\ UNCHANGED pc
                 /\ \/ /\ live' = [live EXCEPT ![a] = kept[retired[p]][a]]
                       /\ kept' = [kept EXCEPT ![retired[p]][a] = NoSession]
                       /\ Still
                    \/ Slips(p) /\ UNCHANGED <<live, kept>>
<1>1. moved[p] # {} => Foremost(moved[p]) \in moved[p] /\ Foremost(moved[p]) \in Artifact
  BY ForemostIsOne DEF Basics, TasksTyped
<1>. QED  BY <1>1, FaultSlips DEF UndoesTheMoves, Rest, Still

LEMMA RetiresAgainIs ==
  ASSUME Basics, NEW p \in Proc, RetiresAgain(p)
  PROVE  /\ pc[p] = "retiresAgain" /\ UNCHANGED <<Rest, debris, todo>>
         /\ \/ /\ moved[p] = {} /\ Goes(p, "ends") /\ UNCHANGED <<live, kept, moved>> /\ Still
            \/ \E a \in moved[p] :
                 /\ a \in Artifact /\ moved' = [moved EXCEPT ![p] = @ \ {a}] /\ UNCHANGED pc
                 /\ \/ /\ kept' = [kept EXCEPT ![retired[p]][a] = live[a]]
                       /\ live' = [live EXCEPT ![a] = NoSession]
                       /\ Still
                    \/ Slips(p) /\ UNCHANGED <<live, kept>>
<1>1. moved[p] # {} => Foremost(moved[p]) \in moved[p] /\ Foremost(moved[p]) \in Artifact
  BY ForemostIsOne DEF Basics, TasksTyped
<1>. QED  BY <1>1, FaultSlips DEF RetiresAgain, Rest, Still

LEMMA PutsBackIs ==
  ASSUME Basics, NEW p \in Proc, PutsBack(p)
  PROVE  /\ pc[p] = "putsBack" /\ UNCHANGED <<Rest, debris>>
         /\ \E a \in todo[p] :
              \/ /\ a \in Artifact
                 /\ live' = [live EXCEPT ![a] = kept[retired[p]][a]]
                 /\ kept' = [kept EXCEPT ![retired[p]][a] = NoSession]
                 /\ todo' = [todo EXCEPT ![p] = @ \ {a}]
                 /\ moved' = [moved EXCEPT ![p] = @ \cup {a}]
                 /\ UNCHANGED pc /\ Still
              \/ /\ a \in Artifact /\ Slips(p) /\ Goes(p, "retiresAgain")
                 /\ UNCHANGED <<live, kept, todo, moved>>
<1>1. todo[p] \subseteq Artifact
  BY DEF Basics, TasksTyped
<1>. QED  BY <1>1, FaultSlips DEF PutsBack, Rest, Still

LEMMA ParksIs ==
  ASSUME Basics, NEW p \in Proc, Parks(p)
  PROVE  /\ pc[p] = "parks" /\ UNCHANGED <<Rest, kept, moved>>
         /\ \/ /\ Ready(live) /\ todo[p] = {} /\ Goes(p, "ends") /\ UNCHANGED <<live, debris, todo>>
               /\ Still
            \/ /\ Slips(p) /\ Goes(p, "ends") /\ UNCHANGED <<live, debris, todo>>
            \/ \E a \in Present(live) :
                 /\ ~(Ready(live) /\ todo[p] = {}) /\ a \in Artifact
                 /\ debris' = [debris EXCEPT ![retired[p]][a] = live[a]]
                 /\ live' = [live EXCEPT ![a] = NoSession]
                 /\ todo' = [todo EXCEPT ![p] = Present(kept[retired[p]])]
                 /\ UNCHANGED pc /\ Still
            \/ /\ Present(live) = {} /\ todo' = [todo EXCEPT ![p] = Present(kept[retired[p]])]
               /\ Goes(p, "putsBack") /\ UNCHANGED <<live, debris>> /\ Still
<1>1. Present(live) # {} => Foremost(Present(live)) \in Present(live)
                            /\ Foremost(Present(live)) \in Artifact
  BY ForemostIsOne DEF Present
<1>2. mishaps \in 0..MaxMishaps
  BY DEF Basics, RestTyped
<1>. DEFINE Parked(a) == /\ debris' = [debris EXCEPT ![retired[p]][a] = live[a]]
                         /\ live' = [live EXCEPT ![a] = NoSession]
                         /\ todo' = [todo EXCEPT ![p] = Present(kept[retired[p]])]
                         /\ UNCHANGED <<pc, mishaps, spoiled>>
<1>3. /\ pc[p] = "parks" /\ UNCHANGED <<Rest, kept, moved>>
      /\ \/ /\ Ready(live) /\ todo[p] = {} /\ Goes(p, "ends") /\ UNCHANGED <<live, debris, todo>>
            /\ Still
         \/ /\ spoiled' = [spoiled EXCEPT ![p] = TRUE] /\ Goes(p, "ends")
            /\ UNCHANGED <<live, debris, todo, mishaps>>
         \/ /\ ~(Ready(live) /\ todo[p] = {}) /\ Present(live) # {}
            /\ Parked(Foremost(Present(live)))
         \/ /\ Fault(p) /\ Goes(p, "ends") /\ UNCHANGED <<live, debris, todo>>
         \/ /\ Present(live) = {} /\ todo' = [todo EXCEPT ![p] = Present(kept[retired[p]])]
            /\ Goes(p, "putsBack") /\ UNCHANGED <<live, debris>> /\ Still
  BY DEF Parks, ReplacementCommitted, Rest, Still
<1>. QED  BY <1>1, <1>2, <1>3, FaultSlips DEF Slips, Still

LEMMA DeletesIs ==
  ASSUME Basics, NEW p \in Proc, Deletes(p)
  PROVE  /\ pc[p] = "deletes" /\ UNCHANGED <<Rest, moved>>
         /\ \/ \E a \in todo[p] :
                 /\ a \in Artifact /\ todo' = [todo EXCEPT ![p] = @ \ {a}]
                 /\ UNCHANGED <<kept, debris, pc>>
                 /\ \/ live' = [live EXCEPT ![a] = NoSession] /\ Still
                    \/ Slips(p) /\ UNCHANGED live
            \/ /\ kept' = [q \in Quarantine |-> Nothing] /\ debris' = [q \in Quarantine |-> Nothing]
               /\ Goes(p, "ends") /\ UNCHANGED <<live, todo>> /\ Still
<1>1. todo[p] # {} => Foremost(todo[p]) \in todo[p] /\ Foremost(todo[p]) \in Artifact
  BY ForemostIsOne DEF Basics, TasksTyped
<1>. QED  BY <1>1, FaultSlips DEF Deletes, Rest, Still

(***************************************************************************)
(* Types, places and who holds what                                        *)
(***************************************************************************)

LEMMA StartsATaskBasics == ASSUME Basics, NEW p \in Proc, StartsATask(p) PROVE Basics'
<1>. USE Bounds DEF Basics, Goes
<1>a. PICK t \in {"retire", "login", "import"}, g \in {Unguarded, Generation} : Starts(p, t, g)
  BY DEF StartsATask
<1>g. g \in {Unguarded, NoSession} \cup Session
  BY DEF Generation, FilesTyped, Contents
<1>1. FilesTyped'
  BY <1>a DEF Starts, files, histories, FilesTyped
<1>2. TasksTyped'
  BY <1>a, <1>g DEF Starts, files, histories, TasksTyped, Steps
<1>3. RestTyped'
  BY <1>a DEF Starts, files, histories, RestTyped
<1>4. Placed'
  BY <1>a DEF Starts, files, histories, TasksTyped, RestTyped, Placed, SigningIn,
     LoginSteps, ImportSteps, Making, Restoring
<1>5. Kempt'
  BY <1>a DEF Starts, files, histories, FilesTyped, TasksTyped, RestTyped, Placed,
     Kempt, SigningIn, LoginSteps, ImportSteps, Making, Restoring
<1>. QED  BY <1>1, <1>2, <1>3, <1>4, <1>5

LEMMA TakesTheProfileBasics == ASSUME Basics, NEW p \in Proc, TakesTheProfile(p) PROVE Basics'
<1>. USE Bounds DEF Basics, Goes
<1>1. FilesTyped'
  BY DEF TakesTheProfile, Holds, Generation, files, histories, FilesTyped, TasksTyped,
     Contents
<1>2. TasksTyped'
  BY DEF TakesTheProfile, Holds, Generation, files, histories, FilesTyped, TasksTyped,
     Contents, Steps
<1>3. RestTyped'
  BY DEF TakesTheProfile, Holds, Generation, files, histories, FilesTyped, RestTyped,
     Contents
<1>4. Placed'
  BY DEF TakesTheProfile, Holds, Generation, files, histories, TasksTyped, RestTyped,
     Placed, SigningIn, LoginSteps, ImportSteps, Making, Restoring
<1>5. Kempt'
  BY DEF TakesTheProfile, Holds, Generation, files, histories, FilesTyped, TasksTyped,
     RestTyped, Placed, Kempt, SigningIn, LoginSteps, ImportSteps, Making, Restoring
<1>. QED  BY <1>1, <1>2, <1>3, <1>4, <1>5

LEMMA GivesUpBasics == ASSUME Basics, NEW p \in Proc, GivesUp(p) PROVE Basics'
<1>. USE Bounds DEF Basics, Goes
<1>1. FilesTyped'
  BY DEF GivesUp, Holds, Forgets, files, histories, FilesTyped, TasksTyped, Contents
<1>2. TasksTyped'
  BY DEF GivesUp, Holds, Forgets, files, histories, FilesTyped, TasksTyped, Contents,
     Steps
<1>3. RestTyped'
  BY DEF GivesUp, Holds, Forgets, files, histories, FilesTyped, RestTyped, Contents
<1>4. Placed'
  BY DEF GivesUp, Holds, Forgets, files, histories, TasksTyped, RestTyped, Placed,
     SigningIn, LoginSteps, ImportSteps, Making, Restoring
<1>5. Kempt'
  BY DEF GivesUp, Holds, Forgets, files, histories, FilesTyped, TasksTyped, RestTyped,
     Placed, Kempt, SigningIn, LoginSteps, ImportSteps, Making, Restoring
<1>. QED  BY <1>1, <1>2, <1>3, <1>4, <1>5

LEMMA ListsBasics == ASSUME Basics, NEW p \in Proc, Lists(p) PROVE Basics'
<1>. USE Bounds DEF Basics, Goes
<1>1. FilesTyped'
  BY DEF Lists, AfterRotation, Existing, Present, files, histories, FilesTyped,
     TasksTyped, Contents
<1>2. TasksTyped'
  <2>1. todo' \in [Proc -> SUBSET Artifact]
    BY DEF Lists, Existing, Present, TasksTyped
  <2>2. pc' \in [Proc -> Steps]
    BY DEF Lists, AfterRotation, TasksTyped, Steps
  <2>3. retired' \in [Proc -> Quarantine \cup {NoQuarantine}]
    BY DEF Lists, AfterRotation, TasksTyped
  <2>4. UNCHANGED <<task, guard, moved, fresh, adrift>>
    BY DEF Lists
  <2>. QED  BY <2>1, <2>2, <2>3, <2>4 DEF TasksTyped
<1>3. RestTyped'
  BY DEF Lists, AfterRotation, Existing, Present, files, histories, FilesTyped,
     RestTyped, Contents
<1>4. Placed'
  BY DEF Lists, AfterRotation, Existing, Present, files, histories, TasksTyped,
     RestTyped, Placed, SigningIn, LoginSteps, ImportSteps, Making, Restoring
<1>5. Kempt'
  BY DEF Lists, AfterRotation, Existing, Present, files, histories, FilesTyped,
     TasksTyped, RestTyped, Placed, Kempt, SigningIn, LoginSteps, ImportSteps, Making,
     Restoring
<1>. QED  BY <1>1, <1>2, <1>3, <1>4, <1>5

LEMMA TakesItToMoveBasics == ASSUME Basics, NEW p \in Proc, TakesItToMove(p) PROVE Basics'
<1>. USE Bounds DEF Basics, Goes
<1>1. FilesTyped'
  BY DEF TakesItToMove, Holds, files, histories, FilesTyped, TasksTyped, Contents
<1>2. TasksTyped'
  <2>1. pc'[p] = "moves" => rotations' \in Quarantine
    BY DEF TakesItToMove, FilesTyped, TasksTyped
  <2>. QED  BY <2>1 DEF TakesItToMove, files, histories, TasksTyped, Steps
<1>3. RestTyped'
  BY DEF TakesItToMove, Holds, files, histories, FilesTyped, RestTyped, Contents
<1>4. Placed'
  BY DEF TakesItToMove, Holds, files, histories, TasksTyped, RestTyped, Placed,
     SigningIn, LoginSteps, ImportSteps, Making, Restoring
<1>5. Kempt'
  BY DEF TakesItToMove, Holds, files, histories, FilesTyped, TasksTyped, RestTyped,
     Placed, Kempt, SigningIn, LoginSteps, ImportSteps, Making, Restoring
<1>. QED  BY <1>1, <1>2, <1>3, <1>4, <1>5

LEMMA MovesAwayBasics == ASSUME Basics, NEW p \in Proc, MovesAway(p) PROVE Basics'
<1>. USE Bounds DEF Basics, Goes
<1>t. /\ pc[p] = "moves" /\ retired[p] \in Quarantine /\ retired[p] <= rotations
      /\ UNCHANGED <<Rest, debris>>
  BY MovesAwayIs DEF TasksTyped, Kempt, Restoring
<1>a. PICK a \in todo[p] :
        \/ /\ live[a] # NoSession /\ a \in Artifact
           /\ kept' = [kept EXCEPT ![retired[p]][a] = live[a]]
           /\ live' = [live EXCEPT ![a] = NoSession]
           /\ todo' = [todo EXCEPT ![p] = @ \ {a}]
           /\ moved' = [moved EXCEPT ![p] = @ \cup {a}]
           /\ UNCHANGED pc /\ Still
        \/ /\ a \in Artifact /\ Goes(p, "undoes") /\ UNCHANGED <<live, kept, todo, moved>>
           /\ Slips(p) \/ (live[a] = NoSession /\ Still)
  BY MovesAwayIs
<1>f. /\ live' \in Contents /\ kept' \in [Quarantine -> Contents]
      /\ debris' \in [Quarantine -> Contents]
      /\ \A r \in Quarantine : r # retired[p] => kept'[r] = kept[r] /\ debris'[r] = debris[r]
  <2>t. /\ live \in Contents /\ kept \in [Quarantine -> Contents]
        /\ debris \in [Quarantine -> Contents]
    BY DEF FilesTyped
  <2>1. CASE /\ kept' = [kept EXCEPT ![retired[p]][a] = live[a]]
             /\ live' = [live EXCEPT ![a] = NoSession]
    <3>1. /\ a \in Artifact /\ live[a] \in Session \cup {NoSession}
          /\ NoSession \in Session \cup {NoSession}
      BY <1>t, <1>a, <2>t DEF Contents
    <3>q. PICK q \in Quarantine : q = retired[p]
      BY <1>t
    <3>k. PICK k \in Session \cup {NoSession} : k = live[a]
      BY <3>1
    <3>l. PICK l \in Session \cup {NoSession} : l = NoSession
      BY <3>1
    <3>e. kept' = Put(kept, q, a, k) /\ live' = [live EXCEPT ![a] = l]
      BY <2>1, <3>q, <3>k, <3>l DEF Put
    <3>2. live' \in Contents
      BY <2>t, <3>1, <3>e, PutsLive
    <3>p. /\ Put(kept, q, a, k) \in [Quarantine -> Contents]
          /\ \A r \in Quarantine : r # q => Put(kept, q, a, k)[r] = kept[r]
      BY <2>t, <3>1, PutsOne
    <3>3. /\ kept' \in [Quarantine -> Contents]
          /\ \A r \in Quarantine : r # q => kept'[r] = kept[r]
      BY <3>e, <3>p
    <3>. QED  BY <3>q, <3>2, <3>3, <2>t, <1>t, <1>a DEF Rest
  <2>2. CASE UNCHANGED <<live, kept, debris>>
    BY <2>2, <2>t
  <2>. QED  BY <1>t, <1>a, <2>1, <2>2
<1>1. FilesTyped'
  BY <1>t, <1>f DEF Rest, FilesTyped
<1>2. TasksTyped'
  <2>1. todo' \in [Proc -> SUBSET Artifact]
    BY <1>t, <1>a DEF TasksTyped, Rest
  <2>2. moved' \in [Proc -> SUBSET Artifact]
    BY <1>t, <1>a DEF TasksTyped, Rest
  <2>3. pc' \in [Proc -> Steps]
    BY <1>t, <1>a DEF TasksTyped, Rest, Steps
  <2>. QED  BY <2>1, <2>2, <2>3, <1>t DEF TasksTyped, Rest
<1>3. RestTyped'
  BY <1>t, <1>a DEF RestTyped, Rest, Slips, Still
<1>4. Placed'
  BY <1>t, <1>a DEF TasksTyped, RestTyped, Placed, Rest, SigningIn, LoginSteps,
     ImportSteps, Making, Restoring
<1>k. \A q \in Quarantine : q > rotations' => kept'[q] = Nothing /\ debris'[q] = Nothing
  BY <1>t, <1>f DEF Rest, Kempt, FilesTyped
<1>5. Kempt'
  BY <1>t, <1>a, <1>k DEF Rest, FilesTyped, TasksTyped, RestTyped, Placed, Kempt,
     SigningIn, LoginSteps, ImportSteps, Making, Restoring
<1>. QED  BY <1>1, <1>2, <1>3, <1>4, <1>5

LEMMA RotationDoneBasics == ASSUME Basics, NEW p \in Proc, RotationDone(p) PROVE Basics'
<1>. USE Bounds DEF Basics, Goes
<1>1. FilesTyped'
  BY DEF RotationDone, AfterRotation, files, histories, FilesTyped, TasksTyped, Contents
<1>2. TasksTyped'
  BY DEF RotationDone, AfterRotation, files, histories, FilesTyped, TasksTyped,
     Contents, Steps
<1>3. RestTyped'
  BY DEF RotationDone, AfterRotation, files, histories, FilesTyped, RestTyped, Contents
<1>4. Placed'
  BY DEF RotationDone, AfterRotation, files, histories, TasksTyped, RestTyped, Placed,
     SigningIn, LoginSteps, ImportSteps, Making, Restoring
<1>q. /\ retired[p] # NoQuarantine /\ retired' = retired
      /\ task' = task /\ moved' = [moved EXCEPT ![p] = {}]
      /\ UNCHANGED <<files, todo, fresh, histories, lease>>
      /\ lease = p
  BY DEF RotationDone, AfterRotation, Kempt, TasksTyped, Placed
<1>r. PICK s \in {"ends", "opens", "staging", "parks"} : pc' = [pc EXCEPT ![p] = s]
  BY DEF RotationDone, AfterRotation
<1>f. fresh[p] = NoSession /\ todo[p] = {}
  BY DEF RotationDone, Kempt
<1>5. Kempt'
  BY <1>q, <1>r, <1>f DEF files, histories, FilesTyped, TasksTyped, RestTyped, Kempt,
     SigningIn, LoginSteps, ImportSteps, Making, Restoring
<1>. QED  BY <1>1, <1>2, <1>3, <1>4, <1>5

LEMMA UndoesTheMovesBasics == ASSUME Basics, NEW p \in Proc, UndoesTheMoves(p) PROVE Basics'
<1>. USE Bounds DEF Basics, Goes
<1>t. /\ pc[p] = "undoes" /\ retired[p] \in Quarantine /\ retired[p] <= rotations
      /\ UNCHANGED <<Rest, debris, todo>>
  BY UndoesTheMovesIs DEF TasksTyped, Kempt, Restoring
<1>e. ASSUME moved[p] = {}, Goes(p, "ends"), UNCHANGED <<live, kept, moved>>, Still
      PROVE  Basics'
  <2>1. FilesTyped'
    BY <1>t, <1>e DEF Rest, FilesTyped
  <2>2. TasksTyped'
    BY <1>t, <1>e DEF TasksTyped, Steps, Rest
  <2>3. RestTyped'
    BY <1>t, <1>e DEF RestTyped, Rest, Still
  <2>4. Placed'
    BY <1>t, <1>e DEF TasksTyped, RestTyped, Placed, Rest, SigningIn, LoginSteps,
       ImportSteps, Making, Restoring
  <2>5. Kempt'
    BY <1>t, <1>e DEF Rest, FilesTyped, TasksTyped, RestTyped, Placed, Kempt,
       SigningIn, LoginSteps, ImportSteps, Making, Restoring
  <2>. QED  BY <2>1, <2>2, <2>3, <2>4, <2>5
<1>. SUFFICES ASSUME NEW a \in moved[p],
         /\ a \in Artifact /\ moved' = [moved EXCEPT ![p] = @ \ {a}] /\ UNCHANGED pc
         /\ \/ /\ live' = [live EXCEPT ![a] = kept[retired[p]][a]]
               /\ kept' = [kept EXCEPT ![retired[p]][a] = NoSession]
               /\ Still
            \/ Slips(p) /\ UNCHANGED <<live, kept>>
     PROVE Basics'
  BY <1>e, UndoesTheMovesIs
<1>a. /\ a \in Artifact /\ moved' = [moved EXCEPT ![p] = @ \ {a}] /\ UNCHANGED pc
      /\ \/ /\ live' = [live EXCEPT ![a] = kept[retired[p]][a]]
            /\ kept' = [kept EXCEPT ![retired[p]][a] = NoSession]
            /\ Still
         \/ Slips(p) /\ UNCHANGED <<live, kept>>
  OBVIOUS
<1>f. /\ live' \in Contents /\ kept' \in [Quarantine -> Contents]
      /\ debris' \in [Quarantine -> Contents]
      /\ \A r \in Quarantine : r # retired[p] => kept'[r] = kept[r] /\ debris'[r] = debris[r]
  <2>t. /\ live \in Contents /\ kept \in [Quarantine -> Contents]
        /\ debris \in [Quarantine -> Contents]
    BY DEF FilesTyped
  <2>1. CASE /\ kept' = [kept EXCEPT ![retired[p]][a] = NoSession]
             /\ live' = [live EXCEPT ![a] = kept[retired[p]][a]]
    <3>1. /\ a \in Artifact /\ NoSession \in Session \cup {NoSession}
          /\ kept[retired[p]][a] \in Session \cup {NoSession}
      BY <1>t, <1>a, <2>t DEF Contents
    <3>q. PICK q \in Quarantine : q = retired[p]
      BY <1>t
    <3>k. PICK k \in Session \cup {NoSession} : k = NoSession
      BY <3>1
    <3>l. PICK l \in Session \cup {NoSession} : l = kept[retired[p]][a]
      BY <3>1
    <3>e. kept' = Put(kept, q, a, k) /\ live' = [live EXCEPT ![a] = l]
      BY <2>1, <3>q, <3>k, <3>l DEF Put
    <3>2. live' \in Contents
      BY <2>t, <3>1, <3>e, PutsLive
    <3>p. /\ Put(kept, q, a, k) \in [Quarantine -> Contents]
          /\ \A r \in Quarantine : r # q => Put(kept, q, a, k)[r] = kept[r]
      BY <2>t, <3>1, PutsOne
    <3>3. /\ kept' \in [Quarantine -> Contents]
          /\ \A r \in Quarantine : r # q => kept'[r] = kept[r]
      BY <3>e, <3>p
    <3>. QED  BY <3>q, <3>2, <3>3, <2>t, <1>t, <1>a DEF Rest
  <2>2. CASE UNCHANGED <<live, kept, debris>>
    BY <2>2, <2>t
  <2>. QED  BY <1>t, <1>a, <2>1, <2>2
<1>1. FilesTyped'
  BY <1>t, <1>f DEF Rest, FilesTyped
<1>2. TasksTyped'
  BY <1>t, <1>a DEF TasksTyped, Steps, Rest
<1>3. RestTyped'
  BY <1>t, <1>a DEF RestTyped, Rest, Slips, Still
<1>4. Placed'
  BY <1>t, <1>a DEF TasksTyped, RestTyped, Placed, Rest, SigningIn, LoginSteps,
     ImportSteps, Making, Restoring
<1>k. \A q \in Quarantine : q > rotations' => kept'[q] = Nothing /\ debris'[q] = Nothing
  BY <1>t, <1>f DEF Rest, Kempt, FilesTyped
<1>5. Kempt'
  BY <1>t, <1>a, <1>k DEF Rest, FilesTyped, TasksTyped, RestTyped, Placed, Kempt,
     SigningIn, LoginSteps, ImportSteps, Making, Restoring
<1>. QED  BY <1>1, <1>2, <1>3, <1>4, <1>5

LEMMA OpensTheLoginBasics == ASSUME Basics, NEW p \in Proc, OpensTheLogin(p) PROVE Basics'
<1>. USE Bounds DEF Basics, Goes
<1>1. FilesTyped'
  BY DEF OpensTheLogin, Mints, files, histories, FilesTyped, TasksTyped, Contents
<1>2. TasksTyped'
  BY DEF OpensTheLogin, Mints, files, histories, FilesTyped, TasksTyped, Contents, Steps
<1>3. RestTyped'
  BY DEF OpensTheLogin, Mints, files, histories, FilesTyped, RestTyped, Contents
<1>4. Placed'
  BY DEF OpensTheLogin, Mints, files, histories, TasksTyped, RestTyped, Placed,
     SigningIn, LoginSteps, ImportSteps, Making, Restoring
<1>5. Kempt'
  BY DEF OpensTheLogin, Mints, files, histories, FilesTyped, TasksTyped, RestTyped,
     Placed, Kempt, SigningIn, LoginSteps, ImportSteps, Making, Restoring
<1>. QED  BY <1>1, <1>2, <1>3, <1>4, <1>5

LEMMA ExportsCookiesBasics == ASSUME Basics, NEW p \in Proc, ExportsCookies(p) PROVE Basics'
<1>. USE Bounds DEF Basics, Goes
<1>1. FilesTyped'
  BY DEF ExportsCookies, files, histories, FilesTyped, TasksTyped, Contents
<1>2. TasksTyped'
  BY DEF ExportsCookies, files, histories, FilesTyped, TasksTyped, Contents, Steps
<1>3. RestTyped'
  BY DEF ExportsCookies, files, histories, FilesTyped, RestTyped, Contents
<1>4. Placed'
  BY DEF ExportsCookies, files, histories, TasksTyped, RestTyped, Placed, SigningIn,
     LoginSteps, ImportSteps, Making, Restoring
<1>5. Kempt'
  BY DEF ExportsCookies, files, histories, FilesTyped, TasksTyped, RestTyped, Placed,
     Kempt, SigningIn, LoginSteps, ImportSteps, Making, Restoring
<1>. QED  BY <1>1, <1>2, <1>3, <1>4, <1>5

LEMMA CommitsBasics == ASSUME Basics, NEW p \in Proc, Commits(p) PROVE Basics'
<1>. USE Bounds DEF Basics, Goes
<1>a. /\ fresh[p] \in Session /\ fresh[p] \in 1..minted
      /\ live' \in Contents
      /\ established' \subseteq established \cup {fresh[p]}
  <2>1. fresh[p] \in Session /\ fresh[p] \in 1..minted
    BY DEF Commits, FilesTyped, TasksTyped, Kempt
  <2>. QED  BY <2>1 DEF Commits, FilesTyped, Contents
<1>1. FilesTyped'
  BY <1>a DEF Commits, FilesTyped
<1>2. TasksTyped'
  BY DEF Commits, files, histories, FilesTyped, TasksTyped, Contents, Steps
<1>3. RestTyped'
  BY DEF Commits, files, histories, FilesTyped, RestTyped, Contents
<1>4. Placed'
  BY DEF Commits, files, histories, TasksTyped, RestTyped, Placed, SigningIn,
     LoginSteps, ImportSteps, Making, Restoring
<1>5. Kempt'
  <2>0. lease = p /\ SigningIn(p)
    BY DEF Commits, Placed, SigningIn, LoginSteps, ImportSteps, Making, Restoring
  <2>1. \A r \in Proc : r # p => fresh[r] = NoSession
    BY <2>0 DEF Kempt
  <2>2. established' \subseteq 1..minted' /\ NoSession \notin established'
    <3>1. minted' = minted /\ established \subseteq 1..minted
      BY DEF Commits, Kempt
    <3>. QED  BY <1>a, <3>1 DEF FilesTyped
  <2>. QED  BY <1>a, <2>0, <2>1, <2>2 DEF Commits, FilesTyped, TasksTyped, RestTyped,
     Placed, Kempt, SigningIn, LoginSteps, ImportSteps, Making, Restoring
<1>. QED  BY <1>1, <1>2, <1>3, <1>4, <1>5

LEMMA EndsTheLoginBasics == ASSUME Basics, NEW p \in Proc, EndsTheLogin(p) PROVE Basics'
<1>. USE Bounds DEF Basics, Goes
<1>1. FilesTyped'
  BY DEF EndsTheLogin, files, histories, FilesTyped, TasksTyped, Contents
<1>2. TasksTyped'
  BY DEF EndsTheLogin, files, histories, FilesTyped, TasksTyped, Contents, Steps
<1>3. RestTyped'
  BY DEF EndsTheLogin, files, histories, FilesTyped, RestTyped, Contents
<1>4. Placed'
  BY DEF EndsTheLogin, files, histories, TasksTyped, RestTyped, Placed, SigningIn,
     LoginSteps, ImportSteps, Making, Restoring
<1>5. Kempt'
  BY DEF EndsTheLogin, files, histories, FilesTyped, TasksTyped, RestTyped, Placed,
     Kempt, SigningIn, LoginSteps, ImportSteps, Making, Restoring
<1>. QED  BY <1>1, <1>2, <1>3, <1>4, <1>5

LEMMA ExtractsBasics == ASSUME Basics, NEW p \in Proc, Extracts(p) PROVE Basics'
<1>. USE Bounds DEF Basics, Goes
<1>1. FilesTyped'
  BY DEF Extracts, Mints, files, histories, FilesTyped, TasksTyped, Contents
<1>2. TasksTyped'
  BY DEF Extracts, Mints, files, histories, FilesTyped, TasksTyped, Contents, Steps
<1>3. RestTyped'
  BY DEF Extracts, Mints, files, histories, FilesTyped, RestTyped, Contents
<1>4. Placed'
  BY DEF Extracts, Mints, files, histories, TasksTyped, RestTyped, Placed, SigningIn,
     LoginSteps, ImportSteps, Making, Restoring
<1>5. Kempt'
  BY DEF Extracts, Mints, files, histories, FilesTyped, TasksTyped, RestTyped, Placed,
     Kempt, SigningIn, LoginSteps, ImportSteps, Making, Restoring
<1>. QED  BY <1>1, <1>2, <1>3, <1>4, <1>5

LEMMA StagesCookiesBasics == ASSUME Basics, NEW p \in Proc, StagesCookies(p) PROVE Basics'
<1>. USE Bounds DEF Basics, Goes
<1>1. FilesTyped'
  BY DEF StagesCookies, files, histories, FilesTyped, TasksTyped, Contents
<1>2. TasksTyped'
  BY DEF StagesCookies, files, histories, FilesTyped, TasksTyped, Contents, Steps
<1>3. RestTyped'
  BY DEF StagesCookies, files, histories, FilesTyped, RestTyped, Contents
<1>4. Placed'
  BY DEF StagesCookies, files, histories, TasksTyped, RestTyped, Placed, SigningIn,
     LoginSteps, ImportSteps, Making, Restoring
<1>5. Kempt'
  BY DEF StagesCookies, files, histories, FilesTyped, TasksTyped, RestTyped, Placed,
     Kempt, SigningIn, LoginSteps, ImportSteps, Making, Restoring
<1>. QED  BY <1>1, <1>2, <1>3, <1>4, <1>5

LEMMA OpensTheValidationBasics == ASSUME Basics, NEW p \in Proc, OpensTheValidation(p) PROVE Basics'
<1>. USE Bounds DEF Basics, Goes
<1>1. FilesTyped'
  BY DEF OpensTheValidation, files, histories, FilesTyped, TasksTyped, Contents
<1>2. TasksTyped'
  BY DEF OpensTheValidation, files, histories, FilesTyped, TasksTyped, Contents, Steps
<1>3. RestTyped'
  BY DEF OpensTheValidation, files, histories, FilesTyped, RestTyped, Contents
<1>4. Placed'
  BY DEF OpensTheValidation, files, histories, TasksTyped, RestTyped, Placed,
     SigningIn, LoginSteps, ImportSteps, Making, Restoring
<1>5. Kempt'
  BY DEF OpensTheValidation, files, histories, FilesTyped, TasksTyped, RestTyped,
     Placed, Kempt, SigningIn, LoginSteps, ImportSteps, Making, Restoring
<1>. QED  BY <1>1, <1>2, <1>3, <1>4, <1>5

LEMMA RejectedBasics == ASSUME Basics, NEW p \in Proc, Rejected(p) PROVE Basics'
<1>. USE Bounds DEF Basics, Goes
<1>1. FilesTyped'
  BY DEF Rejected, Fault, DropsTheStaged, files, histories, FilesTyped, TasksTyped,
     Contents
<1>2. TasksTyped'
  BY DEF Rejected, Fault, DropsTheStaged, files, histories, FilesTyped, TasksTyped,
     Contents, Steps
<1>3. RestTyped'
  BY FaultSlips DEF Rejected, RestTyped, Slips
<1>4. Placed'
  BY DEF Rejected, Fault, DropsTheStaged, files, histories, TasksTyped, RestTyped,
     Placed, SigningIn, LoginSteps, ImportSteps, Making, Restoring
<1>5. Kempt'
  BY DEF Rejected, Fault, DropsTheStaged, files, histories, FilesTyped, TasksTyped,
     RestTyped, Placed, Kempt, SigningIn, LoginSteps, ImportSteps, Making, Restoring
<1>. QED  BY <1>1, <1>2, <1>3, <1>4, <1>5

LEMMA EndsTheImportBasics == ASSUME Basics, NEW p \in Proc, EndsTheImport(p) PROVE Basics'
<1>. USE Bounds DEF Basics, Goes
<1>1. FilesTyped'
  BY DEF EndsTheImport, files, histories, FilesTyped, TasksTyped, Contents
<1>2. TasksTyped'
  BY DEF EndsTheImport, files, histories, FilesTyped, TasksTyped, Contents, Steps
<1>3. RestTyped'
  BY DEF EndsTheImport, files, histories, FilesTyped, RestTyped, Contents
<1>4. Placed'
  BY DEF EndsTheImport, files, histories, TasksTyped, RestTyped, Placed, SigningIn,
     LoginSteps, ImportSteps, Making, Restoring
<1>5. Kempt'
  BY DEF EndsTheImport, files, histories, FilesTyped, TasksTyped, RestTyped, Placed,
     Kempt, SigningIn, LoginSteps, ImportSteps, Making, Restoring
<1>. QED  BY <1>1, <1>2, <1>3, <1>4, <1>5

LEMMA TheWorkerStagesBasics == ASSUME Basics, NEW p \in Proc, TheWorkerStages(p) PROVE Basics'
<1>. USE Bounds DEF Basics, Goes
<1>1. FilesTyped'
  BY DEF TheWorkerStages, files, histories, FilesTyped, TasksTyped, Contents
<1>2. TasksTyped'
  BY DEF TheWorkerStages, files, histories, FilesTyped, TasksTyped, Contents, Steps
<1>3. RestTyped'
  BY DEF TheWorkerStages, files, histories, FilesTyped, RestTyped, Contents
<1>4. Placed'
  BY DEF TheWorkerStages, files, histories, TasksTyped, RestTyped, Placed, SigningIn,
     LoginSteps, ImportSteps, Making, Restoring
<1>5. Kempt'
  BY DEF TheWorkerStages, files, histories, FilesTyped, TasksTyped, RestTyped, Placed,
     Kempt, SigningIn, LoginSteps, ImportSteps, Making, Restoring
<1>. QED  BY <1>1, <1>2, <1>3, <1>4, <1>5

LEMMA ParksBasics == ASSUME Basics, NEW p \in Proc, Parks(p) PROVE Basics'
<1>. USE Bounds DEF Basics, Goes
<1>t. /\ pc[p] = "parks" /\ retired[p] \in Quarantine /\ retired[p] <= rotations
      /\ UNCHANGED <<Rest, kept, moved>>
  BY ParksIs DEF TasksTyped, Kempt, Restoring
<1>a. \/ /\ Goes(p, "ends") /\ UNCHANGED <<live, debris, todo>> /\ (Still \/ Slips(p))
      \/ /\ UNCHANGED pc /\ Still /\ todo' = [todo EXCEPT ![p] = Present(kept[retired[p]])]
         /\ \E a \in Artifact : /\ debris' = [debris EXCEPT ![retired[p]][a] = live[a]]
                                /\ live' = [live EXCEPT ![a] = NoSession]
      \/ /\ todo' = [todo EXCEPT ![p] = Present(kept[retired[p]])]
         /\ Goes(p, "putsBack") /\ UNCHANGED <<live, debris>> /\ Still
  BY ParksIs
<1>p. Present(kept[retired[p]]) \subseteq Artifact
  BY DEF Present
<1>f. /\ live' \in Contents /\ kept' \in [Quarantine -> Contents]
      /\ debris' \in [Quarantine -> Contents]
      /\ \A r \in Quarantine : r # retired[p] => kept'[r] = kept[r] /\ debris'[r] = debris[r]
  <2>t. /\ live \in Contents /\ kept \in [Quarantine -> Contents]
        /\ debris \in [Quarantine -> Contents]
    BY DEF FilesTyped
  <2>1. ASSUME NEW a \in Artifact, debris' = [debris EXCEPT ![retired[p]][a] = live[a]],
               live' = [live EXCEPT ![a] = NoSession]
        PROVE  /\ live' \in Contents /\ debris' \in [Quarantine -> Contents]
               /\ \A r \in Quarantine : r # retired[p] => debris'[r] = debris[r]
    <3>1. live[a] \in Session \cup {NoSession} /\ NoSession \in Session \cup {NoSession}
      BY <2>t DEF Contents
    <3>2. live' \in Contents
      BY <2>1, <2>t, <3>1, PutsLive
    <3>q. PICK q \in Quarantine : q = retired[p]
      BY <1>t
    <3>k. PICK k \in Session \cup {NoSession} : k = live[a]
      BY <3>1
    <3>e. debris' = Put(debris, q, a, k)
      BY <2>1, <3>q, <3>k DEF Put
    <3>3. /\ debris' \in [Quarantine -> Contents]
          /\ \A r \in Quarantine : r # q => debris'[r] = debris[r]
      BY <2>t, <3>1, <3>e, PutsOne
    <3>. QED  BY <3>2, <3>3, <3>q
  <2>. QED  BY <1>t, <1>a, <2>1, <2>t DEF Rest
<1>1. FilesTyped'
  BY <1>t, <1>f DEF Rest, FilesTyped
<1>2. TasksTyped'
  <2>1. todo' = todo \/ todo' = [todo EXCEPT ![p] = Present(kept[retired[p]])]
    BY <1>a
  <2>4. todo' \in [Proc -> SUBSET Artifact]
    BY <2>1, <1>p DEF TasksTyped
  <2>2. moved' \in [Proc -> SUBSET Artifact]
    BY <1>t, <1>a, <1>p DEF TasksTyped, Rest
  <2>3. pc' \in [Proc -> Steps]
    BY <1>t, <1>a, <1>p DEF TasksTyped, Rest, Steps
  <2>. QED  BY <2>4, <2>2, <2>3, <1>t DEF TasksTyped, Rest
<1>3. RestTyped'
  BY <1>t, <1>a DEF RestTyped, Rest, Slips, Still
<1>4. Placed'
  BY <1>t, <1>a DEF TasksTyped, RestTyped, Placed, Rest, SigningIn, LoginSteps,
     ImportSteps, Making, Restoring
<1>k. \A q \in Quarantine : q > rotations' => kept'[q] = Nothing /\ debris'[q] = Nothing
  BY <1>t, <1>f DEF Rest, Kempt, FilesTyped
<1>5. Kempt'
  BY <1>t, <1>a, <1>k DEF Rest, FilesTyped, TasksTyped, RestTyped, Placed, Kempt,
     SigningIn, LoginSteps, ImportSteps, Making, Restoring
<1>. QED  BY <1>1, <1>2, <1>3, <1>4, <1>5

LEMMA PutsBackBasics == ASSUME Basics, NEW p \in Proc, PutsBack(p) PROVE Basics'
<1>. USE Bounds DEF Basics, Goes
<1>t. /\ pc[p] = "putsBack" /\ retired[p] \in Quarantine /\ retired[p] <= rotations
      /\ UNCHANGED <<Rest, debris>>
  BY PutsBackIs DEF TasksTyped, Kempt, Restoring
<1>a. PICK a \in todo[p] :
        \/ /\ a \in Artifact
           /\ live' = [live EXCEPT ![a] = kept[retired[p]][a]]
           /\ kept' = [kept EXCEPT ![retired[p]][a] = NoSession]
           /\ todo' = [todo EXCEPT ![p] = @ \ {a}]
           /\ moved' = [moved EXCEPT ![p] = @ \cup {a}]
           /\ UNCHANGED pc /\ Still
        \/ /\ a \in Artifact /\ Slips(p) /\ Goes(p, "retiresAgain")
           /\ UNCHANGED <<live, kept, todo, moved>>
  BY PutsBackIs
<1>f. /\ live' \in Contents /\ kept' \in [Quarantine -> Contents]
      /\ debris' \in [Quarantine -> Contents]
      /\ \A r \in Quarantine : r # retired[p] => kept'[r] = kept[r] /\ debris'[r] = debris[r]
  <2>t. /\ live \in Contents /\ kept \in [Quarantine -> Contents]
        /\ debris \in [Quarantine -> Contents]
    BY DEF FilesTyped
  <2>1. CASE /\ kept' = [kept EXCEPT ![retired[p]][a] = NoSession]
             /\ live' = [live EXCEPT ![a] = kept[retired[p]][a]]
    <3>1. /\ a \in Artifact /\ NoSession \in Session \cup {NoSession}
          /\ kept[retired[p]][a] \in Session \cup {NoSession}
      BY <1>t, <1>a, <2>t DEF Contents
    <3>q. PICK q \in Quarantine : q = retired[p]
      BY <1>t
    <3>k. PICK k \in Session \cup {NoSession} : k = NoSession
      BY <3>1
    <3>l. PICK l \in Session \cup {NoSession} : l = kept[retired[p]][a]
      BY <3>1
    <3>e. kept' = Put(kept, q, a, k) /\ live' = [live EXCEPT ![a] = l]
      BY <2>1, <3>q, <3>k, <3>l DEF Put
    <3>2. live' \in Contents
      BY <2>t, <3>1, <3>e, PutsLive
    <3>p. /\ Put(kept, q, a, k) \in [Quarantine -> Contents]
          /\ \A r \in Quarantine : r # q => Put(kept, q, a, k)[r] = kept[r]
      BY <2>t, <3>1, PutsOne
    <3>3. /\ kept' \in [Quarantine -> Contents]
          /\ \A r \in Quarantine : r # q => kept'[r] = kept[r]
      BY <3>e, <3>p
    <3>. QED  BY <3>q, <3>2, <3>3, <2>t, <1>t, <1>a DEF Rest
  <2>2. CASE UNCHANGED <<live, kept, debris>>
    BY <2>2, <2>t
  <2>. QED  BY <1>t, <1>a, <2>1, <2>2
<1>1. FilesTyped'
  BY <1>t, <1>f DEF Rest, FilesTyped
<1>2. TasksTyped'
  <2>1. todo' \in [Proc -> SUBSET Artifact]
    BY <1>t, <1>a DEF TasksTyped, Rest
  <2>2. moved' \in [Proc -> SUBSET Artifact]
    BY <1>t, <1>a DEF TasksTyped, Rest
  <2>3. pc' \in [Proc -> Steps]
    BY <1>t, <1>a DEF TasksTyped, Rest, Steps
  <2>. QED  BY <2>1, <2>2, <2>3, <1>t DEF TasksTyped, Rest
<1>3. RestTyped'
  BY <1>t, <1>a DEF RestTyped, Rest, Slips, Still
<1>4. Placed'
  BY <1>t, <1>a DEF TasksTyped, RestTyped, Placed, Rest, SigningIn, LoginSteps,
     ImportSteps, Making, Restoring
<1>k. \A q \in Quarantine : q > rotations' => kept'[q] = Nothing /\ debris'[q] = Nothing
  BY <1>t, <1>f DEF Rest, Kempt, FilesTyped
<1>5. Kempt'
  BY <1>t, <1>a, <1>k DEF Rest, FilesTyped, TasksTyped, RestTyped, Placed, Kempt,
     SigningIn, LoginSteps, ImportSteps, Making, Restoring
<1>. QED  BY <1>1, <1>2, <1>3, <1>4, <1>5

LEMMA RestoredBasics == ASSUME Basics, NEW p \in Proc, Restored(p) PROVE Basics'
<1>. USE Bounds DEF Basics, Goes
<1>1. FilesTyped'
  BY DEF Restored, files, histories, FilesTyped, TasksTyped, Contents
<1>2. TasksTyped'
  BY DEF Restored, files, histories, FilesTyped, TasksTyped, Contents, Steps
<1>3. RestTyped'
  BY DEF Restored, files, histories, FilesTyped, RestTyped, Contents
<1>4. Placed'
  BY DEF Restored, files, histories, TasksTyped, RestTyped, Placed, SigningIn,
     LoginSteps, ImportSteps, Making, Restoring
<1>5. Kempt'
  BY DEF Restored, files, histories, FilesTyped, TasksTyped, RestTyped, Placed, Kempt,
     SigningIn, LoginSteps, ImportSteps, Making, Restoring
<1>. QED  BY <1>1, <1>2, <1>3, <1>4, <1>5

LEMMA RetiresAgainBasics == ASSUME Basics, NEW p \in Proc, RetiresAgain(p) PROVE Basics'
<1>. USE Bounds DEF Basics, Goes
<1>t. /\ pc[p] = "retiresAgain" /\ retired[p] \in Quarantine /\ retired[p] <= rotations
      /\ UNCHANGED <<Rest, debris, todo>>
  BY RetiresAgainIs DEF TasksTyped, Kempt, Restoring
<1>e. ASSUME moved[p] = {}, Goes(p, "ends"), UNCHANGED <<live, kept, moved>>, Still
      PROVE  Basics'
  <2>1. FilesTyped'
    BY <1>t, <1>e DEF Rest, FilesTyped
  <2>2. TasksTyped'
    BY <1>t, <1>e DEF TasksTyped, Steps, Rest
  <2>3. RestTyped'
    BY <1>t, <1>e DEF RestTyped, Rest, Still
  <2>4. Placed'
    BY <1>t, <1>e DEF TasksTyped, RestTyped, Placed, Rest, SigningIn, LoginSteps,
       ImportSteps, Making, Restoring
  <2>5. Kempt'
    BY <1>t, <1>e DEF Rest, FilesTyped, TasksTyped, RestTyped, Placed, Kempt,
       SigningIn, LoginSteps, ImportSteps, Making, Restoring
  <2>. QED  BY <2>1, <2>2, <2>3, <2>4, <2>5
<1>. SUFFICES ASSUME NEW a \in moved[p],
         /\ a \in Artifact /\ moved' = [moved EXCEPT ![p] = @ \ {a}] /\ UNCHANGED pc
         /\ \/ /\ live' = [live EXCEPT ![a] = NoSession]
               /\ kept' = [kept EXCEPT ![retired[p]][a] = live[a]]
               /\ Still
            \/ Slips(p) /\ UNCHANGED <<live, kept>>
     PROVE Basics'
  BY <1>e, RetiresAgainIs
<1>a. /\ a \in Artifact /\ moved' = [moved EXCEPT ![p] = @ \ {a}] /\ UNCHANGED pc
      /\ \/ /\ live' = [live EXCEPT ![a] = NoSession]
            /\ kept' = [kept EXCEPT ![retired[p]][a] = live[a]]
            /\ Still
         \/ Slips(p) /\ UNCHANGED <<live, kept>>
  OBVIOUS
<1>f. /\ live' \in Contents /\ kept' \in [Quarantine -> Contents]
      /\ debris' \in [Quarantine -> Contents]
      /\ \A r \in Quarantine : r # retired[p] => kept'[r] = kept[r] /\ debris'[r] = debris[r]
  <2>t. /\ live \in Contents /\ kept \in [Quarantine -> Contents]
        /\ debris \in [Quarantine -> Contents]
    BY DEF FilesTyped
  <2>1. CASE /\ kept' = [kept EXCEPT ![retired[p]][a] = live[a]]
             /\ live' = [live EXCEPT ![a] = NoSession]
    <3>1. /\ a \in Artifact /\ live[a] \in Session \cup {NoSession}
          /\ NoSession \in Session \cup {NoSession}
      BY <1>t, <1>a, <2>t DEF Contents
    <3>q. PICK q \in Quarantine : q = retired[p]
      BY <1>t
    <3>k. PICK k \in Session \cup {NoSession} : k = live[a]
      BY <3>1
    <3>l. PICK l \in Session \cup {NoSession} : l = NoSession
      BY <3>1
    <3>e. kept' = Put(kept, q, a, k) /\ live' = [live EXCEPT ![a] = l]
      BY <2>1, <3>q, <3>k, <3>l DEF Put
    <3>2. live' \in Contents
      BY <2>t, <3>1, <3>e, PutsLive
    <3>p. /\ Put(kept, q, a, k) \in [Quarantine -> Contents]
          /\ \A r \in Quarantine : r # q => Put(kept, q, a, k)[r] = kept[r]
      BY <2>t, <3>1, PutsOne
    <3>3. /\ kept' \in [Quarantine -> Contents]
          /\ \A r \in Quarantine : r # q => kept'[r] = kept[r]
      BY <3>e, <3>p
    <3>. QED  BY <3>q, <3>2, <3>3, <2>t, <1>t, <1>a DEF Rest
  <2>2. CASE UNCHANGED <<live, kept, debris>>
    BY <2>2, <2>t
  <2>. QED  BY <1>t, <1>a, <2>1, <2>2
<1>1. FilesTyped'
  BY <1>t, <1>f DEF Rest, FilesTyped
<1>2. TasksTyped'
  BY <1>t, <1>a DEF TasksTyped, Steps, Rest
<1>3. RestTyped'
  BY <1>t, <1>a DEF RestTyped, Rest, Slips, Still
<1>4. Placed'
  BY <1>t, <1>a DEF TasksTyped, RestTyped, Placed, Rest, SigningIn, LoginSteps,
     ImportSteps, Making, Restoring
<1>k. \A q \in Quarantine : q > rotations' => kept'[q] = Nothing /\ debris'[q] = Nothing
  BY <1>t, <1>f DEF Rest, Kempt, FilesTyped
<1>5. Kempt'
  BY <1>t, <1>a, <1>k DEF Rest, FilesTyped, TasksTyped, RestTyped, Placed, Kempt,
     SigningIn, LoginSteps, ImportSteps, Making, Restoring
<1>. QED  BY <1>1, <1>2, <1>3, <1>4, <1>5

LEMMA EndsBasics == ASSUME Basics, NEW p \in Proc, Ends(p) PROVE Basics'
<1>. USE Bounds DEF Basics, Goes
<1>1. FilesTyped'
  BY DEF Ends, Releases, Forgets, files, histories, FilesTyped, TasksTyped, Contents
<1>2. TasksTyped'
  BY DEF Ends, Releases, Forgets, files, histories, FilesTyped, TasksTyped, Contents,
     Steps
<1>3. RestTyped'
  BY DEF Ends, Releases, Forgets, files, histories, FilesTyped, RestTyped, Contents
<1>4. Placed'
  BY DEF Ends, Releases, Forgets, files, histories, TasksTyped, RestTyped, Placed,
     SigningIn, LoginSteps, ImportSteps, Making, Restoring
<1>5. Kempt'
  BY DEF Ends, Releases, Forgets, files, histories, FilesTyped, TasksTyped, RestTyped,
     Placed, Kempt, SigningIn, LoginSteps, ImportSteps, Making, Restoring
<1>. QED  BY <1>1, <1>2, <1>3, <1>4, <1>5

LEMMA DiesBasics == ASSUME Basics, NEW p \in Proc, Dies(p) PROVE Basics'
<1>. USE Bounds DEF Basics, Goes
<1>1. FilesTyped'
  BY DEF Dies, Releases, Forgets, files, histories, FilesTyped, TasksTyped, Contents
<1>2. TasksTyped'
  BY DEF Dies, Releases, Forgets, files, histories, FilesTyped, TasksTyped, Contents,
     Steps
<1>3. RestTyped'
  BY DEF Dies, Releases, Forgets, files, histories, FilesTyped, RestTyped, Contents
<1>4. Placed'
  BY DEF Dies, Releases, Forgets, files, histories, TasksTyped, RestTyped, Placed,
     SigningIn, LoginSteps, ImportSteps, Making, Restoring
<1>5. Kempt'
  BY DEF Dies, Releases, Forgets, files, histories, FilesTyped, TasksTyped, RestTyped,
     Placed, Kempt, SigningIn, LoginSteps, ImportSteps, Making, Restoring
<1>. QED  BY <1>1, <1>2, <1>3, <1>4, <1>5

LEMMA AsksToLogOutBasics == ASSUME Basics, NEW p \in Proc, AsksToLogOut(p) PROVE Basics'
<1>. USE Bounds DEF Basics, Goes
<1>1. FilesTyped'
  BY DEF AsksToLogOut, Present, Identity, Generation, files, histories, FilesTyped,
     TasksTyped, Contents
<1>2. TasksTyped'
  BY DEF AsksToLogOut, Present, Identity, Generation, files, histories, FilesTyped,
     TasksTyped, Contents, Steps
<1>3. RestTyped'
  BY DEF AsksToLogOut, Present, Identity, Generation, files, histories, FilesTyped,
     RestTyped, Contents
<1>4. Placed'
  BY DEF AsksToLogOut, Present, Identity, Generation, files, histories, TasksTyped,
     RestTyped, Placed, SigningIn, LoginSteps, ImportSteps, Making, Restoring
<1>5. Kempt'
  BY DEF AsksToLogOut, Present, Identity, Generation, files, histories, FilesTyped,
     TasksTyped, RestTyped, Placed, Kempt, SigningIn, LoginSteps, ImportSteps, Making,
     Restoring
<1>. QED  BY <1>1, <1>2, <1>3, <1>4, <1>5

LEMMA LogsOutBasics == ASSUME Basics, NEW p \in Proc, LogsOut(p) PROVE Basics'
<1>. USE Bounds DEF Basics, Goes
<1>1. FilesTyped'
  <2>1. 1..minted \subseteq Session
    BY DEF FilesTyped
  <2>. QED  BY <2>1 DEF LogsOut, files, histories, FilesTyped
<1>2. TasksTyped'
  <2>1. todo' \in [Proc -> SUBSET Artifact]
    BY DEF LogsOut, TasksTyped
  <2>. QED  BY <2>1 DEF LogsOut, files, histories, TasksTyped, Steps
<1>3. RestTyped'
  BY DEF LogsOut, Holds, files, histories, FilesTyped, RestTyped, Contents
<1>4. Placed'
  BY DEF LogsOut, Holds, files, histories, TasksTyped, RestTyped, Placed, SigningIn,
     LoginSteps, ImportSteps, Making, Restoring
<1>5. Kempt'
  BY DEF LogsOut, Holds, files, histories, FilesTyped, TasksTyped, RestTyped, Placed,
     Kempt, SigningIn, LoginSteps, ImportSteps, Making, Restoring
<1>. QED  BY <1>1, <1>2, <1>3, <1>4, <1>5

LEMMA DeletesBasics == ASSUME Basics, NEW p \in Proc, Deletes(p) PROVE Basics'
<1>. USE Bounds DEF Basics, Goes
<1>t. pc[p] = "deletes" /\ UNCHANGED <<Rest, moved>>
  BY DeletesIs
<1>a. \/ \E a \in todo[p] :
           /\ a \in Artifact /\ todo' = [todo EXCEPT ![p] = @ \ {a}]
           /\ UNCHANGED <<kept, debris, pc>>
           /\ \/ live' = [live EXCEPT ![a] = NoSession] /\ Still
              \/ Slips(p) /\ UNCHANGED live
      \/ /\ kept' = [q \in Quarantine |-> Nothing] /\ debris' = [q \in Quarantine |-> Nothing]
         /\ Goes(p, "ends") /\ UNCHANGED <<live, todo>> /\ Still
  BY DeletesIs
<1>f. /\ live' \in Contents /\ kept' \in [Quarantine -> Contents]
      /\ debris' \in [Quarantine -> Contents]
      /\ \A r \in Quarantine : (kept'[r] = kept[r] /\ debris'[r] = debris[r])
                               \/ (kept'[r] = Nothing /\ debris'[r] = Nothing)
  <2>t. /\ live \in Contents /\ kept \in [Quarantine -> Contents]
        /\ debris \in [Quarantine -> Contents]
    BY DEF FilesTyped
  <2>1. \A a \in Artifact : [live EXCEPT ![a] = NoSession] \in Contents
    BY <2>t DEF Contents
  <2>. QED  BY <1>a, <2>t, <2>1
<1>1. FilesTyped'
  BY <1>t, <1>f DEF Rest, FilesTyped
<1>2. TasksTyped'
  <2>1. todo' \in [Proc -> SUBSET Artifact]
    BY <1>t, <1>a DEF TasksTyped, Rest
  <2>2. moved' \in [Proc -> SUBSET Artifact]
    BY <1>t, <1>a DEF TasksTyped, Rest
  <2>3. pc' \in [Proc -> Steps]
    BY <1>t, <1>a DEF TasksTyped, Rest, Steps
  <2>. QED  BY <2>1, <2>2, <2>3, <1>t DEF TasksTyped, Rest
<1>3. RestTyped'
  BY DeletesIs DEF Slips, Still, Rest, files, histories, FilesTyped, RestTyped, Contents
<1>4. Placed'
  BY DeletesIs DEF Slips, Still, Rest, files, histories, TasksTyped, RestTyped,
     Placed, SigningIn, LoginSteps, ImportSteps, Making, Restoring
<1>k. \A q \in Quarantine : q > rotations' => kept'[q] = Nothing /\ debris'[q] = Nothing
  BY <1>t, <1>f DEF Rest, Kempt, FilesTyped
<1>5. Kempt'
  BY <1>t, <1>a, <1>k DEF Rest, FilesTyped, TasksTyped, RestTyped, Placed, Kempt,
     SigningIn, LoginSteps, ImportSteps, Making, Restoring
<1>. QED  BY <1>1, <1>2, <1>3, <1>4, <1>5

(***************************************************************************)
(* What lies where, as long as no sign-in left anything                    *)
(***************************************************************************)

LEMMA HolderKeeps ==
  ASSUME NEW p \in Proc, lease' = p, InHand(p)' PROVE Holding'
BY DEF Holding

LEMMA NobodyHolds == ASSUME lease' = Nobody PROVE Holding'
BY Bounds DEF Holding

\* What a process without the profile does concerns only itself.
Apart(p) ==
  /\ UNCHANGED <<live, kept, debris, established, forgotten>>
  /\ \A r \in Proc : r # p =>
       /\ pc'[r] = pc[r] /\ task'[r] = task[r] /\ guard'[r] = guard[r]
       /\ todo'[r] = todo[r] /\ moved'[r] = moved[r] /\ retired'[r] = retired[r]
       /\ fresh'[r] = fresh[r] /\ spoiled'[r] = spoiled[r] /\ before'[r] = before[r]

LEMMA BystanderKeeps ==
  ASSUME NEW p \in Proc, lease # p, lease' = lease, Apart(p), Holding
  PROVE  Holding'
<1>. SUFFICES ASSUME NEW r \in Proc, lease' = r PROVE InHand(r)'
  BY DEF Holding
<1>1. InHand(r) /\ r # p
  BY DEF Holding
<1>2. /\ pc'[r] = pc[r] /\ task'[r] = task[r] /\ guard'[r] = guard[r]
      /\ todo'[r] = todo[r] /\ moved'[r] = moved[r] /\ retired'[r] = retired[r]
      /\ fresh'[r] = fresh[r] /\ spoiled'[r] = spoiled[r] /\ before'[r] = before[r]
      /\ UNCHANGED <<live, kept, debris, established, forgotten>>
  BY <1>1 DEF Apart
<1>3. Laid(r)'
  BY <1>1, <1>2 DEF InHand, Laid, SigningIn, Making, LoginSteps, ImportSteps, Joint,
     Present,
     Ready, Whole
<1>4. Meant(r)'
  BY <1>1, <1>2 DEF InHand, Meant, SigningIn, Whole
<1>5. SigningIn(r)' /\ ~spoiled'[r] /\ before'[r] # NoSession => Accounted(r, before[r])'
  BY <1>1, <1>2 DEF InHand, SigningIn, Accounted, Making, LoginSteps, ImportSteps, Whole
<1>. QED  BY <1>3, <1>4, <1>5 DEF InHand

LEMMA FilesStay ==
  ASSUME Orderly, UNCHANGED <<live, kept, debris>>,
         established' \ forgotten' \subseteq established \ forgotten
  PROVE  Orderly'
BY DEF Orderly, Coherent, Present, Somewhere

LEMMA StartsATaskKeeps ==
  ASSUME Basics, Basics', Orderly, Holding, NEW p \in Proc, StartsATask(p), ~tainted'
  PROVE  Orderly' /\ Holding'
<1>. USE Bounds DEF Goes
<1>1. lease # p /\ lease' = lease
  BY DEF StartsATask, Starts, Basics, Placed
<1>2. Apart(p)
  BY DEF StartsATask, Starts, Apart, files, histories, FilesTyped, TasksTyped,
     RestTyped, Placed, Basics
<1>3. Orderly'
  BY <1>2, FilesStay DEF StartsATask, Starts, Apart
<1>. QED  BY <1>1, <1>2, <1>3, BystanderKeeps

LEMMA GivesUpKeeps ==
  ASSUME Basics, Basics', Orderly, Holding, NEW p \in Proc, GivesUp(p), ~tainted'
  PROVE  Orderly' /\ Holding'
<1>. USE Bounds DEF Goes
<1>1. lease # p /\ lease' = lease
  BY DEF GivesUp, Holds, Forgets, Basics, Placed
<1>2. Apart(p)
  BY DEF GivesUp, Holds, Forgets, Apart, files, histories, FilesTyped, TasksTyped,
     RestTyped, Placed, Basics
<1>3. Orderly'
  BY <1>2, FilesStay DEF GivesUp, Holds, Forgets, Apart
<1>. QED  BY <1>1, <1>2, <1>3, BystanderKeeps

LEMMA AsksToLogOutKeeps ==
  ASSUME Basics, Basics', Orderly, Holding, NEW p \in Proc, AsksToLogOut(p), ~tainted'
  PROVE  Orderly' /\ Holding'
<1>. USE Bounds DEF Goes
<1>1. lease # p /\ lease' = lease
  BY DEF AsksToLogOut, Basics, Placed
<1>2. Apart(p)
  BY DEF AsksToLogOut, Apart, files, histories, FilesTyped, TasksTyped, RestTyped,
     Placed, Basics
<1>3. Orderly'
  BY <1>2, FilesStay DEF AsksToLogOut, Apart
<1>. QED  BY <1>1, <1>2, <1>3, BystanderKeeps

LEMMA EndsKeeps ==
  ASSUME Basics, Basics', Orderly, Holding, NEW p \in Proc, Ends(p), ~tainted'
  PROVE  Orderly' /\ Holding'
<1>. USE Bounds DEF Goes
<1>1. lease' = Nobody \/ (lease # p /\ lease' = lease)
  BY DEF Ends, Releases, Forgets, Basics, Placed
<1>2. Apart(p)
  BY DEF Ends, Releases, Forgets, Apart, files, histories, FilesTyped, TasksTyped,
     RestTyped, Placed, Basics
<1>3. Orderly'
  BY <1>2, FilesStay DEF Ends, Releases, Forgets, Apart
<1>. QED  BY <1>1, <1>2, <1>3, BystanderKeeps, NobodyHolds

LEMMA DiesKeeps ==
  ASSUME Basics, Basics', Orderly, Holding, NEW p \in Proc, Dies(p), ~tainted'
  PROVE  Orderly' /\ Holding'
<1>. USE Bounds DEF Goes
<1>1. lease' = Nobody \/ (lease # p /\ lease' = lease)
  BY DEF Dies, Releases, Forgets, Basics, Placed
<1>2. Apart(p)
  BY DEF Dies, Releases, Forgets, Apart, files, histories, FilesTyped, TasksTyped,
     RestTyped, Placed, Basics
<1>3. Orderly'
  BY <1>2, FilesStay DEF Dies, Releases, Forgets, Apart
<1>. QED  BY <1>1, <1>2, <1>3, BystanderKeeps, NobodyHolds

LEMMA RestoredKeeps ==
  ASSUME Basics, Basics', Orderly, Holding, NEW p \in Proc, Restored(p), ~tainted'
  PROVE  Orderly' /\ Holding'
<1>. USE Bounds DEF Goes
<1>0. lease = p /\ InHand(p)
  BY DEF Restored, Basics, Placed, Holding, SigningIn, Making, LoginSteps,
     ImportSteps, Restoring
<1>l. lease' = p
  BY <1>0 DEF Restored, files, histories
<1>1. Orderly'
  BY FilesStay DEF Restored, files, histories
<1>2. Laid(p)'
  BY <1>0 DEF Restored, files, histories, FilesTyped, TasksTyped, Placed, Kempt,
     Basics, InHand, Laid, SigningIn, Making, LoginSteps, ImportSteps, Joint, Present,
     Ready, Whole
<1>3. Meant(p)'
  BY <1>0 DEF Restored, files, histories, FilesTyped, TasksTyped, Placed, Kempt,
     Basics, InHand, Meant, SigningIn, Making, LoginSteps, ImportSteps, Whole
<1>4. SigningIn(p)' /\ ~spoiled'[p] /\ before'[p] # NoSession => Accounted(p, before[p])'
  BY <1>0 DEF Restored, files, histories, FilesTyped, TasksTyped, Placed, Kempt,
     Basics, RestTyped, InHand, Laid, Accounted, SigningIn, Making, LoginSteps,
     ImportSteps, Joint, Present, Ready, Whole
<1>. QED  BY <1>l, <1>1, <1>2, <1>3, <1>4, HolderKeeps DEF InHand

LEMMA EmptyIsNothing == ASSUME NEW f \in Contents, Present(f) = {} PROVE f = Nothing
BY DEF Present, Contents, Nothing

LEMMA NothingIsThere ==
  /\ Present(Nothing) = {} /\ Nothing \in Contents /\ ~Ready(Nothing)
  /\ \A f : Joint(Nothing, f) /\ Joint(f, Nothing)
  /\ \A s \in Session : ~Whole(Nothing, s)
BY Bounds DEF Present, Nothing, Joint, Ready, Whole, Contents

LEMMA RotationDoneKeeps ==
  ASSUME Basics, Basics', Orderly, Holding, NEW p \in Proc, RotationDone(p), ~tainted'
  PROVE  Orderly' /\ Holding'
<1>. USE Bounds DEF Goes
<1>0. lease = p /\ InHand(p)
  BY DEF RotationDone, AfterRotation, Basics, Placed, Holding, SigningIn, Making,
     LoginSteps, ImportSteps, Restoring
<1>l. lease' = p
  BY <1>0 DEF RotationDone, AfterRotation, files, histories
<1>1. Orderly'
  BY FilesStay DEF RotationDone, AfterRotation, files, histories
<1>2. Laid(p)'
  <2>1. /\ SigningIn(p) => live = Nothing
        /\ debris[retired[p]] = Nothing /\ retired[p] # NoQuarantine
    <3>1. SigningIn(p) => Present(live) = {}
      BY <1>0 DEF RotationDone, InHand, Laid
    <3>. QED  BY <1>0, <3>1, EmptyIsNothing DEF RotationDone, InHand, Laid,
       FilesTyped, TasksTyped, Kempt, Basics
  <2>2. /\ retired'[p] = retired[p] /\ UNCHANGED <<live, kept, debris, todo, fresh, task>>
        /\ todo[p] = {}
    BY DEF RotationDone, AfterRotation, TasksTyped, Basics, files
  <2>3. \/ pc'[p] = "ends"
        \/ pc'[p] \in {"opens", "staging", "parks"} /\ SigningIn(p)
    BY DEF RotationDone, AfterRotation, TasksTyped, Basics, SigningIn, Placed
  <2>. QED  BY <2>1, <2>2, <2>3, NothingIsThere DEF Laid, SigningIn, Making,
     LoginSteps, ImportSteps
<1>3. Meant(p)'
  BY <1>0 DEF RotationDone, AfterRotation, files, histories, FilesTyped, TasksTyped,
     Placed, Kempt, Basics, InHand, Meant, SigningIn, Making, LoginSteps, ImportSteps,
     Whole
<1>4. SigningIn(p)' /\ ~spoiled'[p] /\ before'[p] # NoSession => Accounted(p, before[p])'
  BY <1>0 DEF RotationDone, AfterRotation, files, histories, FilesTyped, TasksTyped,
     Placed, Kempt, Basics, RestTyped, InHand, Laid, Accounted, SigningIn, Making,
     LoginSteps, ImportSteps, Joint, Present, Ready, Whole
<1>. QED  BY <1>l, <1>1, <1>2, <1>3, <1>4, HolderKeeps DEF InHand

LEMMA EndsTheLoginKeeps ==
  ASSUME Basics, Basics', Orderly, Holding, NEW p \in Proc, EndsTheLogin(p), ~tainted'
  PROVE  Orderly' /\ Holding'
<1>. USE Bounds DEF Goes
<1>0. lease = p /\ InHand(p)
  BY DEF EndsTheLogin, Basics, Placed, Holding, SigningIn, Making, LoginSteps,
     ImportSteps, Restoring
<1>l. lease' = p
  BY <1>0 DEF EndsTheLogin, files, histories
<1>1. Orderly'
  BY FilesStay DEF EndsTheLogin, files, histories
<1>2. Laid(p)'
  <2>1. /\ retired'[p] = retired[p] /\ UNCHANGED <<live, kept, debris, todo, fresh, task>>
        /\ todo[p] = {}
    BY DEF EndsTheLogin, Kempt, Basics, files, Making, LoginSteps, ImportSteps
  <2>2. \/ pc'[p] \in {"ends", "stuck"}
        \/ pc'[p] = "parks" /\ retired[p] # NoQuarantine
    BY DEF EndsTheLogin, TasksTyped, Basics
  <2>3. retired[p] # NoQuarantine => debris[retired[p]] = Nothing
    BY <1>0 DEF EndsTheLogin, InHand, Laid, SigningIn, Making, LoginSteps, ImportSteps
  <2>4. Ready(live) => Whole(live, fresh[p])
    BY <1>0 DEF EndsTheLogin, InHand, Laid, Ready, Present, Nothing, SigningIn,
       Making, LoginSteps, ImportSteps
  <2>. QED  BY <2>1, <2>2, <2>3, <2>4, NothingIsThere DEF Laid, SigningIn, Making,
     LoginSteps, ImportSteps
<1>3. Meant(p)'
  BY <1>0 DEF EndsTheLogin, files, histories, FilesTyped, TasksTyped, Placed, Kempt,
     Basics, InHand, Meant, SigningIn, Making, LoginSteps, ImportSteps, Whole
<1>4. SigningIn(p)' /\ ~spoiled'[p] /\ before'[p] # NoSession => Accounted(p, before[p])'
  BY <1>0 DEF EndsTheLogin, files, histories, FilesTyped, TasksTyped, Placed, Kempt,
     Basics, RestTyped, InHand, Laid, Accounted, SigningIn, Making, LoginSteps,
     ImportSteps, Joint, Present, Ready, Whole
<1>. QED  BY <1>l, <1>1, <1>2, <1>3, <1>4, HolderKeeps DEF InHand

LEMMA EndsTheImportKeeps ==
  ASSUME Basics, Basics', Orderly, Holding, NEW p \in Proc, EndsTheImport(p), ~tainted'
  PROVE  Orderly' /\ Holding'
<1>. USE Bounds DEF Goes
<1>0. lease = p /\ InHand(p)
  BY DEF EndsTheImport, Basics, Placed, Holding, SigningIn, Making, LoginSteps,
     ImportSteps, Restoring
<1>l. lease' = p
  BY <1>0 DEF EndsTheImport, files, histories
<1>1. Orderly'
  BY FilesStay DEF EndsTheImport, files, histories
<1>2. Laid(p)'
  <2>1. /\ retired'[p] = retired[p] /\ UNCHANGED <<live, kept, debris, todo, fresh, task>>
        /\ todo[p] = {}
    BY DEF EndsTheImport, Kempt, Basics, files, Making, LoginSteps, ImportSteps
  <2>2. \/ pc'[p] \in {"ends", "stuck"}
        \/ pc'[p] = "parks" /\ retired[p] # NoQuarantine
    BY DEF EndsTheImport, TasksTyped, Basics
  <2>3. retired[p] # NoQuarantine => debris[retired[p]] = Nothing
    BY <1>0 DEF EndsTheImport, InHand, Laid, SigningIn, Making, LoginSteps, ImportSteps
  <2>4. Ready(live) => Whole(live, fresh[p])
    BY <1>0 DEF EndsTheImport, InHand, Laid, Ready, Present, Nothing, SigningIn,
       Making, LoginSteps, ImportSteps
  <2>. QED  BY <2>1, <2>2, <2>3, <2>4, NothingIsThere DEF Laid, SigningIn, Making,
     LoginSteps, ImportSteps
<1>3. Meant(p)'
  BY <1>0 DEF EndsTheImport, files, histories, FilesTyped, TasksTyped, Placed, Kempt,
     Basics, InHand, Meant, SigningIn, Making, LoginSteps, ImportSteps, Whole
<1>4. SigningIn(p)' /\ ~spoiled'[p] /\ before'[p] # NoSession => Accounted(p, before[p])'
  BY <1>0 DEF EndsTheImport, files, histories, FilesTyped, TasksTyped, Placed, Kempt,
     Basics, RestTyped, InHand, Laid, Accounted, SigningIn, Making, LoginSteps,
     ImportSteps, Joint, Present, Ready, Whole
<1>. QED  BY <1>l, <1>1, <1>2, <1>3, <1>4, HolderKeeps DEF InHand

LEMMA ExtractsKeeps ==
  ASSUME Basics, Basics', Orderly, Holding, NEW p \in Proc, Extracts(p), ~tainted'
  PROVE  Orderly' /\ Holding'
<1>. USE Bounds DEF Goes
<1>0. lease = p /\ InHand(p)
  BY DEF Extracts, Mints, Basics, Placed, Holding, SigningIn, Making, LoginSteps,
     ImportSteps, Restoring
<1>l. lease' = p
  BY <1>0 DEF Extracts, Mints, files, histories
<1>1. Orderly'
  BY FilesStay DEF Extracts, Mints, files, histories
<1>2. Laid(p)'
  BY <1>0 DEF Extracts, Mints, files, histories, FilesTyped, TasksTyped, Placed,
     Kempt, Basics, InHand, Laid, SigningIn, Making, LoginSteps, ImportSteps, Joint,
     Present, Ready, Whole
<1>3. Meant(p)'
  BY <1>0 DEF Extracts, Mints, files, histories, FilesTyped, TasksTyped, Placed,
     Kempt, Basics, InHand, Meant, SigningIn, Making, LoginSteps, ImportSteps, Whole
<1>4. SigningIn(p)' /\ ~spoiled'[p] /\ before'[p] # NoSession => Accounted(p, before[p])'
  BY <1>0 DEF Extracts, Mints, files, histories, FilesTyped, TasksTyped, Placed,
     Kempt, Basics, RestTyped, InHand, Laid, Accounted, SigningIn, Making, LoginSteps,
     ImportSteps, Joint, Present, Ready, Whole
<1>. QED  BY <1>l, <1>1, <1>2, <1>3, <1>4, HolderKeeps DEF InHand

LEMMA TakesTheProfileKeeps ==
  ASSUME Basics, Basics', Orderly, Holding, NEW p \in Proc, TakesTheProfile(p), ~tainted'
  PROVE  Orderly' /\ Holding'
<1>. USE Bounds DEF Goes
<1>l. lease' = p
  BY  DEF TakesTheProfile, Holds, Generation, files, histories
<1>1. Orderly'
  BY FilesStay DEF TakesTheProfile, Holds, Generation, files, histories
<1>2. Laid(p)'
  BY DEF TakesTheProfile, TasksTyped, Basics, Laid, SigningIn, Making, LoginSteps,
     ImportSteps
<1>3. Meant(p)'
  <2>1. /\ UNCHANGED <<live, guard, task>>
        /\ pc'[p] = "ends" \/ (pc'[p] = "lists" /\ ~APeerSignedIn(guard[p]))
    BY DEF TakesTheProfile, files, TasksTyped, Basics
  <2>2. ~APeerSignedIn(guard[p]) => \A s \in Session : Whole(live, s) => guard[p] \in {Unguarded, s}
    BY DEF APeerSignedIn, Generation, Whole, Ready, Present
  <2>. QED  BY <2>1, <2>2 DEF Meant, Whole
<1>4. SigningIn(p)' /\ ~spoiled'[p] /\ before'[p] # NoSession => Accounted(p, before[p])'
  <2>1. ASSUME before'[p] # NoSession PROVE Whole(live, before'[p]) /\ before'[p] \in Session
    <3>1. /\ live' = live /\ Ready(live) /\ before'[p] = live["state"]
      BY <2>1 DEF TakesTheProfile, Generation, RestTyped, Basics, files
    <3>2. \A a \in Artifact : live[a] = live["state"] /\ live[a] \in Session \cup {NoSession}
      BY <3>1 DEF FilesTyped, Contents, Basics, Orderly, Coherent, Ready
    <3>3. live["state"] # NoSession
      BY <3>1 DEF Ready, Present
    <3>. QED  BY <3>1, <3>2, <3>3 DEF Whole
  <2>. QED  BY <2>1 DEF TakesTheProfile, files, TasksTyped, Basics, Accounted,
     SigningIn, Making, LoginSteps, ImportSteps, Whole
<1>. QED  BY <1>l, <1>1, <1>2, <1>3, <1>4, HolderKeeps DEF InHand

LEMMA LogsOutKeeps ==
  ASSUME Basics, Basics', Orderly, Holding, NEW p \in Proc, LogsOut(p), ~tainted'
  PROVE  Orderly' /\ Holding'
<1>. USE Bounds DEF Goes
<1>l. lease' = p
  BY  DEF LogsOut, Holds, files, histories
<1>1. Orderly'
  <2>1. \/ established' \ forgotten' = established \ forgotten
        \/ established' \ forgotten' = {}
    BY DEF LogsOut, Kempt, Basics
  <2>. QED  BY <2>1, FilesStay DEF LogsOut, files
<1>2. Laid(p)'
  <2>1. \/ pc'[p] = "ends"
        \/ pc'[p] = "deletes" /\ forgotten' = 1..minted /\ established' = established
    BY DEF LogsOut, TasksTyped, Basics
  <2>2. established \subseteq 1..minted
    BY DEF Kempt, Basics
  <2>. QED  BY <2>1, <2>2 DEF Laid, SigningIn, Making, LoginSteps, ImportSteps
<1>3. Meant(p)'
  BY DEF LogsOut, SameSession, Identity, Generation, files, TasksTyped, Basics,
     Placed, Meant, SigningIn, Making, LoginSteps, ImportSteps, Whole
<1>4. ~SigningIn(p)'
  BY DEF LogsOut, Placed, TasksTyped, Basics, SigningIn
<1>. QED  BY <1>l, <1>1, <1>2, <1>3, <1>4, HolderKeeps DEF InHand

LEMMA ListsKeeps ==
  ASSUME Basics, Basics', Orderly, Holding, NEW p \in Proc, Lists(p), ~tainted'
  PROVE  Orderly' /\ Holding'
<1>. USE Bounds DEF Goes
<1>1. CASE lease # p
  <2>1. lease' = lease /\ Apart(p)
    BY DEF Lists, AfterRotation, Apart, files, histories, FilesTyped, TasksTyped,
       RestTyped, Placed, Basics
  <2>2. Orderly'
    BY <2>1, FilesStay DEF Lists, Apart
  <2>. QED  BY <1>1, <2>1, <2>2, BystanderKeeps
<1>2. CASE lease = p
  <2>0. InHand(p) /\ lease' = p
    BY <1>2 DEF Holding, Lists
  <2>1. Orderly'
    BY FilesStay DEF Lists, files, histories
  <2>2. \/ /\ pc'[p] = "holds" /\ todo'[p] = Present(live)
        \/ /\ Present(live) = {} /\ todo'[p] = {} /\ retired'[p] = NoQuarantine
           /\ pc'[p] \in {"ends", "opens", "staging"}
    BY DEF Lists, AfterRotation, Existing, TasksTyped, Basics
  <2>3. Present(live) = {} => live = Nothing
    BY EmptyIsNothing DEF FilesTyped, Basics
  <2>4. UNCHANGED <<live, kept, debris, task, guard, fresh, spoiled, before>>
    BY DEF Lists, files, histories
  <2>5. Laid(p)'
    BY <2>2, <2>3, <2>4 DEF Laid, SigningIn, Making, LoginSteps, ImportSteps
  <2>6. Meant(p)'
    BY <2>0, <2>2, <2>4 DEF InHand, Meant, Lists, SigningIn
  <2>7. SigningIn(p)' /\ ~spoiled'[p] /\ before'[p] # NoSession => Accounted(p, before[p])'
    <3>1. SUFFICES ASSUME SigningIn(p), ~spoiled[p], before[p] # NoSession
                   PROVE  Accounted(p, before[p])'
      BY <2>4 DEF SigningIn
    <3>2. Whole(live, before[p]) /\ before[p] \in Session
      BY <2>0, <3>1 DEF InHand, Accounted, Lists, RestTyped, Basics
    <3>3. pc'[p] = "holds"
      BY <2>2, <2>3, <3>2, NothingIsThere
    <3>. QED  BY <2>4, <3>2, <3>3 DEF Accounted, SigningIn, Making, LoginSteps,
       ImportSteps
  <2>. QED  BY <2>0, <2>1, <2>5, <2>6, <2>7, HolderKeeps DEF InHand
<1>. QED  BY <1>1, <1>2

LEMMA TakesItToMoveKeeps ==
  ASSUME Basics, Basics', Orderly, Holding, NEW p \in Proc, TakesItToMove(p), ~tainted'
  PROVE  Orderly' /\ Holding'
<1>. USE Bounds DEF Goes
<1>o. Orderly'
  BY FilesStay DEF TakesItToMove
<1>1. CASE lease' # p
  <2>1. lease # p /\ lease' = lease /\ Apart(p)
    BY <1>1 DEF TakesItToMove, Apart, files, histories, FilesTyped, TasksTyped,
       RestTyped, Placed, Basics
  <2>. QED  BY <1>o, <2>1, BystanderKeeps
<1>2. CASE lease' = p
  <2>4. UNCHANGED <<live, kept, debris, task, guard, fresh, before, todo, moved>> /\ pc[p] = "holds"
    BY DEF TakesItToMove
  <2>0. SigningIn(p) => InHand(p)
    BY <2>4 DEF Holding, Placed, Basics
  <2>1. \/ pc'[p] = "ends" /\ (spoiled'[p] \/ ~SigningIn(p))
        \/ /\ pc'[p] = "moves" /\ retired'[p] = rotations + 1 /\ rotations + 1 \in Quarantine
           /\ spoiled' = spoiled /\ (task[p] = "retire" => ~APeerSignedIn(guard[p]))
    BY <1>2 DEF TakesItToMove, TasksTyped, FilesTyped, RestTyped, Basics, SigningIn
  <2>2. /\ retired'[p] = rotations + 1 /\ rotations + 1 \in Quarantine =>
             kept[retired'[p]] = Nothing /\ debris[retired'[p]] = Nothing
        /\ moved[p] = {}
    BY <2>4 DEF Kempt, FilesTyped, Basics
  <2>5. Laid(p)'
    BY <2>0, <2>1, <2>2, <2>4, NothingIsThere DEF InHand, Laid, SigningIn, Making,
       LoginSteps, ImportSteps
  <2>6. Meant(p)'
    <3>1. CASE SigningIn(p)
      BY <2>0, <2>1, <2>4, <3>1 DEF InHand, Meant
    <3>2. CASE task[p] = "retire"
      BY <2>1, <2>4, <3>2 DEF Meant, APeerSignedIn, Generation, Whole, Ready, Present,
         SigningIn
    <3>. QED  BY <2>4, <3>1, <3>2 DEF Placed, Basics, SigningIn
  <2>7. SigningIn(p)' /\ ~spoiled'[p] /\ before'[p] # NoSession => Accounted(p, before[p])'
    <3>1. SUFFICES ASSUME SigningIn(p), pc'[p] = "moves", ~spoiled[p], before[p] # NoSession
                   PROVE Accounted(p, before[p])'
      BY <2>1, <2>4 DEF SigningIn, Accounted
    <3>2. Whole(live, before[p]) /\ todo[p] = Present(live) /\ before[p] \in Session
      BY <2>0, <2>4, <3>1 DEF InHand, Accounted, Laid, RestTyped, Basics
    <3>. QED  BY <2>4, <3>1, <3>2 DEF Accounted, SigningIn, Making, LoginSteps,
       ImportSteps, Whole, Present
  <2>. QED  BY <1>2, <1>o, <2>5, <2>6, <2>7, HolderKeeps DEF InHand
<1>. QED  BY <1>1, <1>2

LEMMA TheWorkerStagesKeeps ==
  ASSUME Basics, Basics', Orderly, Holding, NEW p \in Proc, TheWorkerStages(p), ~tainted'
  PROVE  Orderly' /\ Holding'
<1>. USE Bounds DEF Goes
<1>. QED  BY DEF TheWorkerStages

LEMMA MovesAwaySplits ==
  ASSUME Basics, NEW p \in Proc, MovesAway(p)
  PROVE  \/ /\ Goes(p, "undoes") /\ UNCHANGED <<live, kept, debris, todo, moved>>
            /\ spoiled'[p] \/ \E a \in todo[p] : live[a] = NoSession
         \/ \E a \in Artifact :
              /\ a \in todo[p] /\ live[a] # NoSession
              /\ kept' = [kept EXCEPT ![retired[p]][a] = live[a]]
              /\ live' = [live EXCEPT ![a] = NoSession]
              /\ todo' = [todo EXCEPT ![p] = @ \ {a}]
              /\ moved' = [moved EXCEPT ![p] = @ \cup {a}]
              /\ UNCHANGED <<pc, spoiled>>
BY MovesAwayIs DEF Slips, Still, Basics, RestTyped

LEMMA MovesAwayKeeps ==
  ASSUME Basics, Basics', Orderly, Holding, NEW p \in Proc, MovesAway(p), ~tainted'
  PROVE  Orderly' /\ Holding'
<1>. USE Bounds DEF Goes
<1>0. lease = p /\ InHand(p) /\ pc[p] = "moves" /\ lease' = p
  BY MovesAwayIs DEF Basics, Placed, Holding, SigningIn, Making, LoginSteps,
     ImportSteps, Restoring, Rest
<1>t. /\ live \in Contents /\ kept \in [Quarantine -> Contents]
      /\ debris \in [Quarantine -> Contents] /\ retired[p] \in Quarantine
      /\ moved[p] \subseteq Artifact /\ todo[p] \subseteq Artifact
  BY <1>0 DEF Basics, FilesTyped, TasksTyped, Kempt, Restoring
<1>r. UNCHANGED <<Rest, debris>>
  BY MovesAwayIs
<1>b. ASSUME Goes(p, "undoes"), UNCHANGED <<live, kept, debris, todo, moved>>,
             spoiled'[p] \/ \E a \in todo[p] : live[a] = NoSession
      PROVE  Orderly' /\ Holding'
  <2>1. Orderly'
    BY <1>b, <1>r, FilesStay DEF Rest
  <2>u. /\ pc'[p] = "undoes" /\ retired'[p] = retired[p] /\ task' = task /\ UNCHANGED before
    BY <1>b, <1>r DEF Rest, TasksTyped, Basics
  <2>2. Laid(p)'
    BY <1>0, <1>b, <2>u DEF InHand, Laid, SigningIn, Making, LoginSteps, ImportSteps
  <2>3. Meant(p)'
    BY <2>u DEF Meant
  <2>4. SigningIn(p)' => spoiled'[p]
    BY <1>0, <1>b, <2>u DEF SigningIn, InHand, Laid, Present
  <2>. QED  BY <1>0, <2>1, <2>2, <2>3, <2>4, HolderKeeps DEF InHand
<1>c. ASSUME NEW a \in Artifact, a \in todo[p], live[a] # NoSession,
             kept' = [kept EXCEPT ![retired[p]][a] = live[a]],
             live' = [live EXCEPT ![a] = NoSession], todo' = [todo EXCEPT ![p] = @ \ {a}],
             moved' = [moved EXCEPT ![p] = @ \cup {a}], UNCHANGED <<pc, spoiled>>
      PROVE  Orderly' /\ Holding'
  <2>v. live[a] \in Session \cup {NoSession} /\ NoSession \in Session \cup {NoSession}
    BY <1>t, <1>c DEF Contents
  <2>q. PICK q \in Quarantine : q = retired[p]
    BY <1>t
  <2>k. PICK k \in Session \cup {NoSession} : k = live[a]
    BY <2>v
  <2>l. PICK l \in Session \cup {NoSession} : l = NoSession
    BY <2>v
  <2>e. kept' = Put(kept, q, a, k) /\ live' = [live EXCEPT ![a] = l]
    BY <1>c, <2>q, <2>k, <2>l DEF Put
  <2>f. /\ kept'[q][a] = k /\ \A b \in Artifact : b # a => kept'[q][b] = kept[q][b]
        /\ \A r \in Quarantine : r # q => kept'[r] = kept[r]
    <3>1. /\ Put(kept, q, a, k)[q][a] = k
          /\ \A b \in Artifact : b # a => Put(kept, q, a, k)[q][b] = kept[q][b]
          /\ \A r \in Quarantine : r # q => Put(kept, q, a, k)[r] = kept[r]
      <4>1. kept \in [Quarantine -> Contents]
        BY <1>t
      <4>. QED  BY <4>1, PutsOne, SMTT(30)
    <3>. QED  BY <2>e, <3>1
  <2>m. live'[a] = l /\ \A b \in Artifact : b # a => live'[b] = live[b]
    BY <1>t, <2>e DEF Contents
  <2>h. /\ Joint(live, kept[q]) /\ debris[q] = Nothing
        /\ Present(kept[q]) = moved[p] /\ moved[p] \cap Present(live) = {}
        /\ todo[p] \cap moved[p] = {} /\ (SigningIn(p) => todo[p] = Present(live))
    BY <1>0, <2>q DEF InHand, Laid
  <2>n. a \notin moved[p] /\ kept[q][a] = NoSession
    BY <1>c, <2>h DEF Present
  <2>1. Orderly'
    <3>o. Coherent(live) /\ Coherent(kept[q])
      BY DEF Orderly
    <3>a. Coherent(live')
      BY <3>o, <2>h, <2>n, <2>m, <2>q, <2>k, <2>l DEF Coherent, Joint, Present
    <3>1. Coherent(kept'[q])
      BY <3>o, <2>h, <2>n, <2>f, <2>k, <2>l DEF Coherent, Joint, Present
    <3>2. \A r \in Quarantine : Coherent(kept'[r]) /\ Coherent(debris'[r])
      BY <3>1, <2>f, <1>r DEF Orderly
    <3>3. \A s \in Session, b \in Artifact : Somewhere(s, b) => Somewhere(s, b)'
      BY <2>h, <2>n, <2>f, <2>m, <2>q, <2>k, <2>l, <1>r, <1>t DEF Somewhere, Present
    <3>4. established' \ forgotten' = established \ forgotten /\ established \subseteq Session
      BY <1>r DEF Rest, Basics, FilesTyped
    <3>. QED  BY <3>a, <3>2, <3>3, <3>4 DEF Orderly
  <2>u. /\ pc'[p] = "moves" /\ retired'[p] = q /\ task' = task
        /\ UNCHANGED <<debris, guard, before, fresh, spoiled>>
        /\ todo'[p] = todo[p] \ {a} /\ moved'[p] = moved[p] \cup {a}
    BY <1>0, <1>c, <1>r, <2>q DEF Rest, TasksTyped, Basics
  <2>p. Present(live') = Present(live) \ {a} /\ Present(kept'[q]) = Present(kept[q]) \cup {a}
    BY <1>c, <2>f, <2>m, <2>k, <2>l DEF Present
  <2>j. Joint(live', kept'[q])
    BY <2>1, <2>h, <2>p, <2>f, <2>m, <2>k, <2>l, <1>c DEF Joint, Present, Orderly,
       Coherent
  <2>2. Laid(p)'
    BY <2>h, <2>u, <2>p, <2>j, <2>n DEF Laid, SigningIn, Making, LoginSteps, ImportSteps
  <2>3. Meant(p)'
    BY <2>m, <2>l DEF Meant, Whole
  <2>4. SigningIn(p)' /\ ~spoiled'[p] /\ before'[p] # NoSession => Accounted(p, before[p])'
    <3>1. SUFFICES ASSUME SigningIn(p), ~spoiled[p], before[p] # NoSession
                   PROVE  Accounted(p, before[p])'
      BY <2>u DEF SigningIn
    <3>2. \A b \in Artifact : \/ (live[b] = before[p] /\ b \in todo[p])
                             \/ (kept[q][b] = before[p] /\ b \in moved[p])
      BY <1>0, <2>q, <3>1 DEF InHand, Accounted
    <3>. QED  BY <3>2, <2>u, <2>f, <2>m, <2>k, <2>n DEF Accounted, SigningIn, Making,
       LoginSteps, ImportSteps

  <2>. QED  BY <1>0, <2>1, <2>2, <2>3, <2>4, HolderKeeps DEF InHand
<1>. QED  BY <1>b, <1>c, MovesAwaySplits

LEMMA UndoesTheMovesSplits ==
  ASSUME Basics, NEW p \in Proc, UndoesTheMoves(p)
  PROVE  \/ /\ UNCHANGED <<live, kept, debris, todo>>
            /\ \/ /\ moved[p] = {} /\ Goes(p, "ends") /\ UNCHANGED <<moved, spoiled>>
               \/ \E a \in Artifact : /\ moved' = [moved EXCEPT ![p] = @ \ {a}] /\ UNCHANGED pc
                                      /\ spoiled'[p]
         \/ \E a \in Artifact :
              /\ a \in moved[p]
              /\ kept' = [kept EXCEPT ![retired[p]][a] = NoSession]
              /\ live' = [live EXCEPT ![a] = kept[retired[p]][a]]
              /\ moved' = [moved EXCEPT ![p] = @ \ {a}]
              /\ UNCHANGED <<pc, spoiled, todo>>
BY UndoesTheMovesIs DEF Slips, Still, Basics, RestTyped

LEMMA UndoesTheMovesKeeps ==
  ASSUME Basics, Basics', Orderly, Holding, NEW p \in Proc, UndoesTheMoves(p), ~tainted'
  PROVE  Orderly' /\ Holding'
<1>. USE Bounds DEF Goes
<1>0. lease = p /\ InHand(p) /\ pc[p] = "undoes" /\ lease' = p
  BY UndoesTheMovesIs DEF Basics, Placed, Holding, SigningIn, Making, LoginSteps,
     ImportSteps, Restoring, Rest
<1>t. /\ live \in Contents /\ kept \in [Quarantine -> Contents]
      /\ debris \in [Quarantine -> Contents] /\ retired[p] \in Quarantine
      /\ moved[p] \subseteq Artifact /\ todo[p] \subseteq Artifact
  BY <1>0 DEF Basics, FilesTyped, TasksTyped, Kempt, Restoring
<1>r. UNCHANGED <<Rest, debris>>
  BY UndoesTheMovesIs
<1>b. ASSUME UNCHANGED <<live, kept, debris, todo>>,
         \/ moved[p] = {} /\ Goes(p, "ends") /\ UNCHANGED <<moved, spoiled>>
         \/ \E a \in Artifact : /\ moved' = [moved EXCEPT ![p] = @ \ {a}] /\ UNCHANGED pc
                                /\ spoiled'[p]
      PROVE  Orderly' /\ Holding'
  <2>1. Orderly'
    BY <1>b, <1>r, FilesStay DEF Rest
  <2>u. /\ pc'[p] \in {"undoes", "ends"} /\ retired'[p] = retired[p] /\ task' = task
        /\ UNCHANGED <<before, live, kept, debris, todo>>
        /\ moved'[p] \subseteq moved[p] /\ (spoiled'[p] \/ spoiled'[p] = spoiled[p])
    BY <1>0, <1>b, <1>r DEF Rest, TasksTyped, Basics
  <2>2. Laid(p)'
    BY <1>0, <2>u DEF InHand, Laid, SigningIn, Making, LoginSteps, ImportSteps
  <2>3. Meant(p)'
    BY <2>u DEF Meant
  <2>4. ~(SigningIn(p)' /\ ~spoiled'[p] /\ before'[p] # NoSession)
    BY <1>0, <2>u DEF InHand, Accounted, SigningIn

  <2>. QED  BY <1>0, <2>1, <2>2, <2>3, <2>4, HolderKeeps DEF InHand
<1>c. ASSUME NEW a \in Artifact, a \in moved[p],
             kept' = [kept EXCEPT ![retired[p]][a] = NoSession],
             live' = [live EXCEPT ![a] = kept[retired[p]][a]],
             moved' = [moved EXCEPT ![p] = @ \ {a}], UNCHANGED <<pc, spoiled, todo>>
      PROVE  Orderly' /\ Holding'
  <2>v. NoSession \in Session \cup {NoSession} /\ kept[retired[p]][a] \in Session \cup {NoSession}
    BY <1>t, <1>c DEF Contents
  <2>q. PICK q \in Quarantine : q = retired[p]
    BY <1>t
  <2>k. PICK k \in Session \cup {NoSession} : k = NoSession
    BY <2>v
  <2>l. PICK l \in Session \cup {NoSession} : l = kept[retired[p]][a]
    BY <2>v
  <2>e. kept' = Put(kept, q, a, k) /\ live' = [live EXCEPT ![a] = l]
    BY <1>c, <2>q, <2>k, <2>l DEF Put
  <2>f. /\ kept'[q][a] = k /\ \A b \in Artifact : b # a => kept'[q][b] = kept[q][b]
        /\ \A r \in Quarantine : r # q => kept'[r] = kept[r]
    <3>1. /\ Put(kept, q, a, k)[q][a] = k
          /\ \A b \in Artifact : b # a => Put(kept, q, a, k)[q][b] = kept[q][b]
          /\ \A r \in Quarantine : r # q => Put(kept, q, a, k)[r] = kept[r]
      <4>1. kept \in [Quarantine -> Contents]
        BY <1>t
      <4>. QED  BY <4>1, PutsOne, SMTT(30)
    <3>. QED  BY <2>e, <3>1
  <2>m. live'[a] = l /\ \A b \in Artifact : b # a => live'[b] = live[b]
    BY <1>t, <2>e DEF Contents
  <2>h. Joint(live, kept[q]) /\ moved[p] \cap Present(live) = {}
    BY <1>0, <2>q DEF InHand, Laid
  <2>n. live[a] = NoSession
    BY <1>c, <2>h DEF Present
  <2>1. Orderly'
    <3>o. Coherent(live) /\ Coherent(kept[q])
      BY DEF Orderly
    <3>a. Coherent(live')
      BY <3>o, <2>h, <2>n, <2>m, <2>q, <2>k, <2>l DEF Coherent, Joint, Present
    <3>1. Coherent(kept'[q])
      BY <3>o, <2>h, <2>n, <2>f, <2>k, <2>l DEF Coherent, Joint, Present
    <3>2. \A r \in Quarantine : Coherent(kept'[r]) /\ Coherent(debris'[r])
      BY <3>1, <2>f, <1>r DEF Orderly
    <3>3. \A s \in Session, b \in Artifact : Somewhere(s, b) => Somewhere(s, b)'
      BY <2>h, <2>n, <2>f, <2>m, <2>q, <2>k, <2>l, <1>r, <1>t DEF Somewhere, Present
    <3>4. established' \ forgotten' = established \ forgotten /\ established \subseteq Session
      BY <1>r DEF Rest, Basics, FilesTyped
    <3>. QED  BY <3>a, <3>2, <3>3, <3>4 DEF Orderly
  <2>u. /\ pc'[p] = "undoes" /\ retired'[p] = q /\ task' = task
        /\ UNCHANGED <<debris, guard, before, fresh, spoiled>>
        /\ todo'[p] = todo[p] /\ moved'[p] = moved[p] \ {a}
    BY <1>0, <1>c, <1>r, <2>q DEF Rest, TasksTyped, Basics
  <2>j. Joint(live', kept'[q])
    BY <2>1, <2>h, <2>n, <2>f, <2>m, <2>q, <2>k, <2>l DEF Joint, Present, Orderly,
       Coherent
  <2>2. Laid(p)'
    <3>1. moved'[p] \cap Present(live') = {}
      BY <2>h, <2>u, <2>m DEF Present
    <3>. QED  BY <2>u, <2>j, <3>1 DEF Laid, SigningIn, Making, LoginSteps, ImportSteps
  <2>3. Meant(p)'
    BY <2>u DEF Meant
  <2>4. ~(SigningIn(p)' /\ ~spoiled'[p] /\ before'[p] # NoSession)
    BY <1>0, <2>u DEF InHand, Accounted, SigningIn

  <2>. QED  BY <1>0, <2>1, <2>2, <2>3, <2>4, HolderKeeps DEF InHand
<1>. QED  BY <1>b, <1>c, UndoesTheMovesSplits

LEMMA RetiresAgainSplits ==
  ASSUME Basics, NEW p \in Proc, RetiresAgain(p)
  PROVE  \/ /\ UNCHANGED <<live, kept, debris, todo>>
            /\ \/ /\ moved[p] = {} /\ Goes(p, "ends") /\ UNCHANGED <<moved, spoiled>>
               \/ \E a \in Artifact : /\ moved' = [moved EXCEPT ![p] = @ \ {a}] /\ UNCHANGED pc
                                      /\ spoiled'[p]
         \/ \E a \in Artifact :
              /\ a \in moved[p]
              /\ kept' = [kept EXCEPT ![retired[p]][a] = live[a]]
              /\ live' = [live EXCEPT ![a] = NoSession]
              /\ moved' = [moved EXCEPT ![p] = @ \ {a}]
              /\ UNCHANGED <<pc, spoiled, todo>>
BY RetiresAgainIs DEF Slips, Still, Basics, RestTyped

LEMMA RetiresAgainKeeps ==
  ASSUME Basics, Basics', Orderly, Holding, NEW p \in Proc, RetiresAgain(p), ~tainted'
  PROVE  Orderly' /\ Holding'
<1>. USE Bounds DEF Goes
<1>0. lease = p /\ InHand(p) /\ pc[p] = "retiresAgain" /\ lease' = p
  BY RetiresAgainIs DEF Basics, Placed, Holding, SigningIn, Making, LoginSteps,
     ImportSteps, Restoring, Rest
<1>t. /\ live \in Contents /\ kept \in [Quarantine -> Contents]
      /\ debris \in [Quarantine -> Contents] /\ retired[p] \in Quarantine
      /\ moved[p] \subseteq Artifact /\ todo[p] \subseteq Artifact
  BY <1>0 DEF Basics, FilesTyped, TasksTyped, Kempt, Restoring
<1>r. UNCHANGED <<Rest, debris>>
  BY RetiresAgainIs
<1>b. ASSUME UNCHANGED <<live, kept, debris, todo>>,
         \/ moved[p] = {} /\ Goes(p, "ends") /\ UNCHANGED <<moved, spoiled>>
         \/ \E a \in Artifact : /\ moved' = [moved EXCEPT ![p] = @ \ {a}] /\ UNCHANGED pc
                                /\ spoiled'[p]
      PROVE  Orderly' /\ Holding'
  <2>1. Orderly'
    BY <1>b, <1>r, FilesStay DEF Rest
  <2>u. /\ pc'[p] \in {"retiresAgain", "ends"} /\ retired'[p] = retired[p]
        /\ task' = task /\ UNCHANGED <<before, live, kept, debris, todo>>
        /\ moved'[p] \subseteq moved[p] /\ (spoiled'[p] \/ spoiled'[p] = spoiled[p])
    BY <1>0, <1>b, <1>r DEF Rest, TasksTyped, Basics
  <2>2. Laid(p)'
    BY <1>0, <2>u DEF InHand, Laid, SigningIn, Making, LoginSteps, ImportSteps
  <2>3. Meant(p)'
    BY <2>u DEF Meant
  <2>4. ~(SigningIn(p)' /\ ~spoiled'[p] /\ before'[p] # NoSession)
    BY <1>0, <2>u DEF InHand, Accounted, SigningIn

  <2>. QED  BY <1>0, <2>1, <2>2, <2>3, <2>4, HolderKeeps DEF InHand
<1>c. ASSUME NEW a \in Artifact, a \in moved[p],
             kept' = [kept EXCEPT ![retired[p]][a] = live[a]],
             live' = [live EXCEPT ![a] = NoSession], moved' = [moved EXCEPT ![p] = @ \ {a}],
             UNCHANGED <<pc, spoiled, todo>>
      PROVE  Orderly' /\ Holding'
  <2>v. live[a] \in Session \cup {NoSession} /\ NoSession \in Session \cup {NoSession}
    BY <1>t, <1>c DEF Contents
  <2>q. PICK q \in Quarantine : q = retired[p]
    BY <1>t
  <2>k. PICK k \in Session \cup {NoSession} : k = live[a]
    BY <2>v
  <2>l. PICK l \in Session \cup {NoSession} : l = NoSession
    BY <2>v
  <2>e. kept' = Put(kept, q, a, k) /\ live' = [live EXCEPT ![a] = l]
    BY <1>c, <2>q, <2>k, <2>l DEF Put
  <2>f. /\ kept'[q][a] = k /\ \A b \in Artifact : b # a => kept'[q][b] = kept[q][b]
        /\ \A r \in Quarantine : r # q => kept'[r] = kept[r]
    <3>1. /\ Put(kept, q, a, k)[q][a] = k
          /\ \A b \in Artifact : b # a => Put(kept, q, a, k)[q][b] = kept[q][b]
          /\ \A r \in Quarantine : r # q => Put(kept, q, a, k)[r] = kept[r]
      <4>1. kept \in [Quarantine -> Contents]
        BY <1>t
      <4>. QED  BY <4>1, PutsOne, SMTT(30)
    <3>. QED  BY <2>e, <3>1
  <2>m. live'[a] = l /\ \A b \in Artifact : b # a => live'[b] = live[b]
    BY <1>t, <2>e DEF Contents
  <2>h. /\ Joint(live, kept[q]) /\ Present(kept[q]) \cap Present(live) = {}
        /\ moved[p] \subseteq Present(live) /\ ~Ready(live)
    BY <1>0, <2>q DEF InHand, Laid
  <2>n. live[a] # NoSession /\ kept[q][a] = NoSession
    BY <1>c, <2>h DEF Present
  <2>1. Orderly'
    <3>o. Coherent(live) /\ Coherent(kept[q])
      BY DEF Orderly
    <3>a. Coherent(live')
      BY <3>o, <2>h, <2>n, <2>m, <2>q, <2>k, <2>l DEF Coherent, Joint, Present
    <3>1. Coherent(kept'[q])
      BY <3>o, <2>h, <2>n, <2>f, <2>k, <2>l DEF Coherent, Joint, Present
    <3>2. \A r \in Quarantine : Coherent(kept'[r]) /\ Coherent(debris'[r])
      BY <3>1, <2>f, <1>r DEF Orderly
    <3>3. \A s \in Session, b \in Artifact : Somewhere(s, b) => Somewhere(s, b)'
      BY <2>h, <2>n, <2>f, <2>m, <2>q, <2>k, <2>l, <1>r, <1>t DEF Somewhere, Present
    <3>4. established' \ forgotten' = established \ forgotten /\ established \subseteq Session
      BY <1>r DEF Rest, Basics, FilesTyped
    <3>. QED  BY <3>a, <3>2, <3>3, <3>4 DEF Orderly
  <2>u. /\ pc'[p] = "retiresAgain" /\ retired'[p] = q /\ task' = task
        /\ UNCHANGED <<debris, guard, before, fresh, spoiled>>
        /\ todo'[p] = todo[p] /\ moved'[p] = moved[p] \ {a}
    BY <1>0, <1>c, <1>r, <2>q DEF Rest, TasksTyped, Basics
  <2>j. Joint(live', kept'[q])
    BY <2>1, <2>h, <2>n, <2>f, <2>m, <2>q, <2>k, <2>l DEF Joint, Present, Orderly,
       Coherent
  <2>2. Laid(p)'
    <3>1. Present(live') = Present(live) \ {a} /\ Present(kept'[q]) = Present(kept[q]) \cup {a}
      BY <2>n, <2>f, <2>m, <2>k, <2>l DEF Present
    <3>2. ~Ready(live')
      BY <3>1 DEF Ready
    <3>3. moved'[p] \subseteq Present(live') /\ Present(kept'[q]) \cap Present(live') = {}
      BY <2>h, <2>u, <3>1
    <3>. QED  BY <2>u, <2>j, <3>2, <3>3 DEF Laid, SigningIn, Making, LoginSteps,
       ImportSteps
  <2>3. Meant(p)'
    BY <2>u DEF Meant
  <2>4. ~(SigningIn(p)' /\ ~spoiled'[p] /\ before'[p] # NoSession)
    BY <1>0, <2>u DEF InHand, Accounted, SigningIn

  <2>. QED  BY <1>0, <2>1, <2>2, <2>3, <2>4, HolderKeeps DEF InHand
<1>. QED  BY <1>b, <1>c, RetiresAgainSplits

LEMMA PutsBackSplits ==
  ASSUME Basics, NEW p \in Proc, PutsBack(p)
  PROVE  \/ /\ Goes(p, "retiresAgain") /\ UNCHANGED <<live, kept, debris, todo, moved>>
            /\ spoiled'[p] /\ todo[p] # {}
         \/ \E a \in Artifact :
              /\ a \in todo[p]
              /\ kept' = [kept EXCEPT ![retired[p]][a] = NoSession]
              /\ live' = [live EXCEPT ![a] = kept[retired[p]][a]]
              /\ todo' = [todo EXCEPT ![p] = @ \ {a}]
              /\ moved' = [moved EXCEPT ![p] = @ \cup {a}]
              /\ UNCHANGED <<pc, spoiled>>
BY PutsBackIs DEF Slips, Still, Basics, RestTyped

LEMMA PutsBackKeeps ==
  ASSUME Basics, Basics', Orderly, Holding, NEW p \in Proc, PutsBack(p), ~tainted'
  PROVE  Orderly' /\ Holding'
<1>. USE Bounds DEF Goes
<1>0. lease = p /\ InHand(p) /\ pc[p] = "putsBack" /\ lease' = p
  BY PutsBackIs DEF Basics, Placed, Holding, SigningIn, Making, LoginSteps,
     ImportSteps, Restoring, Rest
<1>t. /\ live \in Contents /\ kept \in [Quarantine -> Contents]
      /\ debris \in [Quarantine -> Contents] /\ retired[p] \in Quarantine
      /\ moved[p] \subseteq Artifact /\ todo[p] \subseteq Artifact
  BY <1>0 DEF Basics, FilesTyped, TasksTyped, Kempt, Restoring
<1>r. UNCHANGED <<Rest, debris>>
  BY PutsBackIs
<1>b. ASSUME Goes(p, "retiresAgain"), UNCHANGED <<live, kept, debris, todo, moved>>,
             spoiled'[p], todo[p] # {}
      PROVE  Orderly' /\ Holding'
  <2>1. Orderly'
    BY <1>b, <1>r, FilesStay DEF Rest
  <2>u. /\ pc'[p] = "retiresAgain" /\ retired'[p] = retired[p] /\ task' = task
        /\ UNCHANGED <<before, live, kept, debris, todo, moved>>
    BY <1>b, <1>r DEF Rest, TasksTyped, Basics
  <2>v. ~Ready(live)
    BY <1>0, <1>b, <1>t DEF InHand, Laid, Ready
  <2>2. Laid(p)'
    BY <1>0, <2>u, <2>v DEF InHand, Laid, SigningIn, Making, LoginSteps, ImportSteps
  <2>3. Meant(p)'
    BY <2>u DEF Meant
  <2>4. spoiled'[p]
    BY <1>b
  <2>. QED  BY <1>0, <2>1, <2>2, <2>3, <2>4, HolderKeeps DEF InHand
<1>c. ASSUME NEW a \in Artifact, a \in todo[p],
             kept' = [kept EXCEPT ![retired[p]][a] = NoSession],
             live' = [live EXCEPT ![a] = kept[retired[p]][a]],
             todo' = [todo EXCEPT ![p] = @ \ {a}], moved' = [moved EXCEPT ![p] = @ \cup {a}],
             UNCHANGED <<pc, spoiled>>
      PROVE  Orderly' /\ Holding'
  <2>v. NoSession \in Session \cup {NoSession} /\ kept[retired[p]][a] \in Session \cup {NoSession}
    BY <1>t, <1>c DEF Contents
  <2>q. PICK q \in Quarantine : q = retired[p]
    BY <1>t
  <2>k. PICK k \in Session \cup {NoSession} : k = NoSession
    BY <2>v
  <2>l. PICK l \in Session \cup {NoSession} : l = kept[retired[p]][a]
    BY <2>v
  <2>e. kept' = Put(kept, q, a, k) /\ live' = [live EXCEPT ![a] = l]
    BY <1>c, <2>q, <2>k, <2>l DEF Put
  <2>f. /\ kept'[q][a] = k /\ \A b \in Artifact : b # a => kept'[q][b] = kept[q][b]
        /\ \A r \in Quarantine : r # q => kept'[r] = kept[r]
    <3>1. /\ Put(kept, q, a, k)[q][a] = k
          /\ \A b \in Artifact : b # a => Put(kept, q, a, k)[q][b] = kept[q][b]
          /\ \A r \in Quarantine : r # q => Put(kept, q, a, k)[r] = kept[r]
      <4>1. kept \in [Quarantine -> Contents]
        BY <1>t
      <4>. QED  BY <4>1, PutsOne, SMTT(30)
    <3>. QED  BY <2>e, <3>1
  <2>m. live'[a] = l /\ \A b \in Artifact : b # a => live'[b] = live[b]
    BY <1>t, <2>e DEF Contents
  <2>h. /\ Joint(live, kept[q]) /\ Present(kept[q]) \cap Present(live) = {}
        /\ todo[p] = Present(kept[q]) /\ moved[p] = Present(live)
    BY <1>0, <2>q DEF InHand, Laid
  <2>n. live[a] = NoSession /\ kept[q][a] # NoSession
    BY <1>c, <2>h DEF Present
  <2>1. Orderly'
    <3>o. Coherent(live) /\ Coherent(kept[q])
      BY DEF Orderly
    <3>a. Coherent(live')
      BY <3>o, <2>h, <2>n, <2>m, <2>q, <2>k, <2>l DEF Coherent, Joint, Present
    <3>1. Coherent(kept'[q])
      BY <3>o, <2>h, <2>n, <2>f, <2>k, <2>l DEF Coherent, Joint, Present
    <3>2. \A r \in Quarantine : Coherent(kept'[r]) /\ Coherent(debris'[r])
      BY <3>1, <2>f, <1>r DEF Orderly
    <3>3. \A s \in Session, b \in Artifact : Somewhere(s, b) => Somewhere(s, b)'
      BY <2>h, <2>n, <2>f, <2>m, <2>q, <2>k, <2>l, <1>r, <1>t DEF Somewhere, Present
    <3>4. established' \ forgotten' = established \ forgotten /\ established \subseteq Session
      BY <1>r DEF Rest, Basics, FilesTyped
    <3>. QED  BY <3>a, <3>2, <3>3, <3>4 DEF Orderly
  <2>u. /\ pc'[p] = "putsBack" /\ retired'[p] = q /\ task' = task
        /\ UNCHANGED <<debris, guard, before, fresh, spoiled>>
        /\ todo'[p] = todo[p] \ {a} /\ moved'[p] = moved[p] \cup {a}
    BY <1>0, <1>c, <1>r, <2>q DEF Rest, TasksTyped, Basics
  <2>p. Present(live') = Present(live) \cup {a} /\ Present(kept'[q]) = Present(kept[q]) \ {a}
    BY <2>n, <2>q, <2>f, <2>m, <2>k, <2>l DEF Present
  <2>j. Joint(live', kept'[q])
    BY <2>1, <2>h, <2>n, <2>f, <2>m, <2>q, <2>k, <2>l DEF Joint, Present, Orderly,
       Coherent
  <2>2. Laid(p)'
    BY <2>h, <2>u, <2>p, <2>j DEF Laid, SigningIn, Making, LoginSteps, ImportSteps
  <2>3. Meant(p)'
    BY <2>u DEF Meant
  <2>4. SigningIn(p)' /\ ~spoiled'[p] /\ before'[p] # NoSession => Accounted(p, before[p])'
    <3>1. SUFFICES ASSUME SigningIn(p), ~spoiled[p], before[p] # NoSession
                   PROVE  Accounted(p, before[p])'
      BY <2>u DEF SigningIn
    <3>2. \A b \in Artifact : live[b] = before[p] \/ kept[q][b] = before[p]
      BY <1>0, <2>q, <3>1 DEF InHand, Accounted
    <3>3. \A b \in Artifact : live'[b] = before[p] \/ kept'[q][b] = before[p]
      BY <3>1, <3>2, <2>f, <2>m, <2>k, <2>l, <2>n, <2>q
    <3>. QED  BY <3>3, <2>u DEF Accounted, SigningIn, Making, LoginSteps, ImportSteps

  <2>. QED  BY <1>0, <2>1, <2>2, <2>3, <2>4, HolderKeeps DEF InHand
<1>. QED  BY <1>b, <1>c, PutsBackSplits

LEMMA ParksSplits ==
  ASSUME Basics, NEW p \in Proc, Parks(p)
  PROVE  \/ /\ UNCHANGED <<live, kept, debris, moved>>
            /\ \/ Goes(p, "ends") /\ (spoiled'[p] \/ (Ready(live) /\ UNCHANGED spoiled))
               \/ /\ Present(live) = {} /\ todo' = [todo EXCEPT ![p] = Present(kept[retired[p]])]
                  /\ Goes(p, "putsBack") /\ UNCHANGED spoiled
         \/ \E a \in Artifact :
              /\ a \in Present(live)
              /\ debris' = [debris EXCEPT ![retired[p]][a] = live[a]]
              /\ live' = [live EXCEPT ![a] = NoSession]
              /\ ~(Ready(live) /\ todo[p] = {})
              /\ UNCHANGED <<pc, spoiled>>
BY ParksIs DEF Slips, Still, Basics, RestTyped, Rest

LEMMA ParksKeeps ==
  ASSUME Basics, Basics', Orderly, Holding, NEW p \in Proc, Parks(p), ~tainted'
  PROVE  Orderly' /\ Holding'
<1>. USE Bounds DEF Goes
<1>0. lease = p /\ InHand(p) /\ pc[p] = "parks" /\ lease' = p
  BY ParksIs DEF Basics, Placed, Holding, SigningIn, Making, LoginSteps, ImportSteps,
     Restoring, Rest
<1>t. /\ live \in Contents /\ kept \in [Quarantine -> Contents]
      /\ debris \in [Quarantine -> Contents] /\ retired[p] \in Quarantine
      /\ moved[p] \subseteq Artifact /\ todo[p] \subseteq Artifact
  BY <1>0 DEF Basics, FilesTyped, TasksTyped, Kempt, Restoring
<1>r. UNCHANGED <<Rest, kept>>
  BY ParksIs
<1>b. ASSUME UNCHANGED <<live, kept, debris, moved>>,
         \/ Goes(p, "ends") /\ (spoiled'[p] \/ (Ready(live) /\ UNCHANGED spoiled))
         \/ /\ Present(live) = {} /\ todo' = [todo EXCEPT ![p] = Present(kept[retired[p]])]
            /\ Goes(p, "putsBack") /\ UNCHANGED spoiled
      PROVE  Orderly' /\ Holding'
  <2>1. Orderly'
    BY <1>b, <1>r, FilesStay DEF Rest
  <2>u. /\ pc'[p] \in {"putsBack", "ends"} /\ retired'[p] = retired[p] /\ task' = task
        /\ UNCHANGED <<before, live, kept, debris, moved, fresh>>
    BY <1>b, <1>r DEF Rest, TasksTyped, Basics
  <2>v. pc'[p] = "putsBack" => /\ live = Nothing /\ todo'[p] = Present(kept[retired[p]])
                              /\ moved[p] = {}
    BY <1>0, <1>b, <1>t, EmptyIsNothing DEF TasksTyped, Kempt, Basics
  <2>2. Laid(p)'
    BY <2>u, <2>v, NothingIsThere DEF Laid, SigningIn, Making, LoginSteps, ImportSteps
  <2>3. Meant(p)'
    BY <2>u DEF Meant
  <2>4. SigningIn(p)' /\ ~spoiled'[p] /\ before'[p] # NoSession => Accounted(p, before[p])'
    <3>1. pc'[p] = "ends" /\ ~spoiled'[p] => Whole(live, fresh[p])
      BY <1>0, <1>b, <2>u DEF InHand, Laid, TasksTyped, Basics
    <3>2. spoiled'[p] \/ spoiled'[p] = spoiled[p]
      BY <1>b
    <3>. QED  BY <1>0, <2>u, <3>1, <3>2 DEF InHand, Accounted, SigningIn, Making,
       LoginSteps, ImportSteps, Whole
  <2>. QED  BY <1>0, <2>1, <2>2, <2>3, <2>4, HolderKeeps DEF InHand
<1>c. ASSUME NEW a \in Artifact, a \in Present(live),
             debris' = [debris EXCEPT ![retired[p]][a] = live[a]],
             live' = [live EXCEPT ![a] = NoSession], ~(Ready(live) /\ todo[p] = {}),
             UNCHANGED <<pc, spoiled>>
      PROVE  Orderly' /\ Holding'
  <2>v. live[a] \in Session \cup {NoSession} /\ NoSession \in Session \cup {NoSession}
    BY <1>t, <1>c DEF Contents
  <2>q. PICK q \in Quarantine : q = retired[p]
    BY <1>t
  <2>k. PICK k \in Session \cup {NoSession} : k = live[a]
    BY <2>v
  <2>l. PICK l \in Session \cup {NoSession} : l = NoSession
    BY <2>v
  <2>e. debris' = Put(debris, q, a, k) /\ live' = [live EXCEPT ![a] = l]
    BY <1>c, <2>q, <2>k, <2>l DEF Put
  <2>f. /\ debris'[q][a] = k /\ \A b \in Artifact : b # a => debris'[q][b] = debris[q][b]
        /\ \A r \in Quarantine : r # q => debris'[r] = debris[r]
    <3>1. /\ Put(debris, q, a, k)[q][a] = k
          /\ \A b \in Artifact : b # a => Put(debris, q, a, k)[q][b] = debris[q][b]
          /\ \A r \in Quarantine : r # q => Put(debris, q, a, k)[r] = debris[r]
      <4>1. debris \in [Quarantine -> Contents]
        BY <1>t
      <4>. QED  BY <4>1, PutsOne, SMTT(30)
    <3>. QED  BY <2>e, <3>1
  <2>m. live'[a] = l /\ \A b \in Artifact : b # a => live'[b] = live[b]
    BY <1>t, <2>e DEF Contents
  <2>h. /\ Joint(live, debris[q]) /\ Present(debris[q]) \cap Present(live) = {}
    BY <1>0, <2>q DEF InHand, Laid
  <2>n. live[a] # NoSession /\ debris[q][a] = NoSession
    BY <1>c, <2>h DEF Present
  <2>1. Orderly'
    <3>o. Coherent(live) /\ Coherent(debris[q])
      BY DEF Orderly
    <3>a. Coherent(live')
      BY <3>o, <2>h, <2>n, <2>m, <2>q, <2>k, <2>l DEF Coherent, Joint, Present
    <3>1. Coherent(debris'[q])
      BY <3>o, <2>h, <2>n, <2>f, <2>k, <2>l DEF Coherent, Joint, Present
    <3>2. \A r \in Quarantine : Coherent(debris'[r]) /\ Coherent(kept'[r])
      BY <3>1, <2>f, <1>r DEF Orderly
    <3>3. \A s \in Session, b \in Artifact : Somewhere(s, b) => Somewhere(s, b)'
      BY <2>h, <2>n, <2>f, <2>m, <2>q, <2>k, <2>l, <1>r, <1>t DEF Somewhere, Present
    <3>4. established' \ forgotten' = established \ forgotten /\ established \subseteq Session
      BY <1>r DEF Rest, Basics, FilesTyped
    <3>. QED  BY <3>a, <3>2, <3>3, <3>4 DEF Orderly
  <2>u. /\ pc'[p] = "parks" /\ retired'[p] = q /\ task' = task
        /\ UNCHANGED <<kept, guard, before, fresh, spoiled>>
    BY <1>0, <1>c, <1>r, <2>q DEF Rest, TasksTyped, Basics
  <2>p. Present(live') = Present(live) \ {a} /\ Present(debris'[q]) = Present(debris[q]) \cup {a}
    BY <2>n, <2>q, <2>f, <2>m, <2>k, <2>l DEF Present
  <2>j. Joint(live', debris'[q])
    BY <2>1, <2>h, <2>n, <2>f, <2>m, <2>q, <2>k, <2>l DEF Joint, Present, Orderly,
       Coherent
  <2>2. Laid(p)'
    BY <2>h, <2>u, <2>p, <2>j DEF Laid, Ready, SigningIn, Making, LoginSteps,
       ImportSteps
  <2>3. Meant(p)'
    BY <2>u DEF Meant
  <2>4. SigningIn(p)' /\ ~spoiled'[p] /\ before'[p] # NoSession => Accounted(p, before[p])'
    BY <1>0, <2>u, <2>q DEF InHand, Accounted, SigningIn, Making, LoginSteps,
       ImportSteps, Whole

  <2>. QED  BY <1>0, <2>1, <2>2, <2>3, <2>4, HolderKeeps DEF InHand
<1>. QED  BY <1>b, <1>c, ParksSplits

LEMMA DeletesKeeps ==
  ASSUME Basics, Basics', Orderly, Holding, NEW p \in Proc, Deletes(p), ~tainted'
  PROVE  Orderly' /\ Holding'
<1>. USE Bounds DEF Goes
<1>0. lease = p /\ InHand(p) /\ pc[p] = "deletes" /\ lease' = p
  BY DeletesIs DEF Basics, Placed, Holding, SigningIn, Making, LoginSteps,
     ImportSteps, Rest
<1>t. live \in Contents /\ kept \in [Quarantine -> Contents] /\ debris \in [Quarantine -> Contents]
  BY DEF Basics, FilesTyped
<1>r. UNCHANGED <<Rest, moved>>
  BY DeletesIs
<1>f. /\ live' = live \/ \E a \in Artifact : live' = [live EXCEPT ![a] = NoSession]
      /\ \A q \in Quarantine : (kept'[q] = kept[q] /\ debris'[q] = debris[q])
                               \/ (kept'[q] = Nothing /\ debris'[q] = Nothing)
      /\ pc'[p] \in {"deletes", "ends"}
  BY <1>0, DeletesIs DEF TasksTyped, Basics
<1>e. established \ forgotten = {}
  BY <1>0 DEF InHand, Laid
<1>1. Orderly'
  <2>1. Coherent(live')
    <3>1. \A b \in Artifact : live'[b] \in {NoSession, live[b]}
      BY <1>t, <1>f DEF Contents
    <3>. QED  BY <3>1 DEF Orderly, Coherent, Present
  <2>2. \A q \in Quarantine : Coherent(kept'[q]) /\ Coherent(debris'[q])
    BY <1>f, NothingIsThere DEF Orderly, Coherent
  <2>. QED  BY <1>r, <1>e, <2>1, <2>2 DEF Orderly, Rest
<1>2. Laid(p)'
  BY <1>e, <1>f, <1>r DEF Laid, Rest, SigningIn, Making, LoginSteps, ImportSteps
<1>3. Meant(p)'
  <2>1. \A s \in Session : Whole(live', s) => live' = live
    BY <1>t, <1>f DEF Whole, Contents
  <2>. QED  BY <1>0, <1>f, <1>r, <2>1 DEF InHand, Meant, Whole, Rest
<1>4. ~SigningIn(p)'
  BY <1>0, <1>r DEF Rest, Placed, Basics, SigningIn
<1>. QED  BY <1>0, <1>1, <1>2, <1>3, <1>4, HolderKeeps DEF InHand

\* One file more or less of a sign-in, whose session has not been established.
LEMMA MakingKeepsOrder ==
  ASSUME Basics, Orderly, NEW l, live' = l, l \in Contents,
         UNCHANGED <<kept, debris, forgotten>>, Coherent(l),
         established' \subseteq Session,
         \A s \in established' \ forgotten :
           \A a \in Artifact : l[a] = s \/ (s \in established /\ live[a] # s)
  PROVE  Orderly'
<1>1. \A s \in established' \ forgotten', a \in Artifact : Somewhere(s, a)'
  <2>. SUFFICES ASSUME NEW s \in established' \ forgotten', NEW a \in Artifact
                PROVE Somewhere(s, a)'
    OBVIOUS
  <2>1. l[a] = s \/ (s \in established \ forgotten /\ live[a] # s)
    OBVIOUS
  <2>2. CASE s \in established \ forgotten /\ live[a] # s
    <3>1. Somewhere(s, a)
      BY <2>2 DEF Orderly
    <3>. QED  BY <2>2, <3>1 DEF Somewhere
  <2>. QED  BY <2>1, <2>2 DEF Somewhere
<1>. QED  BY <1>1 DEF Orderly

LEMMA OpensTheLoginKeeps ==
  ASSUME Basics, Basics', Orderly, Holding, NEW p \in Proc, OpensTheLogin(p), ~tainted'
  PROVE  Orderly' /\ Holding'
<1>. USE Bounds DEF Goes
<1>0. lease = p /\ InHand(p) /\ lease' = p
  BY DEF OpensTheLogin, Mints, Basics, Placed, Holding, SigningIn, Making, LoginSteps,
     ImportSteps
<1>t. live \in Contents /\ kept \in [Quarantine -> Contents] /\ debris \in [Quarantine -> Contents]
  BY DEF Basics, FilesTyped
<1>d. retired[p] # NoQuarantine => debris[retired[p]] = Nothing
  BY <1>0 DEF OpensTheLogin, Mints, InHand, Laid, SigningIn, Making, LoginSteps,
     ImportSteps
<1>s. /\ fresh[p] \in Session \cup {NoSession} /\ fresh'[p] \in Session \cup {NoSession}
      /\ established \subseteq Session /\ NoSession \notin established
  BY DEF Basics, FilesTyped, TasksTyped
<1>a. /\ live = Nothing /\ live' = [Nothing EXCEPT !["profile"] = fresh'[p]] /\ pc'[p] = "opened"
      /\ UNCHANGED <<kept, debris, established, forgotten, task, spoiled, before, retired>>
  <2>1. live = Nothing
    BY <1>0 DEF OpensTheLogin, Mints, InHand, Laid, SigningIn, Making, LoginSteps,
       ImportSteps
  <2>2. live' = [Nothing EXCEPT !["profile"] = fresh'[p]]
    BY <2>1, <1>t DEF OpensTheLogin, Mints, Nothing, Contents, TasksTyped, Basics
  <2>3. /\ pc'[p] = "opened"
        /\ UNCHANGED <<kept, debris, established, forgotten, task, spoiled, before, retired>>
    BY DEF OpensTheLogin, Mints, histories, TasksTyped, Basics
  <2>. QED  BY <2>1, <2>2, <2>3
<1>b. \A a \in Artifact : live[a] \in {NoSession, fresh[p]} /\ live'[a] \in {NoSession, fresh'[p]}
  BY <1>a DEF Nothing
<1>c. fresh[p] \notin established
  BY DEF OpensTheLogin, Mints, Kempt, Basics, FilesTyped, SigningIn, Making,
     LoginSteps, ImportSteps
<1>1. Orderly'
  <2>1. live' \in Contents
    BY DEF Basics, FilesTyped
  <2>2. Coherent(live')
    BY <1>b DEF Coherent, Present
  <2>3. \A s \in established, a \in Artifact : live[a] # s
    BY <1>b, <1>c, <1>s
  <2>. QED  BY <1>a, <1>s, <2>1, <2>2, <2>3, MakingKeepsOrder
<1>2. Laid(p)'
  BY <1>a, <1>d DEF Laid, SigningIn, Making, LoginSteps, ImportSteps
<1>3. Meant(p)'
  BY <1>a DEF Meant
<1>4. SigningIn(p)' /\ ~spoiled'[p] /\ before'[p] # NoSession => Accounted(p, before[p])'
  BY <1>0, <1>a DEF OpensTheLogin, Mints, InHand, Accounted, Whole, SigningIn, Making,
     LoginSteps, ImportSteps
<1>. QED  BY <1>0, <1>1, <1>2, <1>3, <1>4, HolderKeeps DEF InHand

LEMMA ExportsCookiesKeeps ==
  ASSUME Basics, Basics', Orderly, Holding, NEW p \in Proc, ExportsCookies(p), ~tainted'
  PROVE  Orderly' /\ Holding'
<1>. USE Bounds DEF Goes
<1>0. lease = p /\ InHand(p) /\ lease' = p
  BY DEF ExportsCookies, Basics, Placed, Holding, SigningIn, Making, LoginSteps,
     ImportSteps
<1>t. live \in Contents /\ kept \in [Quarantine -> Contents] /\ debris \in [Quarantine -> Contents]
  BY DEF Basics, FilesTyped
<1>d. retired[p] # NoQuarantine => debris[retired[p]] = Nothing
  BY <1>0 DEF ExportsCookies, InHand, Laid, SigningIn, Making, LoginSteps, ImportSteps
<1>s. /\ fresh[p] \in Session \cup {NoSession} /\ fresh'[p] \in Session \cup {NoSession}
      /\ established \subseteq Session /\ NoSession \notin established
  BY DEF Basics, FilesTyped, TasksTyped
<1>a. /\ live = [Nothing EXCEPT !["profile"] = fresh[p]]
      /\ live' = [Nothing EXCEPT !["profile"] = fresh'[p], !["cookies"] = fresh'[p]]
      /\ pc'[p] = "exported"
      /\ UNCHANGED <<kept, debris, established, forgotten, task, spoiled, before, retired>>
  <2>1. live = [Nothing EXCEPT !["profile"] = fresh[p]]
    BY <1>0 DEF ExportsCookies, InHand, Laid, SigningIn, Making, LoginSteps, ImportSteps
  <2>2. live' = [Nothing EXCEPT !["profile"] = fresh'[p], !["cookies"] = fresh'[p]]
    BY <2>1, <1>t DEF ExportsCookies, Nothing, Contents, TasksTyped, Basics
  <2>3. /\ pc'[p] = "exported"
        /\ UNCHANGED <<kept, debris, established, forgotten, task, spoiled, before, retired>>
    BY DEF ExportsCookies, histories, TasksTyped, Basics
  <2>. QED  BY <2>1, <2>2, <2>3
<1>b. \A a \in Artifact : live[a] \in {NoSession, fresh[p]} /\ live'[a] \in {NoSession, fresh'[p]}
  BY <1>a DEF Nothing
<1>c. fresh[p] \notin established
  BY DEF ExportsCookies, Kempt, Basics, FilesTyped, SigningIn, Making, LoginSteps,
     ImportSteps
<1>1. Orderly'
  <2>1. live' \in Contents
    BY DEF Basics, FilesTyped
  <2>2. Coherent(live')
    BY <1>b DEF Coherent, Present
  <2>3. \A s \in established, a \in Artifact : live[a] # s
    BY <1>b, <1>c, <1>s
  <2>. QED  BY <1>a, <1>s, <2>1, <2>2, <2>3, MakingKeepsOrder
<1>2. Laid(p)'
  BY <1>a, <1>d DEF Laid, SigningIn, Making, LoginSteps, ImportSteps
<1>3. Meant(p)'
  BY <1>a DEF Meant
<1>4. SigningIn(p)' /\ ~spoiled'[p] /\ before'[p] # NoSession => Accounted(p, before[p])'
  BY <1>0, <1>a DEF ExportsCookies, InHand, Accounted, Whole, SigningIn, Making,
     LoginSteps, ImportSteps
<1>. QED  BY <1>0, <1>1, <1>2, <1>3, <1>4, HolderKeeps DEF InHand

LEMMA StagesCookiesKeeps ==
  ASSUME Basics, Basics', Orderly, Holding, NEW p \in Proc, StagesCookies(p), ~tainted'
  PROVE  Orderly' /\ Holding'
<1>. USE Bounds DEF Goes
<1>0. lease = p /\ InHand(p) /\ lease' = p
  BY DEF StagesCookies, Basics, Placed, Holding, SigningIn, Making, LoginSteps,
     ImportSteps
<1>t. live \in Contents /\ kept \in [Quarantine -> Contents] /\ debris \in [Quarantine -> Contents]
  BY DEF Basics, FilesTyped
<1>d. retired[p] # NoQuarantine => debris[retired[p]] = Nothing
  BY <1>0 DEF StagesCookies, InHand, Laid, SigningIn, Making, LoginSteps, ImportSteps
<1>s. /\ fresh[p] \in Session \cup {NoSession} /\ fresh'[p] \in Session \cup {NoSession}
      /\ established \subseteq Session /\ NoSession \notin established
  BY DEF Basics, FilesTyped, TasksTyped
<1>a. /\ live = Nothing /\ live' = [Nothing EXCEPT !["cookies"] = fresh'[p]] /\ pc'[p] = "staged"
      /\ UNCHANGED <<kept, debris, established, forgotten, task, spoiled, before, retired>>
  <2>1. live = Nothing
    BY <1>0 DEF StagesCookies, InHand, Laid, SigningIn, Making, LoginSteps, ImportSteps
  <2>2. live' = [Nothing EXCEPT !["cookies"] = fresh'[p]]
    BY <2>1, <1>t DEF StagesCookies, Nothing, Contents, TasksTyped, Basics
  <2>3. /\ pc'[p] = "staged"
        /\ UNCHANGED <<kept, debris, established, forgotten, task, spoiled, before, retired>>
    BY DEF StagesCookies, histories, TasksTyped, Basics
  <2>. QED  BY <2>1, <2>2, <2>3
<1>b. \A a \in Artifact : live[a] \in {NoSession, fresh[p]} /\ live'[a] \in {NoSession, fresh'[p]}
  BY <1>a DEF Nothing
<1>c. fresh[p] \notin established
  BY DEF StagesCookies, Kempt, Basics, FilesTyped, SigningIn, Making, LoginSteps,
     ImportSteps
<1>1. Orderly'
  <2>1. live' \in Contents
    BY DEF Basics, FilesTyped
  <2>2. Coherent(live')
    BY <1>b DEF Coherent, Present
  <2>3. \A s \in established, a \in Artifact : live[a] # s
    BY <1>b, <1>c, <1>s
  <2>. QED  BY <1>a, <1>s, <2>1, <2>2, <2>3, MakingKeepsOrder
<1>2. Laid(p)'
  BY <1>a, <1>d DEF Laid, SigningIn, Making, LoginSteps, ImportSteps
<1>3. Meant(p)'
  BY <1>a DEF Meant
<1>4. SigningIn(p)' /\ ~spoiled'[p] /\ before'[p] # NoSession => Accounted(p, before[p])'
  BY <1>0, <1>a DEF StagesCookies, InHand, Accounted, Whole, SigningIn, Making,
     LoginSteps, ImportSteps
<1>. QED  BY <1>0, <1>1, <1>2, <1>3, <1>4, HolderKeeps DEF InHand

LEMMA OpensTheValidationKeeps ==
  ASSUME Basics, Basics', Orderly, Holding, NEW p \in Proc, OpensTheValidation(p), ~tainted'
  PROVE  Orderly' /\ Holding'
<1>. USE Bounds DEF Goes
<1>0. lease = p /\ InHand(p) /\ lease' = p
  BY DEF OpensTheValidation, Basics, Placed, Holding, SigningIn, Making, LoginSteps,
     ImportSteps
<1>t. live \in Contents /\ kept \in [Quarantine -> Contents] /\ debris \in [Quarantine -> Contents]
  BY DEF Basics, FilesTyped
<1>d. retired[p] # NoQuarantine => debris[retired[p]] = Nothing
  BY <1>0 DEF OpensTheValidation, InHand, Laid, SigningIn, Making, LoginSteps,
     ImportSteps
<1>s. /\ fresh[p] \in Session \cup {NoSession} /\ fresh'[p] \in Session \cup {NoSession}
      /\ established \subseteq Session /\ NoSession \notin established
  BY DEF Basics, FilesTyped, TasksTyped
<1>a. /\ live = [Nothing EXCEPT !["cookies"] = fresh[p]]
      /\ live' = [Nothing EXCEPT !["profile"] = fresh'[p], !["cookies"] = fresh'[p]]
      /\ pc'[p] = "validating"
      /\ UNCHANGED <<kept, debris, established, forgotten, task, spoiled, before, retired>>
  <2>1. live = [Nothing EXCEPT !["cookies"] = fresh[p]]
    BY <1>0 DEF OpensTheValidation, InHand, Laid, SigningIn, Making, LoginSteps,
       ImportSteps
  <2>2. live' = [Nothing EXCEPT !["profile"] = fresh'[p], !["cookies"] = fresh'[p]]
    BY <2>1, <1>t DEF OpensTheValidation, Nothing, Contents, TasksTyped, Basics
  <2>3. /\ pc'[p] = "validating"
        /\ UNCHANGED <<kept, debris, established, forgotten, task, spoiled, before, retired>>
    BY DEF OpensTheValidation, histories, TasksTyped, Basics
  <2>. QED  BY <2>1, <2>2, <2>3
<1>b. \A a \in Artifact : live[a] \in {NoSession, fresh[p]} /\ live'[a] \in {NoSession, fresh'[p]}
  BY <1>a DEF Nothing
<1>c. fresh[p] \notin established
  BY DEF OpensTheValidation, Kempt, Basics, FilesTyped, SigningIn, Making, LoginSteps,
     ImportSteps
<1>1. Orderly'
  <2>1. live' \in Contents
    BY DEF Basics, FilesTyped
  <2>2. Coherent(live')
    BY <1>b DEF Coherent, Present
  <2>3. \A s \in established, a \in Artifact : live[a] # s
    BY <1>b, <1>c, <1>s
  <2>. QED  BY <1>a, <1>s, <2>1, <2>2, <2>3, MakingKeepsOrder
<1>2. Laid(p)'
  BY <1>a, <1>d DEF Laid, SigningIn, Making, LoginSteps, ImportSteps
<1>3. Meant(p)'
  BY <1>a DEF Meant
<1>4. SigningIn(p)' /\ ~spoiled'[p] /\ before'[p] # NoSession => Accounted(p, before[p])'
  BY <1>0, <1>a DEF OpensTheValidation, InHand, Accounted, Whole, SigningIn, Making,
     LoginSteps, ImportSteps
<1>. QED  BY <1>0, <1>1, <1>2, <1>3, <1>4, HolderKeeps DEF InHand

LEMMA CommitsKeeps ==
  ASSUME Basics, Basics', Orderly, Holding, NEW p \in Proc, Commits(p), ~tainted'
  PROVE  Orderly' /\ Holding'
<1>. USE Bounds DEF Goes
<1>0. lease = p /\ InHand(p) /\ lease' = p
  BY DEF Commits, Basics, Placed, Holding, SigningIn, Making, LoginSteps, ImportSteps
<1>t. live \in Contents /\ kept \in [Quarantine -> Contents] /\ debris \in [Quarantine -> Contents]
  BY DEF Basics, FilesTyped
<1>d. retired[p] # NoQuarantine => debris[retired[p]] = Nothing
  BY <1>0 DEF Commits, InHand, Laid, SigningIn, Making, LoginSteps, ImportSteps
<1>s. /\ fresh[p] \in Session \cup {NoSession} /\ fresh'[p] \in Session \cup {NoSession}
      /\ established \subseteq Session /\ NoSession \notin established
  BY DEF Basics, FilesTyped, TasksTyped
<1>a. /\ live = [Nothing EXCEPT !["profile"] = fresh[p], !["cookies"] = fresh[p]]
      /\ live' = [live EXCEPT !["state"] = fresh[p]]
      /\ pc'[p] \in {"committed", "ends"}
      /\ UNCHANGED <<kept, debris, forgotten, task, spoiled, before, retired, fresh>>
      /\ established' \subseteq established \cup {fresh[p]} /\ fresh[p] # NoSession
  BY <1>0, <1>t DEF Commits, InHand, Laid, Kempt, TasksTyped, Basics, SigningIn,
     Making, LoginSteps, ImportSteps
<1>w. Whole(live', fresh[p])
  BY <1>a DEF Nothing, Whole
<1>b. \A a \in Artifact : live[a] \in {NoSession, fresh[p]}
  BY <1>a DEF Nothing
<1>1. Orderly'
  <2>1. live' \in Contents /\ established' \subseteq Session
    BY DEF Basics, FilesTyped
  <2>2. Coherent(live')
    BY <1>w DEF Coherent, Present, Whole
  <2>3. \A s \in established' \ forgotten, a \in Artifact :
          live'[a] = s \/ (s \in established /\ live[a] # s)
    BY <1>a, <1>b, <1>s, <1>w DEF Whole
  <2>4. UNCHANGED <<kept, debris, forgotten>>
    BY <1>a
  <2>. QED  BY <2>1, <2>2, <2>3, <2>4, MakingKeepsOrder
<1>2. Laid(p)'
  BY <1>a, <1>d, <1>w DEF Laid, SigningIn, Making, LoginSteps, ImportSteps
<1>3. Meant(p)'
  BY <1>a DEF Meant
<1>4. SigningIn(p)' /\ ~spoiled'[p] /\ before'[p] # NoSession => Accounted(p, before[p])'
  BY <1>0, <1>a, <1>w DEF Commits, InHand, Accounted, Whole, SigningIn, Making,
     LoginSteps, ImportSteps
<1>. QED  BY <1>0, <1>1, <1>2, <1>3, <1>4, HolderKeeps DEF InHand

LEMMA RejectedKeeps ==
  ASSUME Basics, Basics', Orderly, Holding, NEW p \in Proc, Rejected(p), ~tainted'
  PROVE  Orderly' /\ Holding'
<1>. USE Bounds DEF Goes
<1>0. lease = p /\ InHand(p) /\ lease' = p
  BY DEF Rejected, Basics, Placed, Holding, SigningIn, Making, LoginSteps, ImportSteps
<1>t. live \in Contents /\ kept \in [Quarantine -> Contents] /\ debris \in [Quarantine -> Contents]
  BY DEF Basics, FilesTyped
<1>d. retired[p] # NoQuarantine => debris[retired[p]] = Nothing
  BY <1>0 DEF Rejected, InHand, Laid, SigningIn, Making, LoginSteps, ImportSteps
<1>s. /\ fresh[p] \in Session \cup {NoSession} /\ fresh'[p] \in Session \cup {NoSession}
      /\ established \subseteq Session /\ NoSession \notin established
  BY DEF Basics, FilesTyped, TasksTyped
<1>a. /\ live = [Nothing EXCEPT !["profile"] = fresh[p], !["cookies"] = fresh[p]]
      /\ pc[p] = "validating"
      /\ UNCHANGED <<kept, debris, established, forgotten, task, before, retired, todo, moved>>
      /\ fresh[p] \notin established
  BY <1>0, <1>t DEF Rejected, InHand, Laid, Kempt, TasksTyped, Basics, SigningIn,
     Making, LoginSteps, ImportSteps
<1>b. \A a \in Artifact : live[a] \in {NoSession, fresh[p]}
  BY <1>a DEF Nothing
<1>c. \/ live' = Nothing /\ pc'[p] = "staging" /\ spoiled' = spoiled
      \/ /\ live' = live /\ spoiled'[p]
         /\ pc'[p] = "ends" \/ (pc'[p] = "parks" /\ retired[p] # NoQuarantine)
  <2>1. DropsTheStaged => live' = Nothing
    BY <1>a, <1>t DEF DropsTheStaged, Nothing, Contents
  <2>. QED  BY <2>1 DEF Rejected, Fault, TasksTyped, RestTyped, Basics
<1>1. Orderly'
  <2>1. live' \in Contents
    BY DEF Basics, FilesTyped
  <2>2. Coherent(live')
    BY <1>c, NothingIsThere DEF Coherent, Orderly
  <2>3. \A s \in established, a \in Artifact : live[a] # s
    BY <1>a, <1>b, <1>s
  <2>. QED  BY <1>a, <1>s, <2>1, <2>2, <2>3, MakingKeepsOrder
<1>2. Laid(p)'
  <2>1. ~Ready(live)
    BY <1>a DEF Ready, Present, Nothing
  <2>. QED  BY <1>a, <1>c, <1>d, <2>1, NothingIsThere DEF Laid, SigningIn, Making,
     LoginSteps, ImportSteps
<1>3. Meant(p)'
  BY <1>c DEF Meant
<1>4. SigningIn(p)' /\ ~spoiled'[p] /\ before'[p] # NoSession => Accounted(p, before[p])'
  BY <1>0, <1>a, <1>c DEF InHand, Accounted, Whole, SigningIn, Making, LoginSteps,
     ImportSteps
<1>. QED  BY <1>0, <1>1, <1>2, <1>3, <1>4, HolderKeeps DEF InHand

(***************************************************************************)
(* The whole                                                               *)
(***************************************************************************)

LEMMA Initially == Init => IInv
<1>. SUFFICES ASSUME Init PROVE IInv
  OBVIOUS
<1>. USE Bounds
<1>1. FilesTyped
  <2>1. [a \in Artifact |-> 1] \in Contents /\ 1 \in Session
    BY BoundsAreNumbers DEF Contents
  <2>. QED  BY <2>1 DEF Init, FilesTyped
<1>2. TasksTyped
  BY DEF Init, TasksTyped, Steps
<1>9. RestTyped
  <2>1. spoiled \in [Proc -> BOOLEAN] /\ tainted \in BOOLEAN
    BY Zenon DEF Init
  <2>2. lease \in Proc \cup {Nobody} /\ mishaps \in 0..MaxMishaps
    BY DEF Init
  <2>3. before \in [Proc -> Session \cup {NoSession}]
    BY DEF Init
  <2>. QED  BY <2>1, <2>2, <2>3 DEF RestTyped
<1>3. Placed
  BY DEF Init, Placed, SigningIn, LoginSteps, ImportSteps, Restoring
<1>4. Kempt
  BY DEF Init, Kempt, SigningIn, Making, LoginSteps, ImportSteps, Restoring
<1>5. Orderly
  <2>1. Coherent(Nothing)
    BY NothingIsThere DEF Coherent
  <2>2. Coherent([a \in Artifact |-> 1])
    BY DEF Coherent, Present
  <2>. QED  BY <2>1, <2>2 DEF Init, Orderly, Somewhere
<1>6. Holding
  BY DEF Init, Holding
<1>. QED  BY <1>1, <1>2, <1>3, <1>4, <1>5, <1>6, <1>9 DEF IInv, Basics

LEMMA StutterKeepsBasics == ASSUME Basics, UNCHANGED vars PROVE Basics'
<1>. USE DEF vars, files, tasks, histories, Basics
<1>1. FilesTyped'
  BY DEF FilesTyped
<1>2. TasksTyped' /\ RestTyped'
  BY DEF TasksTyped, RestTyped
<1>3. Placed'
  BY DEF Placed, SigningIn, LoginSteps, ImportSteps, Restoring
<1>4. Kempt'
  BY DEF Kempt, SigningIn, Making, LoginSteps, ImportSteps, Restoring
<1>. QED  BY <1>1, <1>2, <1>3, <1>4

LEMMA StutterKeepsOrder == ASSUME Orderly, Holding, UNCHANGED vars PROVE Orderly' /\ Holding'
<1>. USE DEF vars, files, tasks, histories
<1>1. Orderly'
  BY FilesStay
<1>2. Holding'
  <2>. SUFFICES ASSUME NEW p \in Proc, lease = p PROVE InHand(p)'
    BY DEF Holding
  <2>1. InHand(p)
    BY DEF Holding
  <2>2. Laid(p)'
    BY <2>1 DEF InHand, Laid, SigningIn, Making, LoginSteps, ImportSteps, Joint,
       Present, Ready,
       Whole
  <2>3. Meant(p)'
    BY <2>1 DEF InHand, Meant, SigningIn, Whole
  <2>4. SigningIn(p)' /\ ~spoiled'[p] /\ before'[p] # NoSession => Accounted(p, before[p])'
    BY <2>1 DEF InHand, SigningIn, Accounted, Making, LoginSteps, ImportSteps, Whole
  <2>. QED  BY <2>2, <2>3, <2>4 DEF InHand
<1>. QED  BY <1>1, <1>2

\* The steps, by name.
LEMMA StepsAre ==
  ASSUME NEW p \in Proc,
         \/ StartsATask(p) \/ TakesTheProfile(p) \/ GivesUp(p)
         \/ Rotates(p) \/ Restores(p) \/ LogsIn(p) \/ Imports(p)
         \/ Ends(p) \/ Dies(p)
         \/ AsksToLogOut(p) \/ LogsOut(p) \/ Deletes(p)
  PROVE  \/ StartsATask(p) \/ TakesTheProfile(p) \/ GivesUp(p) \/ Lists(p)
         \/ TakesItToMove(p) \/ MovesAway(p) \/ RotationDone(p)
         \/ UndoesTheMoves(p) \/ OpensTheLogin(p) \/ ExportsCookies(p)
         \/ Commits(p) \/ EndsTheLogin(p) \/ Extracts(p) \/ StagesCookies(p)
         \/ OpensTheValidation(p) \/ Rejected(p) \/ EndsTheImport(p)
         \/ TheWorkerStages(p) \/ Parks(p) \/ PutsBack(p) \/ Restored(p)
         \/ RetiresAgain(p) \/ Ends(p) \/ Dies(p) \/ AsksToLogOut(p)
         \/ LogsOut(p) \/ Deletes(p)
BY DEF Rotates, Restores, LogsIn, Imports

\* What is tainted stays so.
LEMMA TaintStays ==
  ASSUME NEW p \in Proc,
         \/ StartsATask(p) \/ TakesTheProfile(p) \/ GivesUp(p)
         \/ Rotates(p) \/ Restores(p) \/ LogsIn(p) \/ Imports(p)
         \/ Ends(p) \/ Dies(p)
         \/ AsksToLogOut(p) \/ LogsOut(p) \/ Deletes(p)
  PROVE  tainted => tainted'
<1>1. StartsATask(p) => (tainted => tainted')
  BY DEF StartsATask, Starts, histories
<1>2. TakesTheProfile(p) => (tainted => tainted')
  BY DEF TakesTheProfile, histories
<1>3. GivesUp(p) => (tainted => tainted')
  BY DEF GivesUp, histories
<1>4. Lists(p) => (tainted => tainted')
  BY DEF Lists, histories
<1>5. TakesItToMove(p) => (tainted => tainted')
  BY DEF TakesItToMove, histories
<1>6. MovesAway(p) => (tainted => tainted')
  BY DEF MovesAway, histories
<1>7. RotationDone(p) => (tainted => tainted')
  BY DEF RotationDone, histories
<1>8. UndoesTheMoves(p) => (tainted => tainted')
  BY DEF UndoesTheMoves, histories
<1>9. OpensTheLogin(p) => (tainted => tainted')
  BY DEF OpensTheLogin, histories
<1>10. ExportsCookies(p) => (tainted => tainted')
  BY DEF ExportsCookies, histories
<1>11. Commits(p) => (tainted => tainted')
  BY DEF Commits, histories
<1>12. EndsTheLogin(p) => (tainted => tainted')
  BY DEF EndsTheLogin, histories
<1>13. Extracts(p) => (tainted => tainted')
  BY DEF Extracts, histories
<1>14. StagesCookies(p) => (tainted => tainted')
  BY DEF StagesCookies, histories
<1>15. OpensTheValidation(p) => (tainted => tainted')
  BY DEF OpensTheValidation, histories
<1>16. Rejected(p) => (tainted => tainted')
  BY DEF Rejected, histories
<1>17. EndsTheImport(p) => (tainted => tainted')
  BY DEF EndsTheImport, histories
<1>18. TheWorkerStages(p) => (tainted => tainted')
  BY DEF TheWorkerStages, histories
<1>19. Parks(p) => (tainted => tainted')
  BY DEF Parks, histories
<1>20. PutsBack(p) => (tainted => tainted')
  BY DEF PutsBack, histories
<1>21. Restored(p) => (tainted => tainted')
  BY DEF Restored, histories
<1>22. RetiresAgain(p) => (tainted => tainted')
  BY DEF RetiresAgain, histories
<1>23. Ends(p) => (tainted => tainted')
  BY DEF Ends, histories
<1>24. Dies(p) => (tainted => tainted')
  BY DEF Dies, histories
<1>25. AsksToLogOut(p) => (tainted => tainted')
  BY DEF AsksToLogOut, histories
<1>26. LogsOut(p) => (tainted => tainted')
  BY DEF LogsOut, histories
<1>27. Deletes(p) => (tainted => tainted')
  BY DEF Deletes, histories
<1>. QED  BY <1>1, <1>2, <1>3, <1>4, <1>5, <1>6, <1>7, <1>8, <1>9, <1>10, <1>11,
   <1>12, <1>13, <1>14, <1>15, <1>16, <1>17, <1>18, <1>19, <1>20, <1>21, <1>22, <1>23,
   <1>24, <1>25, <1>26, <1>27, StepsAre

LEMMA StepKeeps == IInv /\ [Next]_vars => IInv'
<1>. SUFFICES ASSUME IInv, [Next]_vars PROVE IInv'
  OBVIOUS
<1>1. CASE UNCHANGED vars
  <2>1. tainted' = tainted
    BY <1>1 DEF vars, histories
  <2>. QED  BY <1>1, <2>1, StutterKeepsBasics, StutterKeepsOrder DEF IInv
<1>2. CASE Next
  <2>1. PICK p \in Proc :
         \/ StartsATask(p) \/ TakesTheProfile(p) \/ GivesUp(p)
         \/ Rotates(p) \/ Restores(p) \/ LogsIn(p) \/ Imports(p)
         \/ Ends(p) \/ Dies(p)
         \/ AsksToLogOut(p) \/ LogsOut(p) \/ Deletes(p)
    BY <1>2 DEF Next
  <2>t. tainted => tainted'
    BY <2>1, TaintStays
  <2>. USE DEF IInv
  <2>2. CASE StartsATask(p)
    <3>1. Basics'
      BY <2>2, StartsATaskBasics
    <3>. QED  BY <2>2, <3>1, <2>t, StartsATaskKeeps
  <2>3. CASE TakesTheProfile(p)
    <3>1. Basics'
      BY <2>3, TakesTheProfileBasics
    <3>. QED  BY <2>3, <3>1, <2>t, TakesTheProfileKeeps
  <2>4. CASE GivesUp(p)
    <3>1. Basics'
      BY <2>4, GivesUpBasics
    <3>. QED  BY <2>4, <3>1, <2>t, GivesUpKeeps
  <2>5. CASE Lists(p)
    <3>1. Basics'
      BY <2>5, ListsBasics
    <3>. QED  BY <2>5, <3>1, <2>t, ListsKeeps
  <2>6. CASE TakesItToMove(p)
    <3>1. Basics'
      BY <2>6, TakesItToMoveBasics
    <3>. QED  BY <2>6, <3>1, <2>t, TakesItToMoveKeeps
  <2>7. CASE MovesAway(p)
    <3>1. Basics'
      BY <2>7, MovesAwayBasics
    <3>. QED  BY <2>7, <3>1, <2>t, MovesAwayKeeps
  <2>8. CASE RotationDone(p)
    <3>1. Basics'
      BY <2>8, RotationDoneBasics
    <3>. QED  BY <2>8, <3>1, <2>t, RotationDoneKeeps
  <2>9. CASE UndoesTheMoves(p)
    <3>1. Basics'
      BY <2>9, UndoesTheMovesBasics
    <3>. QED  BY <2>9, <3>1, <2>t, UndoesTheMovesKeeps
  <2>10. CASE OpensTheLogin(p)
    <3>1. Basics'
      BY <2>10, OpensTheLoginBasics
    <3>. QED  BY <2>10, <3>1, <2>t, OpensTheLoginKeeps
  <2>11. CASE ExportsCookies(p)
    <3>1. Basics'
      BY <2>11, ExportsCookiesBasics
    <3>. QED  BY <2>11, <3>1, <2>t, ExportsCookiesKeeps
  <2>12. CASE Commits(p)
    <3>1. Basics'
      BY <2>12, CommitsBasics
    <3>. QED  BY <2>12, <3>1, <2>t, CommitsKeeps
  <2>13. CASE EndsTheLogin(p)
    <3>1. Basics'
      BY <2>13, EndsTheLoginBasics
    <3>. QED  BY <2>13, <3>1, <2>t, EndsTheLoginKeeps
  <2>14. CASE Extracts(p)
    <3>1. Basics'
      BY <2>14, ExtractsBasics
    <3>. QED  BY <2>14, <3>1, <2>t, ExtractsKeeps
  <2>15. CASE StagesCookies(p)
    <3>1. Basics'
      BY <2>15, StagesCookiesBasics
    <3>. QED  BY <2>15, <3>1, <2>t, StagesCookiesKeeps
  <2>16. CASE OpensTheValidation(p)
    <3>1. Basics'
      BY <2>16, OpensTheValidationBasics
    <3>. QED  BY <2>16, <3>1, <2>t, OpensTheValidationKeeps
  <2>17. CASE Rejected(p)
    <3>1. Basics'
      BY <2>17, RejectedBasics
    <3>. QED  BY <2>17, <3>1, <2>t, RejectedKeeps
  <2>18. CASE EndsTheImport(p)
    <3>1. Basics'
      BY <2>18, EndsTheImportBasics
    <3>. QED  BY <2>18, <3>1, <2>t, EndsTheImportKeeps
  <2>19. CASE TheWorkerStages(p)
    <3>1. Basics'
      BY <2>19, TheWorkerStagesBasics
    <3>. QED  BY <2>19, <3>1, <2>t, TheWorkerStagesKeeps
  <2>20. CASE Parks(p)
    <3>1. Basics'
      BY <2>20, ParksBasics
    <3>. QED  BY <2>20, <3>1, <2>t, ParksKeeps
  <2>21. CASE PutsBack(p)
    <3>1. Basics'
      BY <2>21, PutsBackBasics
    <3>. QED  BY <2>21, <3>1, <2>t, PutsBackKeeps
  <2>22. CASE Restored(p)
    <3>1. Basics'
      BY <2>22, RestoredBasics
    <3>. QED  BY <2>22, <3>1, <2>t, RestoredKeeps
  <2>23. CASE RetiresAgain(p)
    <3>1. Basics'
      BY <2>23, RetiresAgainBasics
    <3>. QED  BY <2>23, <3>1, <2>t, RetiresAgainKeeps
  <2>24. CASE Ends(p)
    <3>1. Basics'
      BY <2>24, EndsBasics
    <3>. QED  BY <2>24, <3>1, <2>t, EndsKeeps
  <2>25. CASE Dies(p)
    <3>1. Basics'
      BY <2>25, DiesBasics
    <3>. QED  BY <2>25, <3>1, <2>t, DiesKeeps
  <2>26. CASE AsksToLogOut(p)
    <3>1. Basics'
      BY <2>26, AsksToLogOutBasics
    <3>. QED  BY <2>26, <3>1, <2>t, AsksToLogOutKeeps
  <2>27. CASE LogsOut(p)
    <3>1. Basics'
      BY <2>27, LogsOutBasics
    <3>. QED  BY <2>27, <3>1, <2>t, LogsOutKeeps
  <2>28. CASE Deletes(p)
    <3>1. Basics'
      BY <2>28, DeletesBasics
    <3>. QED  BY <2>28, <3>1, <2>t, DeletesKeeps
  <2>. QED  BY <2>1, <2>2, <2>3, <2>4, <2>5, <2>6, <2>7, <2>8, <2>9, <2>10, <2>11,
     <2>12, <2>13, <2>14, <2>15, <2>16, <2>17, <2>18, <2>19, <2>20, <2>21, <2>22,
     <2>23, <2>24, <2>25, <2>26, <2>27, <2>28, StepsAre
<1>. QED  BY <1>1, <1>2

\* For any processes and any bounds: who may be where, what each file belongs to, and,
\* until a sign-in leaves something behind, that it is one session's and whose.
THEOREM AlwaysInPlace == Spec => []IInv
<1>. QED  BY Initially, StepKeeps, PTL DEF Spec

\* Every variable keeps its type, and only a process with a task holds the profile.
THEOREM RotationTyped == Spec => []TypeOK
<1>1. IInv => TypeOK
  BY TypesFollow DEF IInv
<1>. QED  BY <1>1, AlwaysInPlace, PTL

\* Whatever fails and whoever dies half way, the files of two sessions are not mixed,
\* unless a sign-in that was given up left some of its own.
THEOREM NeverMixed == Spec => []MixedOnlyIfTainted
<1>1. IInv => MixedOnlyIfTainted
  BY DEF IInv, MixedOnlyIfTainted, NoTwoSessionsMixed, Orderly, Coherent, Ready,
     Artifact
<1>. QED  BY <1>1, AlwaysInPlace, PTL

\* A session that once worked keeps every part of it somewhere until a logout.
THEOREM EverythingIsKept == Spec => []NothingIsLost
<1>1. IInv => NothingIsLost
  BY DEF IInv, NothingIsLost, Orderly, Somewhere, Places
<1>. QED  BY <1>1, AlwaysInPlace, PTL

\* Which steps change what is at the live paths while a session is whole there.
LEMMA WhoTouchesASession ==
  ASSUME Basics, Orderly, Holding, NEW p \in Proc, NEW s \in Session, Whole(live, s),
         live' # live, ~tainted',
         \/ StartsATask(p) \/ TakesTheProfile(p) \/ GivesUp(p)
         \/ Rotates(p) \/ Restores(p) \/ LogsIn(p) \/ Imports(p)
         \/ Ends(p) \/ Dies(p)
         \/ AsksToLogOut(p) \/ LogsOut(p) \/ Deletes(p)
  PROVE  lease = p /\ guard[p] \in {Unguarded, s}
<1>. USE Bounds
<1>w. /\ Ready(live) /\ Present(live) = Artifact
      /\ \A f : live # [Nothing EXCEPT !["profile"] = f]
      /\ \A f : live # [Nothing EXCEPT !["cookies"] = f]
      /\ \A f : live # [Nothing EXCEPT !["profile"] = f, !["cookies"] = f]
  BY DEF Whole, Ready, Present, Nothing
<1>1. CASE MovesAway(p) \/ Deletes(p)
  <2>1. pc[p] \in {"moves", "deletes"} /\ lease = p
    BY <1>1, MovesAwayIs, DeletesIs DEF Basics, Placed
  <2>. QED  BY <2>1 DEF Holding, InHand, Meant
<1>2. ~UndoesTheMoves(p)
  <2>. SUFFICES ASSUME UndoesTheMoves(p) PROVE FALSE
    OBVIOUS
  <2>1. pc[p] = "undoes" /\ lease = p /\ \E a \in moved[p] : a \in Artifact
    BY UndoesTheMovesIs DEF Basics, Placed
  <2>. QED  BY <2>1, <1>w DEF Holding, InHand, Laid
<1>3. ~RetiresAgain(p)
  <2>. SUFFICES ASSUME RetiresAgain(p) PROVE FALSE
    OBVIOUS
  <2>1. pc[p] = "retiresAgain" /\ lease = p
    BY RetiresAgainIs DEF Basics, Placed, Restoring
  <2>. QED  BY <2>1, <1>w DEF Holding, InHand, Laid
<1>4. ~PutsBack(p)
  <2>. SUFFICES ASSUME PutsBack(p) PROVE FALSE
    OBVIOUS
  <2>1. pc[p] = "putsBack" /\ lease = p /\ \E a \in todo[p] : a \in Artifact
    BY PutsBackIs DEF Basics, Placed, Restoring
  <2>. QED  BY <2>1, <1>w DEF Holding, InHand, Laid
<1>5. ~Parks(p)
  <2>. SUFFICES ASSUME Parks(p) PROVE FALSE
    OBVIOUS
  <2>1. pc[p] = "parks" /\ lease = p
    BY ParksIs DEF Basics, Placed, Restoring
  <2>2. todo[p] = {}
    BY <2>1, <1>w DEF Holding, InHand, Laid
  <2>. QED  BY <2>2, <1>w, ParksIs
<1>6. ~(\/ OpensTheLogin(p) \/ ExportsCookies(p) \/ Commits(p) \/ StagesCookies(p)
        \/ OpensTheValidation(p) \/ Rejected(p))
  <2>. SUFFICES ASSUME \/ OpensTheLogin(p) \/ ExportsCookies(p) \/ Commits(p) \/ StagesCookies(p)
                       \/ OpensTheValidation(p) \/ Rejected(p)
                PROVE  FALSE
    OBVIOUS
  <2>1. pc[p] \in {"opens", "opened", "exported", "validating", "staging", "staged"}
    BY DEF OpensTheLogin, ExportsCookies, Commits, StagesCookies, OpensTheValidation,
       Rejected
  <2>2. lease = p
    BY <2>1 DEF Basics, Placed, SigningIn, LoginSteps, ImportSteps
  <2>3. Laid(p)
    BY <2>2 DEF Holding, InHand
  <2>4. live # Nothing
    BY <1>w, NothingIsThere
  <2>. QED  BY <2>1, <2>3, <2>4, <1>w DEF Laid
<1>7. ~(\/ StartsATask(p) \/ TakesTheProfile(p) \/ GivesUp(p) \/ Lists(p) \/ TakesItToMove(p)
        \/ RotationDone(p) \/ EndsTheLogin(p) \/ Extracts(p) \/ EndsTheImport(p)
        \/ TheWorkerStages(p) \/ Restored(p) \/ Ends(p) \/ Dies(p) \/ AsksToLogOut(p)
        \/ LogsOut(p))
  BY DEF StartsATask, Starts, TakesTheProfile, GivesUp, Lists, TakesItToMove,
     RotationDone,
     EndsTheLogin, Extracts, EndsTheImport, TheWorkerStages, Restored, Ends, Dies,
     AsksToLogOut, LogsOut, files
<1>. QED  BY <1>1, <1>2, <1>3, <1>4, <1>5, <1>6, <1>7, StepsAre

\* A session is retired or deleted only by a process that holds the profile and meant
\* that session: not by one whose view of the files is older.
THEOREM PeersAreRespected == Spec => NewSessionsAreRespected
<1>. DEFINE Respects ==
       \A s \in Session :
         Whole(live, s) /\ ~Whole(live', s) =>
           tainted' \/ \E p \in Proc : lease = p /\ guard[p] \in {Unguarded, s}
<1>1. IInv /\ [Next]_vars => [Respects]_vars
  <2>. SUFFICES ASSUME IInv, Next, NEW s \in Session, Whole(live, s), ~Whole(live', s), ~tainted'
                PROVE  \E p \in Proc : lease = p /\ guard[p] \in {Unguarded, s}
    BY DEF Respects
  <2>1. PICK p \in Proc :
         \/ StartsATask(p) \/ TakesTheProfile(p) \/ GivesUp(p)
         \/ Rotates(p) \/ Restores(p) \/ LogsIn(p) \/ Imports(p)
         \/ Ends(p) \/ Dies(p)
         \/ AsksToLogOut(p) \/ LogsOut(p) \/ Deletes(p)
    BY DEF Next
  <2>2. live' # live
    BY DEF Whole
  <2>3. ~tainted
    BY <2>1, TaintStays
  <2>. QED  BY <2>1, <2>2, <2>3, WhoTouchesASession DEF IInv
<1>. QED  BY <1>1, AlwaysInPlace, PTL DEF Spec, NewSessionsAreRespected

\* A sign-in that comes to nothing leaves the session it retired in its place, unless a
\* move failed on the way.
THEOREM FailuresAreFree == Spec => FailedSignInCostsNothing
<1>. DEFINE Free ==
       \A p \in Proc :
         /\ pc[p] = "ends" /\ pc'[p] = "idle"
         /\ task[p] \in {"login", "import"} /\ ~spoiled[p]
         /\ before[p] # NoSession
         => tainted \/ Whole(live, before[p]) \/ Whole(live, fresh[p])
<1>1. IInv => Free
  <2>. SUFFICES ASSUME IInv, ~tainted, NEW p \in Proc, pc[p] = "ends", SigningIn(p),
                       ~spoiled[p], before[p] # NoSession
                PROVE  Whole(live, before[p]) \/ Whole(live, fresh[p])
    BY DEF SigningIn
  <2>1. lease = p
    BY DEF IInv, Basics, Placed
  <2>. QED  BY <2>1 DEF IInv, Holding, InHand, Accounted
<1>. QED  BY <1>1, AlwaysInPlace, PTL DEF FailedSignInCostsNothing

\* The profile while nobody takes it, gives it back, opens a browser or closes one.
LEMMA SamePlacesSameProfile ==
  ASSUME lease' = lease, Browsing' = Browsing
  PROVE  [Profile!Next]_(Profile!profileVars)
BY DEF Profile!profileVars

\* A process with a browser has the profile.
LEMMA BrowsersHold == ASSUME Basics, NEW p \in Browsing PROVE p \in Proc /\ lease = p
BY DEF Browsing, Basics, Placed, SigningIn, LoginSteps, ImportSteps

\* Each step of a process takes the free profile, opens or closes a browser on the
\* profile that is its own, gives it back, or does none of this.
LEMMA StepUsesTheLease ==
  ASSUME Basics, Basics', NEW p \in Proc,
         \/ StartsATask(p) \/ TakesTheProfile(p) \/ GivesUp(p)
         \/ Rotates(p) \/ Restores(p) \/ LogsIn(p) \/ Imports(p)
         \/ Ends(p) \/ Dies(p)
         \/ AsksToLogOut(p) \/ LogsOut(p) \/ Deletes(p)
  PROVE  [Profile!Next]_(Profile!profileVars)
<1>. DEFINE Open == {"opened", "exported", "committed", "validating", "stuck"}
<1>t. /\ pc \in [Proc -> Steps] /\ lease \in Proc \cup {Nobody} /\ Nobody \notin Proc
      /\ \A q \in Proc : q \in Browsing <=> pc[q] \in Open
      /\ \A q \in Proc : q \in Browsing' <=> pc'[q] \in Open
      /\ Browsing \subseteq Proc /\ Browsing' \subseteq Proc
  BY Bounds DEF Basics, TasksTyped, RestTyped, Browsing
\* The four things it may do with the profile.
<1>a. ASSUME lease \in {p, Nobody}, lease' = p, Browsing' = Browsing
      PROVE  [Profile!Next]_(Profile!profileVars)
  BY <1>a DEF Profile!Next, Profile!Acquire, Profile!profileVars
<1>b. ASSUME lease = p, lease' = lease, Browsing' = Browsing \cup {p}
      PROVE  [Profile!Next]_(Profile!profileVars)
  BY <1>b DEF Profile!Next, Profile!Launch, Profile!profileVars
<1>c. ASSUME lease' = lease, Browsing' = Browsing \ {p}
      PROVE  [Profile!Next]_(Profile!profileVars)
  BY <1>c DEF Profile!Next, Profile!Ends, Profile!profileVars
<1>d. ASSUME Releases(p), Browsing' = Browsing \ {p}
      PROVE  [Profile!Next]_(Profile!profileVars)
  <2>1. CASE lease = p
    BY <1>d, <2>1 DEF Releases, Profile!Next, Profile!Release
  <2>2. CASE lease # p
    BY <1>c, <1>d, <2>2 DEF Releases
  <2>. QED  BY <2>1, <2>2
\* What a move to another step makes of the browsers.
<1>g. ASSUME NEW step, Goes(p, step)
      PROVE  /\ step \in Open => Browsing' = Browsing \cup {p}
             /\ step \notin Open => Browsing' = Browsing \ {p}
  <2>1. \A q \in Proc : q # p => (q \in Browsing' <=> q \in Browsing)
    BY <1>t, <1>g DEF Goes
  <2>2. p \in Browsing' <=> step \in Open
    BY <1>t, <1>g DEF Goes
  <2>. QED  BY <2>1, <2>2, <1>t
<1>n. ASSUME NEW step, Goes(p, step), step \notin Open, pc[p] \notin Open
      PROVE  Browsing' = Browsing
  BY <1>g, <1>n, <1>t
<1>s. ASSUME pc' = pc, lease' = lease PROVE [Profile!Next]_(Profile!profileVars)
  BY <1>s, SamePlacesSameProfile DEF Browsing
<1>k. ASSUME pc[p] \in Open, NEW step, Goes(p, step), step \in Open
      PROVE  Browsing' = Browsing
  BY <1>g, <1>k, <1>t
<1>h. \A q \in Proc : q \in Browsing => lease = q
  BY BrowsersHold
<1>1. CASE StartsATask(p) \/ AsksToLogOut(p)
  <2>1. lease' = lease /\ Browsing' = Browsing
    BY <1>1, <1>n DEF StartsATask, Starts, AsksToLogOut
  <2>. QED  BY <2>1, SamePlacesSameProfile
<1>2. CASE TakesTheProfile(p) \/ LogsOut(p)
  <2>1. lease \in {p, Nobody} /\ lease' = p /\ Browsing' = Browsing
    BY <1>2, <1>n DEF TakesTheProfile, LogsOut, Holds
  <2>. QED  BY <2>1, <1>a
<1>3. CASE TakesItToMove(p)
  <2>1. Browsing' = Browsing
    BY <1>3, <1>n DEF TakesItToMove
  <2>2. lease' = lease \/ (lease \in {p, Nobody} /\ lease' = p)
    BY <1>3 DEF TakesItToMove, Holds
  <2>. QED  BY <2>1, <2>2, <1>a, SamePlacesSameProfile
<1>4. CASE GivesUp(p)
  <2>1. lease' = lease /\ Browsing' = Browsing
    BY <1>4, <1>n DEF GivesUp, Forgets
  <2>. QED  BY <2>1, SamePlacesSameProfile
<1>5. CASE Lists(p) \/ RotationDone(p)
  <2>1. lease' = lease /\ Browsing' = Browsing
    BY <1>5, <1>n DEF Lists, RotationDone, AfterRotation
  <2>. QED  BY <2>1, SamePlacesSameProfile
<1>6. CASE \/ MovesAway(p) \/ UndoesTheMoves(p) \/ Parks(p) \/ PutsBack(p)
           \/ Restored(p) \/ RetiresAgain(p) \/ Deletes(p)
  <2>1. lease' = lease /\ (pc' = pc \/ Browsing' = Browsing)
    BY <1>6, <1>n
       DEF MovesAway, UndoesTheMoves, Parks, PutsBack, Restored, RetiresAgain, Deletes
  <2>. QED  BY <2>1, <1>s, SamePlacesSameProfile
<1>7. CASE OpensTheLogin(p) \/ OpensTheValidation(p)
  <2>1. lease' = lease /\ Browsing' = Browsing \cup {p}
    BY <1>7, <1>g DEF OpensTheLogin, OpensTheValidation
  <2>2. lease = p
    BY <1>7 DEF OpensTheLogin, OpensTheValidation, Basics, Placed, SigningIn, LoginSteps,
       ImportSteps
  <2>. QED  BY <2>1, <2>2, <1>b
<1>8. CASE ExportsCookies(p)
  <2>1. lease' = lease /\ Browsing' = Browsing
    BY <1>8, <1>k DEF ExportsCookies
  <2>. QED  BY <2>1, SamePlacesSameProfile
<1>9. CASE Commits(p)
  <2>1. lease' = lease /\ (Browsing' = Browsing \/ Browsing' = Browsing \ {p})
    BY <1>9, <1>k, <1>g DEF Commits
  <2>. QED  BY <2>1, <1>c, SamePlacesSameProfile
<1>10. CASE EndsTheLogin(p) \/ EndsTheImport(p)
  <2>1. lease' = lease
    BY <1>10 DEF EndsTheLogin, EndsTheImport
  <2>2. Browsing' = Browsing \/ Browsing' = Browsing \ {p}
    BY <1>10, <1>k, <1>g DEF EndsTheLogin, EndsTheImport
  <2>. QED  BY <2>1, <2>2, <1>c, SamePlacesSameProfile
<1>11. CASE Extracts(p) \/ TheWorkerStages(p)
  BY <1>11, <1>s DEF Extracts, TheWorkerStages
<1>12. CASE StagesCookies(p)
  <2>1. lease' = lease /\ Browsing' = Browsing
    BY <1>12, <1>n DEF StagesCookies
  <2>. QED  BY <2>1, SamePlacesSameProfile
<1>13. CASE Rejected(p)
  <2>1. lease' = lease /\ Browsing' = Browsing \ {p}
    BY <1>13, <1>g DEF Rejected
  <2>. QED  BY <2>1, <1>c
<1>14. CASE Ends(p) \/ Dies(p)
  <2>1. Releases(p) /\ Browsing' = Browsing \ {p}
    BY <1>14, <1>g DEF Ends, Dies, Forgets
  <2>. QED  BY <2>1, <1>d
<1>. QED  BY <1>1, <1>2, <1>3, <1>4, <1>5, <1>6, <1>7, <1>8, <1>9, <1>10, <1>11, <1>12,
   <1>13, <1>14, StepsAre

\* Retirements, sign-ins, imports and logouts of any number of processes share the profile
\* as ExclusiveProfile promises: one at a time, a browser only while the profile is the
\* process's own, and none handed back with a browser that may still be there, also when
\* a close proves nothing or the process dies.
THEOREM SignInsUseTheLease == Spec => UsesTheLease
<1>1. Init => Profile!Init
  BY DEF Init, Profile!Init, Browsing
<1>2. IInv /\ IInv' /\ [Next]_vars => [Profile!Next]_(Profile!profileVars)
  <2>. SUFFICES ASSUME IInv, IInv', [Next]_vars PROVE [Profile!Next]_(Profile!profileVars)
    OBVIOUS
  <2>1. CASE UNCHANGED vars
    BY <2>1, SamePlacesSameProfile DEF vars, tasks, Browsing
  <2>2. CASE Next
    BY <2>2, StepUsesTheLease DEF Next, IInv
  <2>. QED  BY <2>1, <2>2
<1>. QED  BY <1>1, <1>2, AlwaysInPlace, PTL DEF Spec, UsesTheLease, Profile!Spec
====================================================================================
