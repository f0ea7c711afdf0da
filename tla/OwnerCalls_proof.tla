----------------------------- MODULE OwnerCalls_proof -----------------------------
(* What OwnerCalls promises its clients, for any number of calls and any times    *)
(* that meet the assumptions.  The argument: the books of the calls in flight     *)
(* always balance, so nobody is in flight once a quiet retirement has closed      *)
(* admission; a body that began is marked until its call is answered, so no call  *)
(* that ran is told to try again; and the time since an owner last heard a        *)
(* waiting client is bounded by what it missed while it ran, unless it stalled,   *)
(* which its next scan knows.                                                     *)
EXTENDS OwnerCalls, FiniteSetTheorems, TLAPS

\* The types of what is kept for each call, and of the rest.
CallsTyped ==
  /\ stage \in [Call -> Stages]
  /\ wanted \subseteq Call
  /\ answer \in [Call -> Answers]
  /\ ended \in [Call -> {"no", "result", "cancelled", "abandoned"}]
  /\ ran \subseteq Call
  /\ waiting \subseteq Call /\ cut \subseteq Call /\ began \subseteq Call
  /\ cancelling \subseteq Call /\ dropped \subseteq Call

TimesTyped ==
  /\ unheard \in [Call -> 0..(Expiry + 1)]
  /\ silence \in [Call -> 0..Slack]
  /\ elapsed \in Nat
  /\ quiet \in NotQuiet..Grace /\ lull \in 0..Grace
  /\ stalls \in 0..MaxStalls

OwnerTyped ==
  /\ retired \in {"no", "idle", "retire", "turnover", "wedged"}
  /\ mode \in {"starting", "serving", "draining", "stopping", "exited"}
  /\ turnover \in BOOLEAN /\ wedged \in BOOLEAN /\ awake \in BOOLEAN
  /\ scanned \in BOOLEAN /\ looked \in BOOLEAN /\ stale \in BOOLEAN
  /\ setup \in {"none", "running", "failed"}

\* The books of the calls in flight.
Books ==
  /\ inFlight = Cardinality(InFlight)
  /\ waiting \cup cut \cup began \subseteq InFlight
  /\ \A c \in InFlight : stage[c] # "ended" => c \in waiting \cup cancelling

\* What is remembered of a call whose body began, or ended.
RanIsMarked ==
  \A c \in Call :
    /\ c \in ran => stage[c] \in {"running", "ended", "answered"}
    /\ c \in ran /\ stage[c] \in {"running", "ended"} => c \in began
    /\ answer[c] # "none" => stage[c] = "answered"
    /\ answer[c] = "retiring" => c \notin ran
    /\ stage[c] = "ended" => ended[c] # "no"

\* The quiet period never counts more than the real lull.
QuietIsReal ==
  inFlight = 0 /\ setup # "running" /\ quiet # NotQuiet => quiet <= lull

\* The time a client that waits went unheard: as long as it missed beats, and as
\* long as the stopping server takes none.
Unheard(c) == silence[c] + (IF mode = "stopping" THEN elapsed ELSE 0)

TimesInPlace ==
  /\ mode \in {"starting", "serving"} => elapsed = 0
  /\ mode = "stopping" => elapsed <= StopGrace
  /\ mode # "stopping" => dropped = {} /\ waiting \cap cancelling = {}
  /\ dropped \subseteq cancelling /\ cancelling \subseteq InFlight

\* Nobody knows of an owner that has not scanned yet.
UnknownUntilScanned == ~scanned => \A c \in Call : stage[c] = "new"

ClientIsHeard ==
  \A c \in wanted :
    /\ answer[c] # "abandoned" /\ ended[c] # "abandoned"
    /\ c \in InFlight => c \in waiting \cup cut \cup dropped
    /\ c \in waiting \ cancelling /\ ~(scanned /\ stale) => unheard[c] <= Unheard(c)

Parts ==
  /\ CallsTyped /\ TimesTyped /\ OwnerTyped /\ Books /\ RanIsMarked
  /\ QuietIsReal /\ QuietRetirementCutsNobody
  /\ TimesInPlace /\ UnknownUntilScanned /\ ClientIsHeard

IInv ==
  /\ TypeOK /\ RanIsMarked /\ QuietIsReal /\ QuietRetirementCutsNobody
  /\ TimesInPlace /\ UnknownUntilScanned /\ ClientIsHeard

LEMMA TimesFacts ==
  /\ Expiry \in Nat /\ Slack \in Nat /\ Drain \in Nat /\ StopGrace \in Nat
  /\ MaxStalls \in Nat /\ IdleAfter \in Nat /\ Grace \in Nat
  /\ IdleAfter <= Grace /\ Slack + StopGrace <= Expiry /\ NotQuiet = -1
BY TimesAreTicks, BeatsFitTheExpiry DEF NotQuiet

\* The calls in flight are counted as any finite set is.
LEMMA Counting ==
  /\ IsFiniteSet(InFlight) /\ Cardinality(InFlight) \in Nat
  /\ Cardinality(InFlight) <= Cardinality(Call) /\ Cardinality(Call) \in Nat
  /\ Cardinality(InFlight) = 0 <=> InFlight = {}
  /\ \A c : c \notin InFlight => Cardinality(InFlight \cup {c}) = Cardinality(InFlight) + 1
  /\ \A c : c \in InFlight => Cardinality(InFlight \ {c}) = Cardinality(InFlight) - 1
<1>1. InFlight \in SUBSET Call
  BY DEF InFlight
<1>2. IsFiniteSet(InFlight) /\ Cardinality(InFlight) <= Cardinality(Call)
  BY <1>1, CallIsFinite, FS_Subset
<1>3. Cardinality(InFlight) \in Nat /\ Cardinality(Call) \in Nat
  BY <1>2, CallIsFinite, FS_CardinalityType
<1>4. Cardinality(InFlight) = 0 <=> InFlight = {}
  BY <1>2, FS_EmptySet
<1>5. \A c : c \notin InFlight => Cardinality(InFlight \cup {c}) = Cardinality(InFlight) + 1
  BY <1>2, FS_AddElement
<1>6. \A c : c \in InFlight => Cardinality(InFlight \ {c}) = Cardinality(InFlight) - 1
  BY <1>2, FS_RemoveElement
<1>. QED  BY <1>2, <1>3, <1>4, <1>5, <1>6

LEMMA TypeParts == TypeOK <=> CallsTyped /\ TimesTyped /\ OwnerTyped /\ Books
<1>1. Books => inFlight \in 0..Cardinality(Call)
  BY Counting DEF Books
<1>. QED  BY <1>1, Zenon DEF TypeOK, CallsTyped, TimesTyped, OwnerTyped, Books

LEMMA InvariantParts == /\ IInv <=> Parts
                        /\ IInv' <=> Parts'
<1>1. IInv <=> Parts
  BY TypeParts, Zenon DEF IInv, Parts
<1>. QED  BY <1>1, PTL

LEMMA Initially == Init => IInv
<1>. SUFFICES ASSUME Init PROVE Parts
  BY InvariantParts
<1>1. InFlight = {}
  BY DEF Init, InFlight
<1>2. CallsTyped
  BY DEF Init, CallsTyped, Stages, Answers
<1>3. TimesTyped
  BY TimesFacts DEF Init, TimesTyped
<1>4. OwnerTyped
  BY DEF Init, OwnerTyped
<1>5. Books
  BY <1>1, FS_EmptySet DEF Init, Books
<1>6. RanIsMarked /\ QuietIsReal /\ QuietRetirementCutsNobody
  BY <1>1 DEF Init, RanIsMarked, QuietIsReal, QuietRetirementCutsNobody
<1>7. TimesInPlace
  BY TimesFacts DEF Init, TimesInPlace
<1>8. UnknownUntilScanned /\ ClientIsHeard
  BY <1>1 DEF Init, UnknownUntilScanned, ClientIsHeard
<1>. QED  BY <1>2, <1>3, <1>4, <1>5, <1>6, <1>7, <1>8 DEF Parts

(***************************************************************************)
(* Steps that leave the calls alone                                        *)
(***************************************************************************)

LEMMA CallsAlone ==
  ASSUME Parts, UNCHANGED callVars
  PROVE  /\ InFlight' = InFlight /\ CallsTyped' /\ Books' /\ RanIsMarked'
         /\ unheard' \in [Call -> 0..(Expiry + 1)] /\ silence' \in [Call -> 0..Slack]
<1>1. InFlight' = InFlight
  BY DEF callVars, InFlight
<1>. QED  BY <1>1 DEF callVars, Parts, CallsTyped, TimesTyped, Books, RanIsMarked

\* The clocks of the calls and of the scans stand as well, and the owner stops at
\* most after it was serving.
LEMMA ClocksAlone ==
  ASSUME Parts, UNCHANGED <<callVars, clockVars>>,
         \/ mode' = mode
         \/ mode = "starting" /\ mode' = "serving"
         \/ mode = "serving" /\ mode' \in {"draining", "stopping"}
  PROVE  /\ TimesInPlace' /\ UnknownUntilScanned' /\ ClientIsHeard'
         /\ elapsed' \in Nat /\ stalls' \in 0..MaxStalls
<1>. USE DEF Parts
<1>1. InFlight' = InFlight
  BY CallsAlone
<1>2. TimesInPlace'
  BY <1>1, TimesFacts DEF callVars, clockVars, TimesInPlace
<1>3. UnknownUntilScanned'
  BY DEF callVars, clockVars, UnknownUntilScanned
<1>5. \A c \in Call : unheard[c] <= Unheard(c) => unheard'[c] <= Unheard(c)'
  <2>. SUFFICES ASSUME NEW c \in Call PROVE Unheard(c)' = Unheard(c)
    BY DEF callVars
  <2>1. silence[c] \in Nat
    BY TimesFacts DEF TimesTyped
  <2>. QED  BY <2>1 DEF callVars, clockVars, Unheard, TimesInPlace
<1>6. ClientIsHeard'
  BY <1>1, <1>5 DEF callVars, clockVars, ClientIsHeard, CallsTyped
<1>7. elapsed' \in Nat /\ stalls' \in 0..MaxStalls
  BY DEF clockVars, TimesTyped
<1>. QED  BY <1>2, <1>3, <1>6, <1>7

LEMMA UsesSetupKeeps == ASSUME Parts, NEW c \in Call, UsesSetup(c) PROVE Parts'
<1>. USE DEF Parts
<1>1. UNCHANGED <<callVars, clockVars>>
  BY DEF UsesSetup
<1>2. CallsTyped' /\ Books' /\ RanIsMarked' /\ InFlight' = InFlight
  BY <1>1, CallsAlone
<1>3. OwnerTyped'
  BY <1>1 DEF UsesSetup, OwnerTyped, clockVars, idleVars, modeVars
<1>4. TimesInPlace' /\ UnknownUntilScanned' /\ ClientIsHeard' /\ elapsed' \in Nat /\ stalls' \in 0..MaxStalls
  BY <1>1, ClocksAlone DEF UsesSetup, modeVars
<1>5. TimesTyped' /\ QuietIsReal'
  BY <1>1, <1>2, <1>4, CallsAlone, TimesFacts DEF UsesSetup, idleVars, callVars,
     TimesTyped, QuietIsReal
<1>6. QuietRetirementCutsNobody'
  BY <1>1, <1>2, Counting DEF UsesSetup, idleVars, modeVars,
     QuietRetirementCutsNobody, InFlight, Busy, Books
<1>. QED  BY <1>2, <1>3, <1>4, <1>5, <1>6

LEMMA SetupEndsKeeps == ASSUME Parts, SetupEnds PROVE Parts'
<1>. USE DEF Parts
<1>1. UNCHANGED <<callVars, clockVars>>
  BY DEF SetupEnds
<1>2. CallsTyped' /\ Books' /\ RanIsMarked' /\ InFlight' = InFlight
  BY <1>1, CallsAlone
<1>3. OwnerTyped'
  BY <1>1 DEF SetupEnds, QuietBegins, OwnerTyped, clockVars, idleVars, modeVars
<1>4. TimesInPlace' /\ UnknownUntilScanned' /\ ClientIsHeard' /\ elapsed' \in Nat /\ stalls' \in 0..MaxStalls
  BY <1>1, ClocksAlone DEF SetupEnds, modeVars
<1>5. TimesTyped' /\ QuietIsReal'
  BY <1>1, <1>2, <1>4, CallsAlone, TimesFacts DEF SetupEnds, QuietBegins, idleVars,
     callVars, TimesTyped, QuietIsReal
<1>6. QuietRetirementCutsNobody'
  BY <1>1, <1>2, Counting DEF SetupEnds, QuietBegins, idleVars, modeVars,
     QuietRetirementCutsNobody, InFlight, Busy, Books
<1>. QED  BY <1>2, <1>3, <1>4, <1>5, <1>6

LEMMA StandDownAskedKeeps == ASSUME Parts, StandDownAsked PROVE Parts'
<1>. USE DEF Parts
<1>1. UNCHANGED <<callVars, clockVars>>
  BY DEF StandDownAsked
<1>2. CallsTyped' /\ Books' /\ RanIsMarked' /\ InFlight' = InFlight
  BY <1>1, CallsAlone
<1>3. OwnerTyped'
  BY <1>1 DEF StandDownAsked, Retires, OwnerTyped, clockVars, idleVars, modeVars
<1>4. TimesInPlace' /\ UnknownUntilScanned' /\ ClientIsHeard' /\ elapsed' \in Nat /\ stalls' \in 0..MaxStalls
  BY <1>1, ClocksAlone DEF StandDownAsked, modeVars
<1>5. TimesTyped' /\ QuietIsReal'
  BY <1>1, <1>2, <1>4, CallsAlone, TimesFacts DEF StandDownAsked, Retires, idleVars,
     callVars, TimesTyped, QuietIsReal
<1>6. QuietRetirementCutsNobody'
  BY <1>1, <1>2, Counting DEF StandDownAsked, Retires, idleVars, modeVars,
     QuietRetirementCutsNobody, InFlight, Busy, Books
<1>. QED  BY <1>2, <1>3, <1>4, <1>5, <1>6

LEMMA RetireAskedKeeps == ASSUME Parts, RetireAsked PROVE Parts'
<1>. USE DEF Parts
<1>1. UNCHANGED <<callVars, clockVars>>
  BY DEF RetireAsked
<1>2. CallsTyped' /\ Books' /\ RanIsMarked' /\ InFlight' = InFlight
  BY <1>1, CallsAlone
<1>3. OwnerTyped'
  BY <1>1 DEF RetireAsked, Retires, OwnerTyped, clockVars, idleVars, modeVars
<1>4. TimesInPlace' /\ UnknownUntilScanned' /\ ClientIsHeard' /\ elapsed' \in Nat /\ stalls' \in 0..MaxStalls
  BY <1>1, ClocksAlone DEF RetireAsked, modeVars
<1>5. TimesTyped' /\ QuietIsReal'
  BY <1>1, <1>2, <1>4, CallsAlone, TimesFacts DEF RetireAsked, Retires, idleVars,
     callVars, TimesTyped, QuietIsReal
<1>6. QuietRetirementCutsNobody'
  BY <1>1, <1>2, Counting DEF RetireAsked, Retires, idleVars, modeVars,
     QuietRetirementCutsNobody, InFlight, Busy, Books
<1>. QED  BY <1>2, <1>3, <1>4, <1>5, <1>6

LEMMA WedgesKeeps == ASSUME Parts, Wedges PROVE Parts'
<1>. USE DEF Parts
<1>1. UNCHANGED <<callVars, clockVars>>
  BY DEF Wedges
<1>2. CallsTyped' /\ Books' /\ RanIsMarked' /\ InFlight' = InFlight
  BY <1>1, CallsAlone
<1>3. OwnerTyped'
  BY <1>1 DEF Wedges, OwnerTyped, clockVars, idleVars, modeVars
<1>4. TimesInPlace' /\ UnknownUntilScanned' /\ ClientIsHeard' /\ elapsed' \in Nat /\ stalls' \in 0..MaxStalls
  BY <1>1, ClocksAlone DEF Wedges, modeVars
<1>5. TimesTyped' /\ QuietIsReal'
  BY <1>1, <1>2, <1>4, CallsAlone, TimesFacts DEF Wedges, idleVars, callVars,
     TimesTyped, QuietIsReal
<1>6. QuietRetirementCutsNobody'
  BY <1>1, <1>2, Counting DEF Wedges, idleVars, modeVars, QuietRetirementCutsNobody,
     InFlight, Busy, Books
<1>. QED  BY <1>2, <1>3, <1>4, <1>5, <1>6

LEMMA GoesLiveKeeps == ASSUME Parts, GoesLive PROVE Parts'
<1>. USE DEF Parts
<1>1. UNCHANGED <<callVars, clockVars>>
  BY DEF GoesLive
<1>2. CallsTyped' /\ Books' /\ RanIsMarked' /\ InFlight' = InFlight
  BY <1>1, CallsAlone
<1>3. OwnerTyped'
  BY <1>1 DEF GoesLive, OwnerTyped, clockVars, idleVars, modeVars
<1>4. TimesInPlace' /\ UnknownUntilScanned' /\ ClientIsHeard' /\ elapsed' \in Nat /\ stalls' \in 0..MaxStalls
  BY <1>1, ClocksAlone DEF GoesLive, modeVars
<1>5. TimesTyped' /\ QuietIsReal'
  BY <1>1, <1>2, <1>4, CallsAlone, TimesFacts DEF GoesLive, idleVars, callVars,
     TimesTyped, QuietIsReal
<1>6. QuietRetirementCutsNobody'
  BY <1>1, <1>2, Counting DEF GoesLive, idleVars, modeVars, QuietRetirementCutsNobody,
     InFlight, Busy, Books
<1>. QED  BY <1>2, <1>3, <1>4, <1>5, <1>6

LEMMA StandsDownWedgedKeeps == ASSUME Parts, StandsDownWedged PROVE Parts'
<1>. USE DEF Parts
<1>1. UNCHANGED <<callVars, clockVars>>
  BY DEF StandsDownWedged
<1>2. CallsTyped' /\ Books' /\ RanIsMarked' /\ InFlight' = InFlight
  BY <1>1, CallsAlone
<1>3. OwnerTyped'
  BY <1>1 DEF StandsDownWedged, Retires, OwnerTyped, clockVars, idleVars, modeVars
<1>4. TimesInPlace' /\ UnknownUntilScanned' /\ ClientIsHeard' /\ elapsed' \in Nat /\ stalls' \in 0..MaxStalls
  BY <1>1, ClocksAlone DEF StandsDownWedged, modeVars
<1>5. TimesTyped' /\ QuietIsReal'
  BY <1>1, <1>2, <1>4, CallsAlone, TimesFacts DEF StandsDownWedged, Retires, idleVars,
     callVars, TimesTyped, QuietIsReal
<1>6. QuietRetirementCutsNobody'
  BY <1>1, <1>2, Counting DEF StandsDownWedged, Retires, idleVars, modeVars,
     QuietRetirementCutsNobody, InFlight, Busy, Books
<1>. QED  BY <1>2, <1>3, <1>4, <1>5, <1>6

LEMMA TurnsOverKeeps == ASSUME Parts, TurnsOver PROVE Parts'
<1>. USE DEF Parts
<1>1. UNCHANGED <<callVars, clockVars>>
  BY DEF TurnsOver
<1>2. CallsTyped' /\ Books' /\ RanIsMarked' /\ InFlight' = InFlight
  BY <1>1, CallsAlone
<1>3. OwnerTyped'
  BY <1>1 DEF TurnsOver, Retires, OwnerTyped, clockVars, idleVars, modeVars
<1>4. TimesInPlace' /\ UnknownUntilScanned' /\ ClientIsHeard' /\ elapsed' \in Nat /\ stalls' \in 0..MaxStalls
  BY <1>1, ClocksAlone DEF TurnsOver, modeVars
<1>5. TimesTyped' /\ QuietIsReal'
  BY <1>1, <1>2, <1>4, CallsAlone, TimesFacts DEF TurnsOver, Retires, idleVars,
     callVars, TimesTyped, QuietIsReal
<1>6. QuietRetirementCutsNobody'
  BY <1>1, <1>2, Counting DEF TurnsOver, Retires, idleVars, modeVars,
     QuietRetirementCutsNobody, InFlight, Busy, Books
<1>. QED  BY <1>2, <1>3, <1>4, <1>5, <1>6

(***************************************************************************)
(* A call on its way                                                       *)
(***************************************************************************)

LEMMA PreflightKeeps == ASSUME Parts, NEW c \in Call, Preflight(c) PROVE Parts'
<1>. USE DEF Parts
<1>1. InFlight' = InFlight
  BY DEF Preflight, InFlight, CallsTyped, Stages
<1>2. CallsTyped'
  BY DEF Preflight, CallsTyped, Stages, Answers
<1>3. TimesTyped'
  BY TimesFacts DEF Preflight, clockVars, modeVars, idleVars, TimesTyped
<1>4. OwnerTyped' /\ UnknownUntilScanned'
  BY DEF Preflight, Heard, clockVars, modeVars, idleVars, OwnerTyped, UnknownUntilScanned
<1>5. Books'
  <2>1. c \notin InFlight /\ \A d \in InFlight : stage'[d] = stage[d]
    BY DEF Preflight, InFlight, CallsTyped
  <2>. QED  BY <1>1, <2>1 DEF Preflight, Books
<1>6. RanIsMarked'
  BY DEF Preflight, RanIsMarked, CallsTyped, InFlight, Books
<1>7. QuietIsReal' /\ QuietRetirementCutsNobody'
  BY <1>1, Counting DEF Preflight, clockVars, modeVars, idleVars, QuietIsReal,
     QuietRetirementCutsNobody, Books
<1>8. TimesInPlace'
  BY <1>1 DEF Preflight, clockVars, modeVars, idleVars, TimesInPlace, Books, InFlight
<1>9. ClientIsHeard'
  BY <1>1, TimesFacts DEF Preflight, clockVars, modeVars, idleVars, ClientIsHeard,
     Unheard, CallsTyped, TimesTyped, Books, InFlight
<1>. QED  BY <1>2, <1>3, <1>4, <1>5, <1>6, <1>7, <1>8, <1>9

LEMMA HeartbeatKeeps == ASSUME Parts, NEW c \in Call, Heartbeat(c) PROVE Parts'
<1>. USE DEF Parts
<1>1. InFlight' = InFlight
  BY DEF Heartbeat, InFlight, CallsTyped, Stages
<1>2. CallsTyped'
  BY DEF Heartbeat, CallsTyped, Stages, Answers
<1>3. TimesTyped'
  BY TimesFacts DEF Heartbeat, clockVars, modeVars, idleVars, TimesTyped
<1>4. OwnerTyped' /\ UnknownUntilScanned'
  BY DEF Heartbeat, clockVars, modeVars, idleVars, OwnerTyped, UnknownUntilScanned
<1>5. Books'
  BY <1>1, Counting DEF Heartbeat, Books, InFlight
<1>6. RanIsMarked'
  BY DEF Heartbeat, RanIsMarked, CallsTyped, InFlight, Books
<1>7. QuietIsReal' /\ QuietRetirementCutsNobody'
  BY <1>1, Counting DEF Heartbeat, clockVars, modeVars, idleVars, QuietIsReal,
     QuietRetirementCutsNobody, Books
<1>8. TimesInPlace'
  BY <1>1 DEF Heartbeat, clockVars, modeVars, idleVars, TimesInPlace, Books, InFlight
<1>9. ClientIsHeard'
  BY <1>1, TimesFacts DEF Heartbeat, clockVars, modeVars, idleVars, ClientIsHeard,
     Unheard, CallsTyped, TimesTyped, Books, InFlight
<1>. QED  BY <1>2, <1>3, <1>4, <1>5, <1>6, <1>7, <1>8, <1>9

LEMMA LeavesKeeps == ASSUME Parts, NEW c \in Call, Leaves(c) PROVE Parts'
<1>. USE DEF Parts
<1>1. InFlight' = InFlight
  BY DEF Leaves, InFlight, CallsTyped, Stages
<1>2. CallsTyped'
  BY DEF Leaves, CallsTyped, Stages, Answers
<1>3. TimesTyped'
  BY TimesFacts DEF Leaves, clockVars, modeVars, idleVars, TimesTyped
<1>4. OwnerTyped' /\ UnknownUntilScanned'
  BY DEF Leaves, clockVars, modeVars, idleVars, OwnerTyped, UnknownUntilScanned
<1>5. Books'
  BY <1>1, Counting DEF Leaves, Books, InFlight
<1>6. RanIsMarked'
  BY DEF Leaves, RanIsMarked, CallsTyped, InFlight, Books
<1>7. QuietIsReal' /\ QuietRetirementCutsNobody'
  BY <1>1, Counting DEF Leaves, clockVars, modeVars, idleVars, QuietIsReal,
     QuietRetirementCutsNobody, Books
<1>8. TimesInPlace'
  BY <1>1 DEF Leaves, clockVars, modeVars, idleVars, TimesInPlace, Books, InFlight
<1>9. ClientIsHeard'
  BY <1>1, TimesFacts DEF Leaves, clockVars, modeVars, idleVars, ClientIsHeard,
     Unheard, CallsTyped, TimesTyped, Books, InFlight
<1>. QED  BY <1>2, <1>3, <1>4, <1>5, <1>6, <1>7, <1>8, <1>9

LEMMA CallArrivesKeeps == ASSUME Parts, NEW c \in Call, CallArrives(c) PROVE Parts'
<1>. USE DEF Parts
<1>1. InFlight' = IF Admits THEN InFlight \cup {c} ELSE InFlight
  BY DEF CallArrives, Admits, InFlight, CallsTyped, Stages
<1>2. CallsTyped'
  BY DEF CallArrives, Admits, CallsTyped, Stages, Answers
<1>3. TimesTyped'
  BY TimesFacts DEF CallArrives, Admits, clockVars, modeVars, idleVars, TimesTyped
<1>4. OwnerTyped' /\ UnknownUntilScanned'
  BY DEF CallArrives, Admits, clockVars, modeVars, idleVars, OwnerTyped, UnknownUntilScanned
<1>5. Books'
  <2>1. c \notin InFlight /\ \A d \in InFlight : stage'[d] = stage[d]
    BY DEF CallArrives, InFlight, CallsTyped
  <2>2. CASE Admits
    <3>1. inFlight' = Cardinality(InFlight')
      BY <1>1, <2>1, <2>2, Counting DEF CallArrives, Books
    <3>. QED  BY <1>1, <2>1, <2>2, <3>1 DEF CallArrives, Books
  <2>3. CASE ~Admits
    BY <1>1, <2>1, <2>3 DEF CallArrives, Books
  <2>. QED  BY <2>2, <2>3
<1>6. RanIsMarked'
  BY DEF CallArrives, Admits, RanIsMarked, CallsTyped, InFlight, Books
<1>7. QuietIsReal' /\ QuietRetirementCutsNobody'
  BY <1>1, Counting DEF CallArrives, Admits, clockVars, modeVars, idleVars,
     QuietIsReal, QuietRetirementCutsNobody, Books
<1>8. TimesInPlace'
  BY <1>1 DEF CallArrives, Admits, clockVars, modeVars, idleVars, TimesInPlace, Books,
     InFlight
<1>9. ClientIsHeard'
  BY <1>1, TimesFacts DEF CallArrives, Admits, clockVars, modeVars, idleVars,
     ClientIsHeard, Unheard, CallsTyped, TimesTyped, Books, InFlight
<1>. QED  BY <1>2, <1>3, <1>4, <1>5, <1>6, <1>7, <1>8, <1>9

LEMMA BodyBeginsKeeps == ASSUME Parts, NEW c \in Call, BodyBegins(c) PROVE Parts'
<1>. USE DEF Parts
<1>1. InFlight' = InFlight
  BY DEF BodyBegins, WaitIsOver, InFlight, CallsTyped, Stages
<1>2. CallsTyped'
  BY DEF BodyBegins, WaitIsOver, CallsTyped, Stages, Answers
<1>3. TimesTyped'
  BY TimesFacts DEF BodyBegins, WaitIsOver, clockVars, modeVars, idleVars, TimesTyped
<1>4. OwnerTyped' /\ UnknownUntilScanned'
  BY DEF BodyBegins, WaitIsOver, clockVars, modeVars, idleVars, OwnerTyped, UnknownUntilScanned
<1>5. Books'
  <2>1. c \in InFlight /\ c \in waiting
    BY DEF BodyBegins, WaitIsOver, Abandoned, InFlight
  <2>2. \A d \in InFlight : d = c \/ stage'[d] = stage[d]
    BY DEF BodyBegins, InFlight, CallsTyped
  <2>. QED  BY <1>1, <2>1, <2>2 DEF BodyBegins, Books
<1>6. RanIsMarked'
  BY DEF BodyBegins, WaitIsOver, RanIsMarked, CallsTyped, InFlight, Books
<1>7. QuietIsReal' /\ QuietRetirementCutsNobody'
  BY <1>1, Counting DEF BodyBegins, WaitIsOver, clockVars, modeVars, idleVars,
     QuietIsReal, QuietRetirementCutsNobody, Books
<1>8. TimesInPlace'
  BY <1>1 DEF BodyBegins, WaitIsOver, clockVars, modeVars, idleVars, TimesInPlace,
     Books, InFlight
<1>9. ClientIsHeard'
  BY <1>1, TimesFacts DEF BodyBegins, WaitIsOver, clockVars, modeVars, idleVars,
     ClientIsHeard, Unheard, CallsTyped, TimesTyped, Books, InFlight
<1>. QED  BY <1>2, <1>3, <1>4, <1>5, <1>6, <1>7, <1>8, <1>9

LEMMA CallIsAnsweredKeeps == ASSUME Parts, NEW c \in Call, CallIsAnswered(c) PROVE Parts'
<1>. USE DEF Parts
<1>1. InFlight' = InFlight \ {c}
  BY DEF CallIsAnswered, Releases, AnswerTo, NeverBegan, InFlight, CallsTyped, Stages
<1>2. CallsTyped'
  <2>1. AnswerTo(c) \in Answers
    BY DEF CallIsAnswered, AnswerTo, Answers, CallsTyped, RanIsMarked
  <2>2. answer' = [answer EXCEPT ![c] = AnswerTo(c)]
    BY DEF CallIsAnswered
  <2>. QED  BY <2>1, <2>2 DEF CallIsAnswered, Releases, CallsTyped, Stages
<1>3. TimesTyped'
  BY TimesFacts DEF CallIsAnswered, Releases, AnswerTo, NeverBegan, clockVars,
     modeVars, idleVars, TimesTyped
<1>4. OwnerTyped' /\ UnknownUntilScanned'
  BY DEF CallIsAnswered, Releases, AnswerTo, NeverBegan, clockVars, modeVars,
     idleVars, OwnerTyped, UnknownUntilScanned
<1>5. Books'
  BY <1>1, Counting DEF CallIsAnswered, Releases, AnswerTo, NeverBegan, Books, InFlight
<1>6. RanIsMarked'
  BY DEF CallIsAnswered, Releases, AnswerTo, NeverBegan, RanIsMarked, CallsTyped,
     InFlight, Books
<1>7. QuietIsReal' /\ QuietRetirementCutsNobody'
  BY <1>1, Counting DEF CallIsAnswered, Releases, AnswerTo, NeverBegan, clockVars,
     modeVars, idleVars, QuietIsReal, QuietRetirementCutsNobody, Books
<1>8. TimesInPlace'
  BY <1>1 DEF CallIsAnswered, Releases, AnswerTo, NeverBegan, clockVars, modeVars,
     idleVars, TimesInPlace, Books, InFlight
<1>9. ClientIsHeard'
  BY <1>1, TimesFacts DEF CallIsAnswered, Releases, AnswerTo, NeverBegan, clockVars,
     modeVars, idleVars, ClientIsHeard, Unheard, CallsTyped, TimesTyped, Books,
     InFlight
<1>. QED  BY <1>2, <1>3, <1>4, <1>5, <1>6, <1>7, <1>8, <1>9

LEMMA ConnectionDroppedKeeps == ASSUME Parts, NEW c \in Call, ConnectionDropped(c) PROVE Parts'
<1>. USE DEF Parts
<1>1. InFlight' = InFlight
  BY DEF ConnectionDropped, InFlight, CallsTyped, Stages
<1>2. CallsTyped'
  BY DEF ConnectionDropped, CallsTyped, Stages, Answers
<1>3. TimesTyped'
  BY TimesFacts DEF ConnectionDropped, clockVars, modeVars, idleVars, TimesTyped
<1>4. OwnerTyped' /\ UnknownUntilScanned'
  BY DEF ConnectionDropped, clockVars, modeVars, idleVars, OwnerTyped, UnknownUntilScanned
<1>5. Books'
  BY <1>1, Counting DEF ConnectionDropped, Books, InFlight
<1>6. RanIsMarked'
  BY DEF ConnectionDropped, RanIsMarked, CallsTyped, InFlight, Books
<1>7. QuietIsReal' /\ QuietRetirementCutsNobody'
  BY <1>1, Counting DEF ConnectionDropped, clockVars, modeVars, idleVars, QuietIsReal,
     QuietRetirementCutsNobody, Books
<1>8. TimesInPlace'
  BY <1>1 DEF ConnectionDropped, clockVars, modeVars, idleVars, TimesInPlace, Books,
     InFlight
<1>9. ClientIsHeard'
  BY <1>1, TimesFacts DEF ConnectionDropped, clockVars, modeVars, idleVars,
     ClientIsHeard, Unheard, CallsTyped, TimesTyped, Books, InFlight
<1>. QED  BY <1>2, <1>3, <1>4, <1>5, <1>6, <1>7, <1>8, <1>9

\* A call's task ends, and only a silent client's call is given up.
LEMMA TaskEndsKeeps ==
  ASSUME Parts, NEW c \in Call, stage[c] \in {"queued", "running"},
         NEW how \in {"result", "cancelled", "abandoned"}, TaskEnds(c, how),
         how = "abandoned" => c \notin wanted
  PROVE  Parts'
<1>. USE DEF Parts
<1>1. InFlight' = InFlight
  BY DEF TaskEnds, InFlight, CallsTyped, Stages
<1>2. CallsTyped'
  BY DEF TaskEnds, CallsTyped, Stages
<1>3. TimesTyped' /\ OwnerTyped' /\ UnknownUntilScanned'
  BY DEF TaskEnds, clockVars, modeVars, idleVars, TimesTyped, OwnerTyped, UnknownUntilScanned
<1>4. Books'
  <2>1. \A d \in InFlight : stage'[d] # "ended" => stage'[d] = stage[d]
    BY DEF TaskEnds, InFlight, CallsTyped
  <2>. QED  BY <1>1, <2>1 DEF TaskEnds, Books
<1>5. RanIsMarked'
  BY DEF TaskEnds, RanIsMarked, CallsTyped
<1>6. QuietIsReal' /\ QuietRetirementCutsNobody'
  BY <1>1 DEF TaskEnds, modeVars, idleVars, QuietIsReal, QuietRetirementCutsNobody
<1>7. TimesInPlace'
  BY <1>1 DEF TaskEnds, clockVars, modeVars, TimesInPlace
<1>8. ClientIsHeard'
  BY <1>1 DEF TaskEnds, clockVars, modeVars, ClientIsHeard, Unheard, CallsTyped
<1>. QED  BY <1>2, <1>3, <1>4, <1>5, <1>6, <1>7, <1>8

\* A client that waits is not out of hearing for longer than the expiry.
LEMMA HeardInTime ==
  ASSUME Parts, NEW c \in wanted, c \in waiting \ cancelling, ~(scanned /\ stale)
  PROVE  unheard[c] <= Expiry
<1>. USE DEF Parts
<1>1. unheard[c] <= Unheard(c)
  BY DEF ClientIsHeard
<1>2. silence[c] \in Nat /\ silence[c] <= Slack /\ unheard[c] \in Nat
  BY TimesFacts DEF TimesTyped, CallsTyped
<1>3. CASE mode = "stopping"
  BY <1>1, <1>2, <1>3, TimesFacts DEF Unheard, TimesInPlace, TimesTyped
<1>4. CASE mode # "stopping"
  BY <1>1, <1>2, <1>4, TimesFacts DEF Unheard
<1>. QED  BY <1>3, <1>4

LEMMA CallEndsKeep ==
  ASSUME Parts, NEW c \in Call, Declines(c) \/ Ends(c) \/ CancellationLands(c) PROVE Parts'
<1>1. CASE Declines(c)
  <2>1. stage[c] = "queued" /\ c \notin cancelling /\ Abandoned(c) /\ TaskEnds(c, "abandoned")
    BY <1>1 DEF Declines, WaitIsOver
  <2>2. c \in waiting
    BY <2>1 DEF Parts, Books, InFlight
  <2>3. ~(scanned /\ stale) /\ unheard[c] > Expiry
    BY <2>1, <2>2 DEF Abandoned
  <2>4. unheard[c] \in Nat
    BY TimesFacts DEF Parts, TimesTyped
  <2>5. c \notin wanted
    BY <2>1, <2>2, <2>3, <2>4, HeardInTime, TimesFacts
  <2>. QED  BY <2>1, <2>5, TaskEndsKeeps
<1>2. CASE Ends(c)
  BY <1>2, TaskEndsKeeps DEF Ends
<1>3. CASE CancellationLands(c)
  BY <1>3, TaskEndsKeeps DEF CancellationLands
<1>. QED  BY <1>1, <1>2, <1>3

(***************************************************************************)
(* The scan                                                                *)
(***************************************************************************)

\* A scan stops only calls nobody waits for.
LEMMA ScanKeeps ==
  ASSUME Parts, Scans, UNCHANGED <<unscannedVars, elapsed>>,
         \/ mode \in {"starting", "serving", "draining"} /\ mode' = mode
         \/ mode = "serving" /\ mode' = "stopping"
  PROVE  /\ CallsTyped' /\ TimesTyped' /\ Books' /\ RanIsMarked' /\ QuietIsReal'
         /\ TimesInPlace' /\ UnknownUntilScanned' /\ ClientIsHeard' /\ InFlight' = InFlight
<1>. USE DEF Parts
<1>1. InFlight' = InFlight
  BY DEF unscannedVars, InFlight
<1>2. WrittenOff \subseteq waiting
  BY DEF WrittenOff
<1>3. /\ waiting' \subseteq waiting /\ cancelling \subseteq cancelling'
      /\ cancelling' \subseteq cancelling \cup waiting
      /\ waiting \subseteq waiting' \cup cancelling'
      /\ waiting' \cap cancelling' \subseteq waiting \cap cancelling
  BY <1>2 DEF Scans
<1>4. CallsTyped'
  BY <1>3 DEF unscannedVars, CallsTyped
<1>5. TimesTyped'
  <2>1. unheard' \in [Call -> 0..(Expiry + 1)]
    BY TimesFacts DEF Scans, TimesTyped
  <2>. QED  BY <2>1 DEF unscannedVars, idleVars, TimesTyped
<1>6. Books'
  BY <1>1, <1>3 DEF unscannedVars, Books
<1>7. RanIsMarked' /\ QuietIsReal'
  BY DEF unscannedVars, idleVars, RanIsMarked, QuietIsReal
<1>8. TimesInPlace'
  BY <1>1, <1>3, TimesFacts DEF unscannedVars, TimesInPlace, Books
<1>9. UnknownUntilScanned'
  BY DEF Scans, UnknownUntilScanned
<1>10. ClientIsHeard'
  <2>. SUFFICES ASSUME NEW c \in wanted'
                PROVE  /\ answer'[c] # "abandoned" /\ ended'[c] # "abandoned"
                       /\ c \in InFlight' => c \in waiting' \cup cut' \cup dropped'
                       /\ c \in waiting' \ cancelling' /\ ~(scanned' /\ stale') =>
                            unheard'[c] <= Unheard(c)'
    BY DEF ClientIsHeard
  <2>1. c \in wanted /\ c \in Call
    BY DEF unscannedVars, CallsTyped
  <2>2. answer'[c] # "abandoned" /\ ended'[c] # "abandoned"
    BY <2>1 DEF unscannedVars, ClientIsHeard
  <2>3. mode # "stopping" /\ dropped = {} /\ waiting \cap cancelling = {}
    BY DEF TimesInPlace
  <2>4. silence[c] \in Nat /\ Unheard(c) = silence[c] /\ Unheard(c)' = silence[c]
    BY <2>1, <2>3, TimesFacts DEF Unheard, unscannedVars, TimesTyped, TimesInPlace
  <2>5. CASE scanned /\ stale
    <3>1. waiting' = waiting /\ \A d \in waiting : unheard'[d] = 0
      BY <2>5 DEF Scans, CallsTyped
    <3>. QED  BY <1>1, <2>1, <2>2, <2>4, <3>1 DEF unscannedVars, ClientIsHeard
  <2>6. CASE ~(scanned /\ stale)
    <3>1. c \in waiting => unheard[c] <= Expiry /\ unheard[c] <= silence[c]
      BY <2>1, <2>3, <2>4, <2>6, HeardInTime DEF ClientIsHeard
    <3>2. c \in waiting => c \notin WrittenOff
      BY <2>1, <3>1, TimesFacts DEF WrittenOff, TimesTyped
    <3>3. waiting' = waiting \ WrittenOff /\ unheard' = unheard
      BY <2>6 DEF Scans
    <3>. QED  BY <1>1, <2>1, <2>2, <2>4, <3>1, <3>2, <3>3 DEF unscannedVars,
       ClientIsHeard
  <2>. QED  BY <2>5, <2>6
<1>. QED  BY <1>1, <1>4, <1>5, <1>6, <1>7, <1>8, <1>9, <1>10

LEMMA ScansKeep ==
  ASSUME Parts, ScansBeforeServing \/ Looks \/ DrainLooks PROVE Parts'
<1>1. /\ Scans /\ UNCHANGED <<unscannedVars, elapsed>>
      /\ \/ mode \in {"starting", "serving", "draining"} /\ mode' = mode /\ retired' = retired
         \/ /\ mode = "serving" /\ mode' = "stopping" /\ ~Busy /\ inFlight = 0
            /\ retired' = IF retired = "no" THEN "idle" ELSE retired
  BY DEF ScansBeforeServing, Looks, DrainLooks, IdleLongEnough, Retires
<1>2. /\ CallsTyped' /\ TimesTyped' /\ Books' /\ RanIsMarked' /\ QuietIsReal'
      /\ TimesInPlace' /\ UnknownUntilScanned' /\ ClientIsHeard' /\ InFlight' = InFlight
  BY <1>1, ScanKeeps
<1>3. OwnerTyped'
  BY <1>1 DEF Scans, unscannedVars, idleVars, Parts, OwnerTyped
<1>4. QuietRetirementCutsNobody'
  BY <1>1, <1>2, Counting DEF unscannedVars, idleVars, Busy, Parts, Books,
     QuietRetirementCutsNobody
<1>. QED  BY <1>2, <1>3, <1>4 DEF Parts

(***************************************************************************)
(* The end of the owner, and time                                          *)
(***************************************************************************)

LEMMA DrainEndsKeeps == ASSUME Parts, DrainEnds PROVE Parts'
<1>. USE DEF Parts
<1>1. InFlight' = InFlight
  BY DEF DrainEnds, InFlight
<1>2. CallsTyped'
  BY DEF DrainEnds, CallsTyped
<1>3. TimesTyped' /\ OwnerTyped' /\ UnknownUntilScanned'
  BY DEF DrainEnds, idleVars, TimesTyped, OwnerTyped, UnknownUntilScanned
<1>4. Books'
  BY <1>1 DEF DrainEnds, Books
<1>5. RanIsMarked' /\ QuietIsReal' /\ QuietRetirementCutsNobody'
  BY <1>1 DEF DrainEnds, idleVars, RanIsMarked, QuietIsReal, QuietRetirementCutsNobody
<1>6. TimesInPlace'
  BY <1>1, TimesFacts DEF DrainEnds, TimesInPlace, Books
<1>7. ClientIsHeard'
  BY <1>1 DEF DrainEnds, ClientIsHeard, Books
<1>. QED  BY <1>2, <1>3, <1>4, <1>5, <1>6, <1>7

LEMMA ProcessEndsKeeps == ASSUME Parts, ProcessEnds PROVE Parts'
<1>. USE DEF Parts
<1>1. stage' \in [Call -> Stages] /\ \A c \in Call : stage'[c] \in {"new", "answered"}
  BY DEF ProcessEnds, CallsTyped, Stages
<1>2. InFlight' = {}
  BY <1>1 DEF InFlight
<1>3. answer' \in [Call -> Answers] /\ \A c \in Call : answer'[c] \in {answer[c], "lost"}
  BY DEF ProcessEnds, CallsTyped, Answers
<1>4. CallsTyped'
  BY <1>1, <1>3 DEF ProcessEnds, CallsTyped
<1>5. TimesTyped'
  BY TimesFacts DEF ProcessEnds, TimesTyped
<1>6. OwnerTyped' /\ UnknownUntilScanned'
  BY DEF ProcessEnds, OwnerTyped, UnknownUntilScanned
<1>7. Books' /\ QuietIsReal' /\ QuietRetirementCutsNobody'
  BY <1>2, FS_EmptySet, TimesFacts DEF ProcessEnds, Books, QuietIsReal,
     QuietRetirementCutsNobody
<1>8. RanIsMarked'
  <2>1. \A c \in Call : stage[c] \in {"running", "ended", "answered"} => stage'[c] = "answered"
    BY DEF ProcessEnds, CallsTyped
  <2>2. \A c \in Call : answer'[c] # "none" => answer[c] # "none" \/ stage'[c] = "answered"
    BY DEF ProcessEnds, CallsTyped
  <2>. QED  BY <1>1, <1>3, <2>1, <2>2 DEF ProcessEnds, RanIsMarked, CallsTyped
<1>9. TimesInPlace'
  BY DEF ProcessEnds, TimesInPlace
<1>10. ClientIsHeard'
  BY <1>2, <1>3 DEF ProcessEnds, ClientIsHeard, CallsTyped
<1>. QED  BY <1>4, <1>5, <1>6, <1>7, <1>8, <1>9, <1>10

LEMMA StallsKeep == ASSUME Parts, Stalls \/ Resumes PROVE Parts'
<1>. USE DEF Parts
<1>1. UNCHANGED callVars /\ InFlight' = InFlight /\ CallsTyped' /\ Books' /\ RanIsMarked'
  BY CallsAlone DEF Stalls, Resumes
<1>2. TimesTyped' /\ OwnerTyped'
  <2>1. stalls' \in 0..MaxStalls /\ UNCHANGED <<elapsed, idleVars>>
    BY TimesFacts DEF Stalls, Resumes, TimesTyped
  <2>2. TimesTyped'
    BY <1>1, <2>1, CallsAlone DEF idleVars, TimesTyped
  <2>3. OwnerTyped'
    BY DEF Stalls, Resumes, modeVars, idleVars, OwnerTyped
  <2>. QED  BY <2>2, <2>3
<1>3. QuietIsReal' /\ QuietRetirementCutsNobody' /\ TimesInPlace'
  BY <1>1 DEF Stalls, Resumes, callVars, modeVars, idleVars, QuietIsReal,
     QuietRetirementCutsNobody, TimesInPlace
<1>4. UnknownUntilScanned'
  BY DEF Stalls, Resumes, callVars, UnknownUntilScanned
<1>5. ClientIsHeard'
  BY <1>1 DEF Stalls, Resumes, callVars, modeVars, ClientIsHeard, Unheard
<1>. QED  BY <1>1, <1>2, <1>3, <1>4, <1>5

LEMMA OneMoreFacts ==
  ASSUME NEW n \in Nat, NEW most \in Nat
  PROVE  /\ OneMore(n, most) \in Nat /\ OneMore(n, most) <= n + 1
         /\ n <= most => OneMore(n, most) <= most
         /\ n < most => OneMore(n, most) = n + 1
         /\ OneMore(n, most) >= n
BY DEF OneMore

LEMMA TickKeeps == ASSUME Parts, Tick PROVE Parts'
<1>. USE DEF Parts
<1>1. InFlight' = InFlight
  BY DEF Tick, InFlight
<1>2. CallsTyped' /\ Books' /\ RanIsMarked'
  BY <1>1 DEF Tick, CallsTyped, Books, RanIsMarked
<1>3. OwnerTyped' /\ UnknownUntilScanned' /\ QuietRetirementCutsNobody'
  BY <1>1 DEF Tick, modeVars, OwnerTyped, UnknownUntilScanned, QuietRetirementCutsNobody
<1>4. unheard' \in [Call -> 0..(Expiry + 1)]
  BY TimesFacts DEF Tick, OneMore, TimesTyped
<1>5. silence' \in [Call -> 0..Slack]
  BY TimesFacts DEF Tick, TimesTyped, Beating
<1>6. elapsed' \in Nat /\ (mode = "stopping" => elapsed' <= StopGrace)
      /\ (mode \in {"starting", "serving"} => elapsed' = 0)
  BY TimesFacts, OneMoreFacts DEF Tick, TimesTyped, TimesInPlace
<1>7. quiet' \in NotQuiet..Grace /\ lull' \in 0..Grace
  BY TimesFacts DEF Tick, OneMore, TimesTyped
<1>8. TimesTyped'
  BY <1>4, <1>5, <1>6, <1>7 DEF Tick, TimesTyped
<1>9. QuietIsReal'
  BY TimesFacts DEF Tick, OneMore, TimesTyped, QuietIsReal
<1>10. TimesInPlace'
  BY <1>1, <1>6 DEF Tick, modeVars, TimesInPlace
<1>11. ClientIsHeard'
  <2>. SUFFICES ASSUME NEW c \in wanted, c \in waiting \ cancelling,
                       ~(scanned' /\ stale')
                PROVE  unheard'[c] <= Unheard(c)'
    BY <1>1 DEF Tick, ClientIsHeard
  <2>1. ~(scanned /\ stale) /\ awake
    <3>1. stage[c] # "new" /\ c \in Call
      BY DEF Books, InFlight
    <3>2. scanned
      BY <3>1 DEF UnknownUntilScanned
    <3>. QED  BY <3>2 DEF Tick, OwnerTyped
  <2>2. unheard[c] <= Unheard(c) /\ c \in Call /\ unheard[c] \in Nat /\ silence[c] \in Nat
    BY <2>1, TimesFacts DEF ClientIsHeard, CallsTyped, TimesTyped
  <2>3. unheard'[c] <= unheard[c] + 1
    BY <2>2, OneMoreFacts, TimesFacts DEF Tick
  <2>4. c \in InFlight /\ c \in Beating
    BY DEF Books, Beating, InFlight
  <2>5. CASE mode = "stopping"
    <3>1. c \notin dropped
      BY DEF TimesInPlace
    <3>2. elapsed # StopGrace
      BY <2>1, <2>4, <2>5, <3>1 DEF Tick
    <3>3. elapsed' = elapsed + 1
      BY <2>5, <3>2, OneMoreFacts, TimesFacts DEF Tick, TimesInPlace, TimesTyped
    <3>4. silence'[c] = silence[c] /\ mode' = mode
      BY <2>2, <2>5 DEF Tick, modeVars
    <3>. QED  BY <1>4, <2>2, <2>3, <2>5, <3>3, <3>4, TimesFacts DEF Unheard, TimesTyped
  <2>6. CASE mode # "stopping"
    <3>1. silence'[c] = silence[c] + 1 /\ mode' = mode
      BY <2>1, <2>2, <2>4, <2>6 DEF Tick, modeVars
    <3>. QED  BY <1>4, <2>2, <2>3, <2>6, <3>1, TimesFacts DEF Unheard
  <2>. QED  BY <2>5, <2>6
<1>. QED  BY <1>2, <1>3, <1>8, <1>9, <1>10, <1>11

(***************************************************************************)
(* What an owner promises about a request                                  *)
(***************************************************************************)

\* Calls are cut only by an owner that has closed admission.
CutsInRetirement == mode = "draining" \/ cut # {} => retired # "no"

\* Closed admission stays closed, and only a drain cuts calls.
LEMMA CutsStayInRetirement == CutsInRetirement /\ [Next]_vars => CutsInRetirement'
<1>. SUFFICES ASSUME CutsInRetirement, [Next]_vars PROVE CutsInRetirement'
  OBVIOUS
<1>. USE DEF CutsInRetirement
<1>1. CASE UNCHANGED vars
  BY <1>1 DEF vars, callVars, modeVars
<1>2. ASSUME NEW c \in Call, CallStep(c) PROVE CutsInRetirement'
  <2>1. mode' = mode /\ retired' = retired /\ cut' \subseteq cut
    BY <1>2 DEF CallStep, Preflight, Heartbeat, Leaves, CallArrives, BodyBegins, Declines,
       Ends, CancellationLands, TaskEnds, CallIsAnswered, Releases, UsesSetup,
       ConnectionDropped, modeVars, callVars
  <2>. QED  BY <2>1
<1>3. CASE StandDownAsked \/ RetireAsked \/ StandsDownWedged \/ TurnsOver \/ Looks
  <2>1. cut' = cut /\ (retired' = retired \/ retired' # "no")
    BY <1>3 DEF StandDownAsked, RetireAsked, StandsDownWedged, TurnsOver, Looks, Retires,
       callVars, unscannedVars
  <2>2. mode' = "draining" => mode = "draining" \/ retired' # "no"
    BY <1>3 DEF StandDownAsked, RetireAsked, StandsDownWedged, TurnsOver, Looks, Retires
  <2>. QED  BY <2>1, <2>2
<1>4. CASE SetupEnds \/ Wedges \/ ScansBeforeServing \/ GoesLive \/ DrainLooks \/ Stalls
           \/ Resumes \/ Tick
  <2>1. cut' = cut /\ retired' = retired /\ (mode' = mode \/ mode' = "serving")
    BY <1>4 DEF SetupEnds, Wedges, ScansBeforeServing, GoesLive, DrainLooks, Stalls, Resumes,
       Tick, callVars, modeVars, unscannedVars
  <2>. QED  BY <2>1
<1>5. CASE DrainEnds \/ ProcessEnds
  BY <1>5 DEF DrainEnds, ProcessEnds
<1>. QED  BY <1>1, <1>2, <1>3, <1>4, <1>5 DEF Next, OwnerStep

PromiseStep == [Promise!Next]_<<Seen, [c \in Call |-> Standing(c)]>>

\* A step that touches neither how far the calls are nor what the owner is.
LEMMA NothingPromised ==
  ASSUME Seen' = Seen, \A c \in Call : Standing(c)' = Standing(c) PROVE PromiseStep
BY DEF PromiseStep, Promise!promiseVars

\* One call gets on.
LEMMA OneGetsOn ==
  ASSUME NEW c \in Call, NEW what, Standing(c)' = what, Seen' = Seen,
         \A d \in Call \ {c} : Standing(d)' = Standing(d)
  PROVE  Promise!Becomes(c, what)
BY DEF Promise!Becomes

\* The steps that leave every call alone close admission at most.
LEMMA OwnersStepIsPromised ==
  ASSUME Parts, UNCHANGED <<stage, answer, ran>>,
         mode' = mode \/ (mode # "exited" /\ mode' # "exited"),
         retired' = retired \/ (mode # "exited" /\ retired = "no")
  PROVE  PromiseStep
<1>1. \A c \in Call : Standing(c)' = Standing(c)
  BY DEF Standing
<1>2. CASE Seen' = Seen
  BY <1>1, <1>2, NothingPromised
<1>3. CASE Seen' # Seen
  <2>1. Seen = "up" /\ Seen' = "retiring"
    BY <1>3 DEF Seen
  <2>2. Promise!Retires
    BY <1>1, <2>1 DEF Promise!Retires, Promise!MayRetire
  <2>. QED  BY <2>2 DEF PromiseStep, Promise!Next, Promise!promiseVars
<1>. QED  BY <1>2, <1>3

LEMMA CallsStepIsPromised ==
  ASSUME Parts, CutsInRetirement, NEW c \in Call, CallStep(c) PROVE PromiseStep
<1>. USE DEF Parts, CallsTyped
<1>1. Seen' = Seen /\ \A d \in Call \ {c} : Standing(d)' = Standing(d)
  <2>1. mode' = mode /\ retired' = retired
    BY DEF CallStep, Preflight, Heartbeat, Leaves, CallArrives, BodyBegins, Declines,
       Ends, CancellationLands, TaskEnds, CallIsAnswered, UsesSetup,
       ConnectionDropped, modeVars
  <2>2. \A d \in Call \ {c} :
          stage'[d] = stage[d] /\ answer'[d] = answer[d] /\ (d \in ran' <=> d \in ran)
    BY DEF CallStep, Preflight, Heartbeat, Leaves, CallArrives, BodyBegins, Declines,
       Ends, CancellationLands, TaskEnds, CallIsAnswered, UsesSetup,
       ConnectionDropped, callVars
  <2>. QED  BY <2>1, <2>2 DEF Seen, Standing
<1>2. CASE Preflight(c)
  <2>1. Standing(c) = "unsent" /\ Standing(c)' = "sent"
    BY <1>2 DEF Preflight, Standing
  <2>2. Promise!Sends(c)
    BY <1>1, <2>1, OneGetsOn DEF Promise!Sends
  <2>. QED  BY <2>2 DEF PromiseStep, Promise!Next, Promise!promiseVars
<1>3. CASE CallArrives(c)
  <2>1. Standing(c) = "sent" /\ Runs
    BY <1>3 DEF CallArrives, Standing
  <2>2. CASE Admits
    <3>1. Seen = "up"
      BY <2>1, <2>2 DEF Seen, Runs, Admits
    <3>2. Standing(c)' = "taken"
      BY <1>3, <2>2 DEF CallArrives, Standing, RanIsMarked
    <3>3. Promise!Takes(c)
      BY <1>1, <2>1, <3>1, <3>2, OneGetsOn DEF Promise!Takes, Promise!MayTake
    <3>. QED  BY <3>3 DEF PromiseStep, Promise!Next, Promise!promiseVars
  <2>3. CASE ~Admits
    <3>1. Seen = "retiring"
      BY <2>1, <2>3 DEF Seen, Runs, Admits
    <3>2. Standing(c)' = "refused"
      BY <1>3, <2>3 DEF CallArrives, Standing
    <3>3. Promise!Refuses(c)
      BY <1>1, <2>1, <3>1, <3>2, OneGetsOn DEF Promise!Refuses, Promise!MayRefuse
    <3>. QED  BY <3>3 DEF PromiseStep, Promise!Next, Promise!promiseVars
  <2>. QED  BY <2>2, <2>3
<1>4. CASE BodyBegins(c)
  <2>1. Standing(c) = "taken" /\ Standing(c)' = "acted"
    BY <1>4 DEF BodyBegins, WaitIsOver, Standing, RanIsMarked
  <2>2. Seen \in {"up", "retiring"}
    BY <1>4 DEF BodyBegins, WaitIsOver, Runs, Seen
  <2>3. Promise!Acts(c)
    BY <1>1, <2>1, <2>2, OneGetsOn DEF Promise!Acts, Promise!MayAct, Promise!Running
  <2>. QED  BY <2>3 DEF PromiseStep, Promise!Next, Promise!promiseVars
<1>5. CASE CallIsAnswered(c)
  <2>1. /\ Runs /\ stage[c] = "ended" /\ stage'[c] = "answered" /\ answer'[c] = AnswerTo(c)
    BY <1>5 DEF CallIsAnswered
  <2>2. Seen \in {"up", "retiring"}
    BY <2>1 DEF Runs, Seen
  <2>3. CASE AnswerTo(c) = "retiring"
    <3>1. c \in cut /\ c \notin began
      BY <2>3 DEF AnswerTo, NeverBegan
    <3>2. Seen = "retiring"
      BY <2>2, <3>1 DEF CutsInRetirement, Seen
    <3>3. Standing(c) = "taken" /\ Standing(c)' = "refused"
      BY <2>1, <2>3, <3>1 DEF Standing, RanIsMarked
    <3>4. Promise!Refuses(c)
      BY <1>1, <3>2, <3>3, OneGetsOn DEF Promise!Refuses, Promise!MayRefuse
    <3>. QED  BY <3>4 DEF PromiseStep, Promise!Next, Promise!promiseVars
  <2>4. CASE AnswerTo(c) # "retiring"
    <3>1. Standing(c) \in {"taken", "acted"} /\ Standing(c)' = "over"
      BY <2>1, <2>4 DEF Standing
    <3>2. Promise!Answers(c)
      BY <1>1, <2>2, <3>1, OneGetsOn DEF Promise!Answers, Promise!MayAnswer, Promise!Running
    <3>. QED  BY <3>2 DEF PromiseStep, Promise!Next, Promise!promiseVars
  <2>. QED  BY <2>3, <2>4
<1>6. CASE \/ Heartbeat(c) \/ Leaves(c) \/ Declines(c) \/ Ends(c) \/ CancellationLands(c)
           \/ UsesSetup(c) \/ ConnectionDropped(c)
  <2>1. /\ answer' = answer /\ ran' = ran
        /\ \/ stage' = stage
           \/ stage[c] \in {"queued", "running"} /\ stage' = [stage EXCEPT ![c] = "ended"]
    BY <1>6 DEF Heartbeat, Leaves, Declines, WaitIsOver, Ends, CancellationLands, TaskEnds,
       UsesSetup, ConnectionDropped, callVars
  <2>2. Standing(c)' = Standing(c)
    BY <2>1 DEF Standing
  <2>. QED  BY <1>1, <2>2, NothingPromised
<1>. QED  BY <1>2, <1>3, <1>4, <1>5, <1>6 DEF CallStep

\* What the owner had not answered when its process ends it never will.
LEMMA EndingIsPromised == ASSUME Parts, ProcessEnds PROVE PromiseStep
<1>1. Seen # "gone" /\ Seen' = "gone"
  BY DEF ProcessEnds, Seen
<1>2. ASSUME NEW c \in Call
      PROVE  Standing(c)' = IF Standing(c) \in {"sent", "taken", "acted"} THEN "over"
                            ELSE Standing(c)
  <2>1. stage[c] \in Stages
    BY DEF Parts, CallsTyped
  <2>2. CASE stage[c] \in {"new", "answered"}
    <3>1. stage'[c] = stage[c] /\ answer'[c] = answer[c]
      BY <2>2 DEF ProcessEnds
    <3>. QED  BY <2>2, <3>1 DEF Standing
  <2>3. CASE stage[c] \notin {"new", "answered"}
    <3>1. stage'[c] = "answered" /\ answer'[c] = "lost"
      BY <2>3 DEF ProcessEnds
    <3>. QED  BY <2>1, <2>3, <3>1 DEF Standing, Stages
  <2>. QED  BY <2>2, <2>3
<1>3. Promise!Goes
  BY <1>1, <1>2 DEF Promise!Goes, Promise!MayGo
<1>. QED  BY <1>3 DEF PromiseStep, Promise!Next, Promise!promiseVars

(***************************************************************************)
(* Theorems                                                                *)
(***************************************************************************)

LEMMA StepKeeps == IInv /\ [Next]_vars => IInv'
<1>. SUFFICES ASSUME Parts, [Next]_vars PROVE Parts'
  BY InvariantParts
<1>1. CASE UNCHANGED vars
  <2>1. UNCHANGED <<callVars, clockVars, modeVars, idleVars>>
    BY <1>1 DEF vars
  <2>2. InFlight' = InFlight /\ CallsTyped' /\ Books' /\ RanIsMarked'
    BY <2>1, CallsAlone
  <2>3. TimesInPlace' /\ UnknownUntilScanned' /\ ClientIsHeard'
    BY <2>1, ClocksAlone DEF modeVars
  <2>4. TimesTyped' /\ OwnerTyped' /\ QuietIsReal' /\ QuietRetirementCutsNobody'
    BY <2>1, <2>2 DEF callVars, clockVars, modeVars, idleVars, Parts, TimesTyped,
       OwnerTyped,
       QuietIsReal, QuietRetirementCutsNobody
  <2>. QED  BY <2>2, <2>3, <2>4 DEF Parts
<1>2. ASSUME NEW c \in Call, CallStep(c) PROVE Parts'
  BY <1>2, PreflightKeeps, HeartbeatKeeps, LeavesKeeps, CallArrivesKeeps,
     BodyBeginsKeeps,
     CallEndsKeep, CallIsAnsweredKeeps, UsesSetupKeeps, ConnectionDroppedKeeps DEF CallStep
<1>3. CASE OwnerStep
  BY <1>3, SetupEndsKeeps, StandDownAskedKeeps, RetireAskedKeeps, WedgesKeeps,
     GoesLiveKeeps,
     StandsDownWedgedKeeps, TurnsOverKeeps, ScansKeep, DrainEndsKeeps, ProcessEndsKeeps
     DEF OwnerStep
<1>. QED  BY <1>1, <1>2, <1>3, StallsKeep, TickKeeps DEF Next

\* The inductive invariant: the books, the marks and the clocks of every call.
THEOREM BooksAlways == Spec => []IInv
BY Initially, StepKeeps, PTL DEF Spec

\* Every variable keeps its type, and every call in flight is counted once and can
\* be reached by a heartbeat or is being stopped.
THEOREM CallsAreTyped == Spec => []TypeOK
BY BooksAlways, PTL DEF IInv

\* No call that a client is told to repeat ever began its tool body.
THEOREM RepeatsAreSafe == Spec => []RepeatableMeansNotRun
<1>1. IInv => RepeatableMeansNotRun
  BY DEF IInv, RanIsMarked, RepeatableMeansNotRun
<1>. QED  BY <1>1, BooksAlways, PTL

\* An owner that retired because nothing needed it has no call and no setup.
THEOREM QuietRetirements == Spec => []QuietRetirementCutsNobody
BY BooksAlways, PTL DEF IInv

\* No stall of the owner, queue or stand-down is ever taken for the silence of a
\* client that still waits.
THEOREM WaitingClients == Spec => []WaitingClientIsKept
<1>1. IInv => WaitingClientIsKept
  BY DEF IInv, ClientIsHeard, WaitingClientIsKept
<1>. QED  BY <1>1, BooksAlways, PTL

\* The idle exit waits for as much real idleness as it is configured to.
THEOREM IdleExits == Spec => IdleExitIsEarned
<1>1. ASSUME IInv, Next, retired = "no", retired' = "idle" PROVE lull >= IdleRequired
  <2>1. CASE Looks
    <3>1. inFlight = 0 /\ quiet # NotQuiet /\ quiet >= IdleRequired /\ setup # "running"
      BY <1>1, <2>1 DEF Looks, IdleLongEnough, Busy
    <3>2. quiet <= lull
      BY <1>1, <3>1 DEF IInv, QuietIsReal
    <3>3. quiet \in Int /\ lull \in Int /\ IdleRequired \in Int
      BY <1>1, TimesFacts DEF IInv, TypeOK, IdleRequired
    <3>. QED  BY <3>1, <3>2, <3>3
  <2>2. ASSUME NEW c \in Call, CallStep(c) PROVE FALSE
    BY <1>1, <2>2 DEF CallStep, Preflight, Heartbeat, Leaves, CallArrives, BodyBegins,
       Declines,
       Ends, CancellationLands, TaskEnds, CallIsAnswered, UsesSetup, ConnectionDropped, modeVars
  <2>3. CASE Next /\ ~Looks /\ ~\E c \in Call : CallStep(c)
    BY <1>1, <2>3 DEF Next, OwnerStep, SetupEnds, StandDownAsked, RetireAsked, Wedges,
       Retires,
       ScansBeforeServing, GoesLive, StandsDownWedged, TurnsOver, DrainLooks, DrainEnds,
       ProcessEnds, Stalls, Resumes, Tick, modeVars
  <2>. QED  BY <1>1, <2>1, <2>2, <2>3
<1>2. IInv /\ [Next]_vars => [retired = "no" /\ retired' = "idle" => lull >= IdleRequired]_vars
  BY <1>1
<1>. QED  BY <1>2, BooksAlways, PTL DEF Spec, IdleExitIsEarned

\* OwnerCalls implements OwnerPromise, with the terms that CallRecovery counts on:
\* whatever retires the owner and whenever, it begins the body of a request once at
\* most, refuses as one that never ran only what did not run and never will, and
\* opens admission never again.
THEOREM OwnerKeepsItsPromise == Spec => KeepsItsPromise
<1>1. Init => Promise!Init /\ CutsInRetirement
  <2>. SUFFICES ASSUME Init PROVE Promise!Init /\ CutsInRetirement
    OBVIOUS
  <2>1. Seen = "up" /\ \A c \in Call : Standing(c) = "unsent"
    BY DEF Init, Seen, Standing
  <2>. QED  BY <2>1 DEF Init, Promise!Init, CutsInRetirement
<1>2. IInv /\ CutsInRetirement /\ [Next]_vars => PromiseStep
  <2>. SUFFICES ASSUME Parts, CutsInRetirement, [Next]_vars PROVE PromiseStep
    BY InvariantParts
  <2>1. CASE UNCHANGED vars
    BY <2>1, OwnersStepIsPromised DEF vars, callVars, modeVars
  <2>2. CASE SetupEnds \/ Wedges \/ ScansBeforeServing \/ GoesLive \/ DrainLooks \/ DrainEnds
             \/ Stalls \/ Resumes \/ Tick
    <3>1. UNCHANGED <<stage, answer, ran, retired>>
          /\ (mode' = mode \/ (mode # "exited" /\ mode' # "exited"))
      BY <2>2 DEF SetupEnds, Wedges, ScansBeforeServing, GoesLive, DrainLooks, DrainEnds,
         Stalls, Resumes, Tick, callVars, modeVars, unscannedVars
    <3>. QED  BY <3>1, OwnersStepIsPromised
  <2>3. CASE StandDownAsked \/ RetireAsked \/ StandsDownWedged \/ TurnsOver \/ Looks
    <3>1. UNCHANGED <<stage, answer, ran>> /\ mode # "exited" /\ mode' # "exited"
          /\ (retired' = retired \/ retired = "no")
      BY <2>3 DEF StandDownAsked, RetireAsked, StandsDownWedged, TurnsOver, Looks, Retires,
         Heard, Runs, callVars, unscannedVars
    <3>. QED  BY <3>1, OwnersStepIsPromised
  <2>. QED  BY <2>1, <2>2, <2>3, CallsStepIsPromised, EndingIsPromised DEF Next, OwnerStep
<1>3. PromiseStep <=> [Promise!Next]_(Promise!promiseVars)
  BY DEF PromiseStep, Promise!promiseVars
<1>. QED  BY BooksAlways, CutsStayInRetirement, <1>1, <1>2, <1>3, PTL
     DEF Spec, KeepsItsPromise, Promise!Spec
==================================================================================
