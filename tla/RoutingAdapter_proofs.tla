------------------------- MODULE RoutingAdapter_proofs -------------------------
(***************************************************************************)
(* Theorems about RoutingAdapter: the calls an engine may get, however its *)
(* server answers, and what is known of its routes, for any number of      *)
(* routes and of batches of elevations.                                    *)
(***************************************************************************)
EXTENDS RoutingAdapter, TLAPS

\* What is known of an engine that is being asked for routes for the first time.
FirstAsked(x) ==
  x.at = "call" =>
    /\ x.attempt < MaxAttempts /\ x.sent = x.attempt
    /\ x.last \in {"none", "timeout"}
    /\ x.good = 0 /\ x.batch = 0

\* Only ORS is asked without alternatives, and only if they were wanted: the
\* calls for alternatives, two at most, come on top.
AskedAgain(e, x) ==
  x.at = "fallback" =>
    /\ e = "ors" /\ want
    /\ x.attempt < MaxAttempts /\ x.sent <= MaxAttempts + x.attempt
    /\ x.last \in {"tooLong", "timeout"}
    /\ x.good = 0 /\ x.batch = 0

\* Elevations are looked up for routes that were found.
LookedUp(e, x) ==
  x.at = "elevate" =>
    /\ e = "kakao" /\ x.good > 0 /\ x.batch < Batches
    /\ x.attempt < MaxAttempts

\* An engine that has ended has routes, with all elevations or none, or has
\* failed and has none.
EndedWell(x) ==
  /\ x.at = "ok" => x.good > 0 /\ x.batch \in {0, Batches}
  /\ x.at = "failed" => x.good = 0

\* The calls made to an engine, whatever it is doing now.
CallBudget(e, x) ==
  x.sent <= IF e = "ors" /\ want THEN 2 * MaxAttempts ELSE MaxAttempts

EngineOnTrack(e, x) ==
  /\ x \in EngineRecord
  /\ FirstAsked(x) /\ AskedAgain(e, x) /\ LookedUp(e, x) /\ EndedWell(x)
  /\ CallBudget(e, x)

ResultFits ==
  /\ result \in [gathered : BOOLEAN, routes : [Engine -> 0 .. MaxRoutes],
                 warnings : SUBSET Engine, anySuccess : BOOLEAN]
  /\ result.gathered =>
       \A e \in Engine : /\ Ended(e) /\ result.routes[e] = eng[e].good
                         /\ e \in result.warnings <=> eng[e].at = "failed"

\* The inductive invariant.
EnginesOnTrack ==
  /\ want \in BOOLEAN
  /\ eng \in [Engine -> EngineRecord]
  /\ \A e \in Engine : EngineOnTrack(e, eng[e])
  /\ ResultFits

-----------------------------------------------------------------------------

\* No engine has been called.
LEMMA InitOnTrack == Init => EnginesOnTrack
<1> SUFFICES ASSUME Init PROVE EnginesOnTrack
  OBVIOUS
<1> DEFINE fresh == [at |-> "call", attempt |-> 0, sent |-> 0,
                     last |-> "none", good |-> 0, batch |-> 0]
<1>1. fresh \in EngineRecord
  BY AdapterAssumption DEF EngineRecord, Answers, MaxAttempts
<1>2. eng = [e \in Engine |-> fresh] /\ want \in BOOLEAN
  BY DEF Init
<1>3. \A e \in Engine : EngineOnTrack(e, fresh)
  BY <1>1 DEF EngineOnTrack, FirstAsked, AskedAgain, LookedUp, EndedWell,
              CallBudget, MaxAttempts
<1>4. ResultFits
  BY AdapterAssumption DEF Init, ResultFits
<1> QED
  BY <1>1, <1>2, <1>3, <1>4 DEF EnginesOnTrack

\* A step that changes the record of one engine that has not ended yet.
LEMMA EngineStep ==
  ASSUME EnginesOnTrack, NEW e \in Engine, ~ Ended(e), NEW x,
         eng' = [eng EXCEPT ![e] = x], UNCHANGED <<want, result>>,
         EngineOnTrack(e, x)
  PROVE  EnginesOnTrack'
<1>1. x \in EngineRecord
  BY DEF EngineOnTrack
<1>2. eng' \in [Engine -> EngineRecord]
  BY <1>1 DEF EnginesOnTrack
<1>3. \A f \in Engine : eng'[f] = IF f = e THEN x ELSE eng[f]
  BY DEF EnginesOnTrack
<1>4. ASSUME NEW f \in Engine PROVE EngineOnTrack(f, eng[f])'
  BY <1>3, <1>4 DEF EnginesOnTrack, EngineOnTrack, AskedAgain, CallBudget, LookedUp,
                    FirstAsked, EndedWell
<1>5. ~ result.gathered
  BY DEF EnginesOnTrack, ResultFits
<1>6. ResultFits'
  BY <1>5 DEF EnginesOnTrack, ResultFits
<1> QED
  BY <1>2, <1>4, <1>6 DEF EnginesOnTrack

\* One answer of an engine that is being asked.  What it had been sent leaves
\* room for one more call.
LEMMA RoomForOne ==
  ASSUME EnginesOnTrack, NEW e \in Engine, Calling(e)
  PROVE  /\ eng[e] \in EngineRecord /\ ~ Ended(e)
         /\ eng[e].attempt < MaxAttempts /\ eng[e].good = 0 /\ eng[e].batch = 0
         /\ eng[e].sent + 1 <= IF e = "ors" /\ want THEN 2 * MaxAttempts
                                                    ELSE MaxAttempts
<1>1. EngineOnTrack(e, eng[e]) /\ eng[e] \in EngineRecord
  BY DEF EnginesOnTrack
<1> QED
  BY <1>1 DEF EngineOnTrack, FirstAsked, AskedAgain, CallBudget, Calling, Ended,
              EngineRecord, MaxAttempts

\* Whatever an engine that is being asked does keeps it on track.
LEMMA CallingStep ==
  ASSUME EnginesOnTrack, NEW e \in Engine, Calling(e),
         Rejected(e) \/ TooLong(e) \/ TimesOut(e) \/ FindsNothing(e) \/ Finds(e)
  PROVE  EnginesOnTrack'
<1> DEFINE x == eng[e]
<1>1. EngineOnTrack(e, x) /\ x \in EngineRecord
  BY DEF EnginesOnTrack
<1>2. UNCHANGED <<want, result>>
  BY DEF Rejected, TooLong, TimesOut, FindsNothing, Finds
<1>7. /\ x.sent + 1 \in Nat /\ 0 \in 0 .. MaxAttempts
      /\ x.attempt + 1 \in 0 .. MaxAttempts
      /\ x.attempt < MaxAttempts
      /\ {"timeout", "tooLong", "routes"} \subseteq Answers
      /\ {x.at, "failed", "fallback", "elevate", "ok"}
           \subseteq {"call", "fallback", "elevate", "ok", "failed"}
  BY <1>1, RoomForOne DEF EngineRecord, MaxAttempts, Answers
<1>3. CASE Rejected(e) \/ FindsNothing(e)
  <2>0. PICK answer \in Answers : Answered(e, answer, "failed")
    BY <1>3 DEF Rejected, FindsNothing, Answers
  <2> DEFINE y == [x EXCEPT !.at = "failed", !.last = answer,
                            !.sent = @ + 1, !.attempt = 0]
  <2>1. eng' = [eng EXCEPT ![e] = y]
    BY <2>0, Zenon DEF Answered
  <2>2. y \in EngineRecord
    BY <1>1, <1>7, Zenon DEF EngineRecord
  <2>3. EngineOnTrack(e, y)
    BY <1>1, <2>2, RoomForOne
    DEF EngineOnTrack, FirstAsked, AskedAgain, LookedUp, EndedWell, CallBudget,
        EngineRecord
  <2> QED
    BY <1>2, <2>1, <2>3, RoomForOne, EngineStep
<1>4. CASE TooLong(e)
  <2> DEFINE place == IF x.at = "call" /\ want THEN "fallback" ELSE "failed"
             y == [x EXCEPT !.at = place, !.last = "tooLong",
                            !.sent = @ + 1, !.attempt = 0]
  <2>1. eng' = [eng EXCEPT ![e] = y] /\ e = "ors"
    BY <1>4 DEF TooLong, Answered, EnginesOnTrack
  <2>2. y \in EngineRecord
    BY <1>1, <1>7, Zenon DEF EngineRecord
  <2>3. x.at = "call" => x.sent < MaxAttempts
    BY <1>1 DEF EngineOnTrack, FirstAsked
  <2>4. EngineOnTrack(e, y)
    BY <1>1, <2>1, <2>2, <2>3, RoomForOne
    DEF EngineOnTrack, FirstAsked, AskedAgain, LookedUp, EndedWell, CallBudget,
        EngineRecord, MaxAttempts
  <2> QED
    BY <1>2, <2>1, <2>4, RoomForOne, EngineStep
<1>5. CASE TimesOut(e)
  <2> DEFINE place == IF x.attempt + 1 = MaxAttempts THEN "failed" ELSE x.at
             y == [x EXCEPT !.at = place, !.attempt = @ + 1,
                            !.sent = @ + 1, !.last = "timeout"]
  <2>1. eng' = [eng EXCEPT ![e] = y]
    BY <1>5, Zenon DEF TimesOut
  <2>2. y \in EngineRecord
    BY <1>1, <1>7, Zenon DEF EngineRecord
  <2>3. EngineOnTrack(e, y)
    BY <1>1, <2>2, RoomForOne
    DEF EngineOnTrack, FirstAsked, AskedAgain, LookedUp, EndedWell, CallBudget,
        EngineRecord, MaxAttempts, Calling
  <2> QED
    BY <1>2, <2>1, <2>3, RoomForOne, EngineStep
<1>6. CASE Finds(e)
  <2>0. PICK n \in 1 .. MaxRoutes, place \in {"elevate", "ok"} :
          /\ place = "elevate" => e = "kakao" /\ Batches > 0
          /\ eng' = [eng EXCEPT ![e].at = place, ![e].last = "routes",
                                ![e].sent = @ + 1, ![e].attempt = 0, ![e].good = n]
    BY <1>6, Zenon DEF Finds
  <2> DEFINE y == [x EXCEPT !.at = place, !.last = "routes",
                            !.sent = @ + 1, !.attempt = 0, !.good = n]
  <2>1. eng' = [eng EXCEPT ![e] = y]
    BY <2>0, Zenon
  <2>2. y \in EngineRecord
    <3>1. n \in 0 .. MaxRoutes
      BY AdapterAssumption
    <3> QED
      BY <1>1, <1>7, <2>0, <3>1, Zenon DEF EngineRecord
  <2>3. EngineOnTrack(e, y)
    BY <1>1, <2>0, <2>2, RoomForOne, AdapterAssumption
    DEF EngineOnTrack, FirstAsked, AskedAgain, LookedUp, EndedWell, CallBudget,
        EngineRecord, MaxAttempts
  <2> QED
    BY <1>2, <2>1, <2>3, RoomForOne, EngineStep
<1> QED
  BY <1>3, <1>4, <1>5, <1>6

\* A batch of elevations is found or missed.
LEMMA ElevationStep ==
  ASSUME EnginesOnTrack, NEW e \in Engine, FindsElevations(e) \/ MissesElevations(e)
  PROVE  EnginesOnTrack'
<1> DEFINE x == eng[e]
<1>1. /\ EngineOnTrack(e, x) /\ x \in EngineRecord /\ x.at = "elevate" /\ ~ Ended(e)
      /\ UNCHANGED <<want, result>>
  BY DEF EnginesOnTrack, FindsElevations, MissesElevations, Ended
<1>2. x.good > 0 /\ x.batch < Batches /\ e = "kakao" /\ x.batch \in Nat
  BY <1>1, AdapterAssumption DEF EngineOnTrack, LookedUp, EngineRecord
<1>3. CASE FindsElevations(e)
  <2> DEFINE place == IF x.batch + 1 = Batches THEN "ok" ELSE x.at
             y == [x EXCEPT !.batch = @ + 1, !.attempt = 0, !.at = place]
  <2>1. eng' = [eng EXCEPT ![e] = y]
    BY <1>3 DEF FindsElevations, EnginesOnTrack
  <2>2. y \in EngineRecord
    <3>1. x.batch + 1 \in 0 .. Batches /\ 0 \in 0 .. MaxAttempts
      BY <1>2, AdapterAssumption DEF MaxAttempts
    <3> QED
      BY <1>1, <3>1, Zenon DEF EngineRecord
  <2>3. EngineOnTrack(e, y)
    BY <1>1, <1>2, <2>2, AdapterAssumption
    DEF EngineOnTrack, FirstAsked, AskedAgain, LookedUp, EndedWell, CallBudget,
        EngineRecord, MaxAttempts
  <2> QED
    BY <1>1, <2>1, <2>3, EngineStep
<1>4. CASE MissesElevations(e) /\ x.attempt + 1 < MaxAttempts
              /\ eng' = [eng EXCEPT ![e].attempt = @ + 1]
  <2> DEFINE y == [x EXCEPT !.attempt = @ + 1]
  <2>1. eng' = [eng EXCEPT ![e] = y]
    BY <1>4 DEF EnginesOnTrack
  <2>2. y \in EngineRecord
    BY <1>1, <1>4 DEF EngineRecord, MaxAttempts
  <2>3. EngineOnTrack(e, y)
    BY <1>1, <1>2, <1>4, <2>2
    DEF EngineOnTrack, FirstAsked, AskedAgain, LookedUp, EndedWell, CallBudget,
        EngineRecord, MaxAttempts
  <2> QED
    BY <1>1, <2>1, <2>3, EngineStep
<1>5. CASE eng' = [eng EXCEPT ![e].at = "ok", ![e].batch = 0]
  <2> DEFINE y == [x EXCEPT !.at = "ok", !.batch = 0]
  <2>1. eng' = [eng EXCEPT ![e] = y]
    BY <1>5, Zenon
  <2>2. y \in EngineRecord
    <3>1. 0 \in 0 .. Batches
      BY AdapterAssumption
    <3> QED
      BY <1>1, <3>1, Zenon DEF EngineRecord
  <2>3. EngineOnTrack(e, y)
    BY <1>1, <1>2, <2>2
    DEF EngineOnTrack, FirstAsked, AskedAgain, LookedUp, EndedWell, CallBudget,
        EngineRecord, MaxAttempts
  <2> QED
    BY <1>1, <2>1, <2>3, EngineStep
<1> QED
  BY <1>3, <1>4, <1>5 DEF MissesElevations

\* What is gathered is what the engines have ended with.
LEMMA GatherStep == EnginesOnTrack /\ Gather => EnginesOnTrack'
<1> SUFFICES ASSUME EnginesOnTrack, Gather PROVE EnginesOnTrack'
  OBVIOUS
<1>1. UNCHANGED <<want, eng>> /\ \A e \in Engine : Ended(e)
  BY DEF Gather
<1>2. \A e \in Engine : EngineOnTrack(e, eng[e])'
  BY <1>1 DEF EnginesOnTrack, EngineOnTrack, AskedAgain, CallBudget, LookedUp,
              FirstAsked, EndedWell
<1>3. \A e \in Engine : eng[e].good \in 0 .. MaxRoutes
  BY DEF EnginesOnTrack, EngineRecord
<1>4. ResultFits'
  BY <1>1, <1>3 DEF Gather, ResultFits, Ended
<1> QED
  BY <1>1, <1>2, <1>4 DEF EnginesOnTrack

\* Every step keeps every engine on track.
LEMMA NextOnTrack == EnginesOnTrack /\ [Next]_vars => EnginesOnTrack'
<1> SUFFICES ASSUME EnginesOnTrack, [Next]_vars PROVE EnginesOnTrack'
  OBVIOUS
<1>1. CASE Gather
  BY <1>1, GatherStep
<1>2. ASSUME NEW e \in Engine, Call(e) PROVE EnginesOnTrack'
  <2>1. CASE FindsElevations(e) \/ MissesElevations(e)
    BY <2>1, ElevationStep
  <2>2. CASE Rejected(e) \/ TooLong(e) \/ TimesOut(e) \/ FindsNothing(e) \/ Finds(e)
    <3>1. Calling(e)
      BY <2>2 DEF Rejected, TooLong, TimesOut, FindsNothing, Finds
    <3> QED
      BY <2>2, <3>1, CallingStep
  <2> QED
    BY <1>2, <2>1, <2>2 DEF Call
<1>3. CASE UNCHANGED vars
  BY <1>3 DEF vars, EnginesOnTrack, EngineOnTrack, AskedAgain, CallBudget, LookedUp,
              FirstAsked, EndedWell, ResultFits, Ended
<1> QED
  BY <1>1, <1>2, <1>3 DEF Next

-----------------------------------------------------------------------------

\* Every engine is at a place of its own with the calls that lead there.
THEOREM AdapterOnTrack == Spec => []EnginesOnTrack
<1> QED
  BY InitOnTrack, NextOnTrack, PTL DEF Spec

\* The adapter's variables keep their types.
THEOREM AdapterTyped == Spec => []TypeOK
<1>1. EnginesOnTrack => TypeOK
  BY DEF EnginesOnTrack, ResultFits, TypeOK
<1> QED
  BY <1>1, AdapterOnTrack, PTL

\* Retries and fallback never multiply: two calls to an engine, four to ORS.
THEOREM CallsStayBounded == Spec => []CallsBounded
<1>1. EnginesOnTrack => CallsBounded
  BY DEF EnginesOnTrack, EngineOnTrack, CallBudget, EndedWell, CallsBounded
<1> QED
  BY <1>1, AdapterOnTrack, PTL

\* A route has all its elevations or none, for any number of batches.
THEOREM ElevationsNeverPartial == Spec => []ElevationAllOrNone
<1>1. EnginesOnTrack => ElevationAllOrNone
  BY DEF EnginesOnTrack, EngineOnTrack, EndedWell, ElevationAllOrNone
<1> QED
  BY <1>1, AdapterOnTrack, PTL

\* An engine is asked again only after a timeout or a rate limit, or once without
\* alternatives.
THEOREM AnswersAreTaken == Spec => NoAnswerIsQuestioned
<1> DEFINE Justified(e) == \/ eng[e].last \in {"none", "timeout", "limit"}
                           \/ eng[e].last = "tooLong" /\ eng[e].at = "fallback"
           A == \A e \in Engine : eng'[e].sent > eng[e].sent => Justified(e)
<1>1. ASSUME EnginesOnTrack, [Next]_vars PROVE [A]_vars
  <2> SUFFICES ASSUME Next, NEW f \in Engine, eng'[f].sent > eng[f].sent
               PROVE  Justified(f)
    BY <1>1
  <2>1. eng[f] \in EngineRecord /\ EngineOnTrack(f, eng[f])
    BY <1>1 DEF EnginesOnTrack
  <2>2. PICK e \in Engine : Call(e)
    <3>1. eng[f].sent \in Nat
      BY <2>1 DEF EngineRecord
    <3>2. eng' # eng
      BY <3>1
    <3> QED
      BY <1>1, <3>2, Zenon DEF Next, Gather, vars
  <2>3. e = f
    <3>1. eng \in [Engine -> EngineRecord] /\ eng[f].sent \in Nat
      BY <1>1, <2>1 DEF EnginesOnTrack, EngineRecord
    <3>2. eng'[f] # eng[f]
      BY <3>1
    <3> QED
      BY <2>2, <3>1, <3>2
      DEF Call, Rejected, TooLong, TimesOut, FindsNothing, Finds, Answered,
          FindsElevations, MissesElevations
  <2>4. Calling(f)
    <3> SUFFICES ASSUME ~ Calling(f) PROVE FALSE
      OBVIOUS
    <3>1. FindsElevations(f) \/ MissesElevations(f)
      BY <2>2, <2>3 DEF Call, Rejected, TooLong, TimesOut, FindsNothing, Finds
    <3>2. eng'[f].sent = eng[f].sent
      BY <1>1, <2>1, <3>1 DEF FindsElevations, MissesElevations, EnginesOnTrack, EngineRecord
    <3> QED
      BY <2>1, <3>2 DEF EngineRecord
  <2> QED
    BY <2>1, <2>4 DEF Calling, EngineOnTrack, FirstAsked, AskedAgain
<1>2. NoAnswerIsQuestioned <=> [][A]_vars
  BY DEF NoAnswerIsQuestioned
<1> QED
  BY <1>1, <1>2, AdapterOnTrack, PTL DEF Spec
=============================================================================
