---------------------------- MODULE RoutingAdapter ----------------------------
(***************************************************************************)
(* RoutingAdapter.get_all_routes (routing/adapter.py) with its providers   *)
(* (routing/kakao.py, routing/ors.py) and the elevation lookup of the      *)
(* Kakao provider (routing/elevation.py), as execute_p2p awaits it.        *)
(*                                                                         *)
(* The engines run concurrently.  One step of an engine is one HTTP call   *)
(* with its answer; the servers may answer anything.                       *)
(***************************************************************************)
EXTENDS Naturals

CONSTANTS
  Engine,     \* the engines of the request: a subset of {"kakao", "ors"}
  MaxRoutes,  \* the routes asked of each engine
  Batches     \* the batches the points of Kakao's routes are looked up in

ASSUME AdapterAssumption ==
  /\ Engine \subseteq {"kakao", "ors"} /\ Engine # {}
  /\ MaxRoutes \in Nat \ {0} /\ Batches \in Nat

\* _call and _post_batch try again after a timeout, once.
MaxAttempts == 2

VARIABLES
  want,   \* alternatives are asked for, between two points without a stop
  eng,    \* what each engine's call has come to
  result  \* what was gathered once all engines have ended

vars == <<want, eng, result>>

Answers == {"none", "timeout", "auth", "limit", "refused", "tooLong",
            "unexpected", "empty", "routes"}

EngineRecord ==
  [at : {"call", "fallback", "elevate", "ok", "failed"},
   attempt : 0 .. MaxAttempts,  \* calls made in vain by the current _call
   sent : Nat,                  \* calls made to the engine altogether
   last : Answers,              \* what the engine answered last
   good : 0 .. MaxRoutes,       \* routes that could be parsed
   batch : 0 .. Batches]        \* batches of elevations in hand

TypeOK ==
  /\ want \in BOOLEAN
  /\ eng \in [Engine -> EngineRecord]
  /\ result \in [gathered : BOOLEAN, routes : [Engine -> 0 .. MaxRoutes],
                  warnings : SUBSET Engine, anySuccess : BOOLEAN]

Init ==
  /\ want \in (IF MaxRoutes > 1 THEN BOOLEAN ELSE {FALSE})
  /\ eng = [e \in Engine |-> [at |-> "call", attempt |-> 0, sent |-> 0,
                              last |-> "none", good |-> 0, batch |-> 0]]
  /\ result = [gathered |-> FALSE, routes |-> [e \in Engine |-> 0],
               warnings |-> {}, anySuccess |-> FALSE]

Calling(e) == eng[e].at \in {"call", "fallback"}
Ended(e) == eng[e].at \in {"ok", "failed"}

\* The engine has answered: one more call was sent.
Answered(e, answer, place) ==
  eng' = [eng EXCEPT ![e].at = place, ![e].last = answer,
                     ![e].sent = @ + 1, ![e].attempt = 0]

-----------------------------------------------------------------------------
(* One call of an engine *)

\* Mutant: every answer but a success is worth another try.
RejectedRetrying(e) ==
  /\ Calling(e)
  /\ \E answer \in {"auth", "limit", "unexpected"} :
       eng' = [eng EXCEPT ![e].at = IF eng[e].attempt + 1 = MaxAttempts
                                      THEN "failed" ELSE @,
                          ![e].attempt = @ + 1, ![e].sent = @ + 1,
                          ![e].last = answer]
  /\ UNCHANGED <<want, result>>

\* 401, 403, 429 are a RoutingProviderError, so is a 400 or 404 of ORS; any
\* other status and a body that cannot be parsed are unexpected exceptions.
\* _safe_call turns all of them into an error of this engine.
Rejected(e) ==
  /\ Calling(e)
  /\ \E answer \in {"auth", "limit", "unexpected"}
                   \cup (IF e = "ors" THEN {"refused"} ELSE {}) :
       Answered(e, answer, "failed")
  /\ UNCHANGED <<want, result>>

\* Mutant: the fallback is tried again and again.
TooLongForever(e) ==
  /\ Calling(e) /\ e = "ors"
  /\ Answered(e, "tooLong", IF want THEN "fallback" ELSE "failed")
  /\ UNCHANGED <<want, result>>

\* ORS refuses alternatives on long routes; get_routes asks again without.
TooLong(e) ==
  /\ Calling(e) /\ e = "ors"
  /\ Answered(e, "tooLong",
              IF eng[e].at = "call" /\ want THEN "fallback" ELSE "failed")
  /\ UNCHANGED <<want, result>>

\* A timeout or a broken connection; after the last attempt it is reraised.
TimesOut(e) ==
  /\ Calling(e)
  /\ eng' = [eng EXCEPT ![e].at = IF eng[e].attempt + 1 = MaxAttempts
                                    THEN "failed" ELSE @,
                        ![e].attempt = @ + 1, ![e].sent = @ + 1,
                        ![e].last = "timeout"]
  /\ UNCHANGED <<want, result>>

\* No route, or none that is usable.
FindsNothing(e) ==
  /\ Calling(e)
  /\ Answered(e, "empty", "failed")
  /\ UNCHANGED <<want, result>>

\* Unusable routes are skipped.  Kakao's routes are then to be given
\* elevations, unless they have no segments.
Finds(e) ==
  /\ Calling(e)
  /\ \E n \in 1 .. MaxRoutes, place \in {"elevate", "ok"} :
       /\ place = "elevate" => e = "kakao" /\ Batches > 0
       /\ e = "kakao" /\ Batches = 0 => place = "ok"
       /\ eng' = [eng EXCEPT ![e].at = place, ![e].last = "routes",
                             ![e].sent = @ + 1, ![e].attempt = 0, ![e].good = n]
  /\ UNCHANGED <<want, result>>

-----------------------------------------------------------------------------
(* fetch_elevations: batch after batch, all or nothing *)

\* Mutant: the end of the batches is looked for before this one is counted.
FindsElevationsBeyond(e) ==
  /\ eng[e].at = "elevate"
  /\ eng' = [eng EXCEPT ![e].batch = @ + 1, ![e].attempt = 0,
                        ![e].at = IF eng[e].batch = Batches THEN "ok" ELSE @]
  /\ UNCHANGED <<want, result>>

FindsElevations(e) ==
  /\ eng[e].at = "elevate"
  /\ eng' = [eng EXCEPT ![e].batch = @ + 1, ![e].attempt = 0,
                        ![e].at = IF eng[e].batch + 1 = Batches THEN "ok" ELSE @]
  /\ UNCHANGED <<want, result>>

\* Mutant: the elevations found before a failure are used.
MissesElevationsPartly(e) ==
  /\ eng[e].at = "elevate"
  /\ eng' = [eng EXCEPT ![e].at = "ok"]
  /\ UNCHANGED <<want, result>>

\* A timeout is tried again once; then, and after any other failure, the
\* routes stay without elevations.
MissesElevations(e) ==
  /\ eng[e].at = "elevate"
  /\ \/ /\ eng[e].attempt + 1 < MaxAttempts
        /\ eng' = [eng EXCEPT ![e].attempt = @ + 1]
     \/ eng' = [eng EXCEPT ![e].at = "ok", ![e].batch = 0]
  /\ UNCHANGED <<want, result>>

-----------------------------------------------------------------------------
(* asyncio.gather *)

\* Mutant: without _safe_call the first exception ends the gathering.
GatherUnsafely ==
  /\ ~ result.gathered /\ \A e \in Engine : eng[e].at = "ok"
  /\ result' = [gathered |-> TRUE, routes |-> [e \in Engine |-> eng[e].good],
                warnings |-> {}, anySuccess |-> TRUE]
  /\ UNCHANGED <<want, eng>>

\* The combined routes, a warning for every engine that failed, and whether
\* execute_p2p goes on or finalizes its run as failed.
Gather ==
  /\ ~ result.gathered /\ \A e \in Engine : Ended(e)
  /\ result' = [gathered |-> TRUE,
                routes |-> [e \in Engine |-> eng[e].good],
                warnings |-> {e \in Engine : eng[e].at = "failed"},
                anySuccess |-> \E e \in Engine : eng[e].at = "ok"]
  /\ UNCHANGED <<want, eng>>

Call(e) ==
  \/ Rejected(e) \/ TooLong(e) \/ TimesOut(e) \/ FindsNothing(e) \/ Finds(e)
  \/ FindsElevations(e) \/ MissesElevations(e)

Next == Gather \/ \E e \in Engine : Call(e)

Spec == Init /\ [][Next]_vars

\* Every HTTP call has a timeout, so each ends, and the event loop resumes
\* the coroutine that awaits it.
FairSpec == Spec /\ WF_vars(Gather) /\ \A e \in Engine : WF_vars(Call(e))

-----------------------------------------------------------------------------
(* Properties *)

\* An engine is called at most twice, ORS twice more without alternatives:
\* retries and fallback do not multiply further.
CallsBounded ==
  \A e \in Engine :
    /\ eng[e].sent <= IF e = "ors" /\ want THEN 2 * MaxAttempts ELSE MaxAttempts
    /\ eng[e].at = "ok" => eng[e].good > 0

\* An engine that has given an answer is not asked the same again: only an
\* answer that never came, or one that says to come back later, is followed by
\* another call, and a refused alternative by one without alternatives.  PRD.md
\* (E-2) wants a 429 to be followed by one, and Rejected shows that the code
\* makes none: this leaves open which is right.
NoAnswerIsQuestioned ==
  [][\A e \in Engine : eng'[e].sent > eng[e].sent =>
       \/ eng[e].last \in {"none", "timeout", "limit"}
       \/ eng[e].last = "tooLong" /\ eng[e].at = "fallback"]_vars

\* A route of Kakao has elevations for all of its segments or for none: CO2
\* with and without grades is never mixed within a route.
ElevationAllOrNone ==
  \A e \in Engine : eng[e].at = "ok" => eng[e].batch \in {0, Batches}

\* The engines' calls always come to an end, and no failure of one engine
\* keeps the routes of another from being gathered.
AllEnginesHeard ==
  /\ <>(result.gathered)
  /\ [](result.gathered =>
          /\ result.anySuccess <=> \E e \in Engine : result.routes[e] > 0
          /\ \A e \in Engine : e \in result.warnings <=> result.routes[e] = 0)
=============================================================================
