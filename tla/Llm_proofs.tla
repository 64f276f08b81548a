------------------------------ MODULE Llm_proofs ------------------------------
(***************************************************************************)
(* Theorems about Llm: how often agents ask, what a parse answers, and what *)
(* a narrative may say, for any plans, texts, weights and sites.           *)
(***************************************************************************)
EXTENDS Llm, Lists_proofs

Place == {"idle", "calling", "valid", "fallback", "givenUp", "raised"}
Stage == {"asked", "waiting", "answered", "told", "untold", "unavailable", "lost"}

\* No agent is asked without a key, or for what the request is not about, and
\* who is still asking has calls left.
AgentOnTrack(a) ==
  /\ at[a] # "idle" => ask.key /\ (a = "narrative" <=> ask.for = "narrative")
  /\ at[a] = "calling" => calls[a] < Budget(a)
  /\ at[a] = "idle" => calls[a] = 0

\* The planner decides who else is asked.
NeedsFollowPlanner ==
  /\ at["planner"] # "valid" => needs = {}
  /\ \A a \in {"constraint", "weights"} : a \in needs <=> at[a] # "idle"
  /\ stage = "asked" => \A a \in Agent : at[a] = "idle"
  /\ stage = "lost" => at["planner"] \in {"givenUp", "raised"}
  /\ stage = "answered" => /\ at["planner"] = "valid"
                           /\ \A a \in needs : at[a] # "calling"

\* Weights are none, balanced or rescaled ones that fit, and there are some
\* once the composer has ended without raising.
WeightsFit ==
  /\ \/ weights = << >> \/ weights = Balanced
     \/ \E w \in Composed : WellComposed(w) /\ weights = Rescaled(w)
  /\ at["weights"] \in {"valid", "fallback"} => weights # << >>

\* A text that was accepted is a valid one or the template.
TextFits ==
  stage = "told" =>
    \/ text = Template(ask.plan)
    \/ \E numbers \in Said : /\ text = [blank |-> FALSE, numbers |-> numbers]
                             /\ Valid(numbers, ask.plan)

\* The inductive invariant.
AgentsOnTrack ==
  /\ ask \in [for : {"parse", "narrative"}, key : BOOLEAN, plan : Plan]
  /\ at \in [Agent -> Place] /\ calls \in [Agent -> Nat]
  /\ \A a \in Agent : calls[a] <= Budget(a) /\ AgentOnTrack(a)
  /\ stage \in Stage /\ needs \subseteq {"constraint", "weights"} /\ found \subseteq Site
  /\ at["planner"] \notin {"fallback"} /\ at["weights"] # "givenUp"
  /\ NeedsFollowPlanner /\ WeightsFit /\ TextFits

-----------------------------------------------------------------------------

\* Nobody has been asked.
LEMMA InitAgents == Init => AgentsOnTrack
BY DEF Init, AgentsOnTrack, Agent, Place, Stage, Budget, AgentOnTrack,
       NeedsFollowPlanner, WeightsFit, TextFits

\* The next answer or exception, whoever it is of, is one call more, and there
\* was a call left.
LEMMA Counted ==
  ASSUME AgentsOnTrack, NEW a \in Agent, Calling(a)
  PROVE  /\ calls[a] + 1 \in Nat /\ calls[a] + 1 <= Budget(a)
         /\ ask.key /\ (a = "narrative" <=> ask.for = "narrative")
BY DEF AgentsOnTrack, AgentOnTrack, Calling, Budget

\* One agent goes from calling to another place, having called once more.
LEMMA AgentStep ==
  ASSUME AgentsOnTrack, NEW a \in Agent, Calling(a), NEW place \in Place \ {"idle"},
         calls' = [calls EXCEPT ![a] = @ + 1], at' = [at EXCEPT ![a] = place],
         place = "calling" => calls[a] + 1 < Budget(a), UNCHANGED ask
  PROVE  /\ at' \in [Agent -> Place] /\ calls' \in [Agent -> Nat]
         /\ \A b \in Agent : calls'[b] <= Budget(b) /\ AgentOnTrack(b)'
<1>1. at \in [Agent -> Place] /\ calls \in [Agent -> Nat]
  BY DEF AgentsOnTrack
<1>2. /\ \A b \in Agent : at'[b] = IF b = a THEN place ELSE at[b]
      /\ \A b \in Agent : calls'[b] = IF b = a THEN calls[a] + 1 ELSE calls[b]
  BY <1>1
<1>3. at' \in [Agent -> Place] /\ calls' \in [Agent -> Nat]
  BY <1>1, Counted
<1>4. ASSUME NEW b \in Agent PROVE calls'[b] <= Budget(b) /\ AgentOnTrack(b)'
  <2>1. CASE b = a
    BY <1>2, <2>1, Counted DEF AgentOnTrack
  <2>2. CASE b # a
    BY <1>2, <2>2 DEF AgentOnTrack, AgentsOnTrack
  <2> QED
    BY <2>1, <2>2
<1> QED
  BY <1>3, <1>4

\* An answer that cannot be used leaves room for another call, or ends there.
LEMMA RejectedMoves ==
  ASSUME AgentsOnTrack, NEW a \in Agent, NEW last \in Place \ {"idle", "calling"},
         Calling(a), Rejected(a, last)
  PROVE  \E place \in {"calling", last} :
           /\ at' = [at EXCEPT ![a] = place] /\ at'[a] = place
           /\ calls' = [calls EXCEPT ![a] = @ + 1]
           /\ place = "calling" => calls[a] + 1 < Budget(a)
<1> DEFINE place == IF calls[a] + 1 >= Budget(a) THEN last ELSE "calling"
<1>1. /\ at' = [at EXCEPT ![a] = place] /\ calls' = [calls EXCEPT ![a] = @ + 1]
  BY Zenon DEF Rejected
<1>2. at'[a] = place
  BY <1>1 DEF AgentsOnTrack
<1>3. place = "calling" => calls[a] + 1 < Budget(a)
  BY Counted DEF Budget, Place
<1> QED
  BY <1>1, <1>2, <1>3, Zenon

-----------------------------------------------------------------------------

\* The first agent is asked with a key only, for what the request is about.
LEMMA BeginStep == AgentsOnTrack /\ Begin => AgentsOnTrack'
<1> SUFFICES ASSUME AgentsOnTrack, Begin PROVE AgentsOnTrack'
  OBVIOUS
<1> DEFINE first == IF ask.for = "parse" THEN "planner" ELSE "narrative"
<1>1. /\ \A a \in Agent : at[a] = "idle" /\ calls[a] = 0
      /\ needs = {} /\ at \in [Agent -> Place] /\ first \in Agent
      /\ ask.for \in {"parse", "narrative"}
  BY DEF Begin, AgentsOnTrack, AgentOnTrack, NeedsFollowPlanner, Agent
<1>2. CASE ask.key
  <2>1. at' = [at EXCEPT ![first] = "calling"] /\ stage' = "waiting"
    BY <1>2 DEF Begin
  <2>2. /\ at' \in [Agent -> Place]
        /\ \A a \in Agent : at'[a] = IF a = first THEN "calling" ELSE "idle"
    BY <1>1, <2>1 DEF Place
  <2>3. \A a \in Agent : calls'[a] <= Budget(a) /\ AgentOnTrack(a)'
    BY <1>1, <1>2, <2>2 DEF Begin, AgentOnTrack, Budget, Agent
  <2>4. NeedsFollowPlanner' /\ WeightsFit' /\ TextFits'
    BY <1>1, <2>1, <2>2 DEF Begin, AgentsOnTrack, NeedsFollowPlanner, WeightsFit, TextFits, Agent
  <2>5. at'["planner"] # "fallback" /\ at'["weights"] # "givenUp"
    BY <2>2 DEF Agent
  <2> QED
    BY <2>1, <2>2, <2>3, <2>4, <2>5 DEF Begin, AgentsOnTrack, Stage
<1>3. CASE ~ ask.key
  <2>1. at' = at /\ stage' \in {"unavailable", "untold"}
    BY <1>3 DEF Begin
  <2>2. \A a \in Agent : calls'[a] <= Budget(a) /\ AgentOnTrack(a)'
    BY <2>1 DEF Begin, AgentsOnTrack, AgentOnTrack
  <2>3. NeedsFollowPlanner' /\ WeightsFit' /\ TextFits'
    BY <1>1, <2>1 DEF Begin, AgentsOnTrack, NeedsFollowPlanner, WeightsFit, TextFits, Agent
  <2> QED
    BY <2>1, <2>2, <2>3 DEF Begin, AgentsOnTrack, Stage
<1> QED
  BY <1>2, <1>3

\* What a parse is waiting for: while an agent of it is being asked, nothing has
\* been answered and the planner has not failed.
LEMMA StillWaiting ==
  ASSUME AgentsOnTrack, NEW a \in Agent, Calling(a)
  PROVE  /\ stage # "asked"
         /\ a \in {"planner", "constraint", "weights"} => ask.for = "parse"
         /\ a \in {"constraint", "weights"} =>
              a \in needs /\ at["planner"] = "valid" /\ stage # "answered" /\ stage # "lost"
         /\ a = "planner" => needs = {} /\ stage # "lost" /\ stage # "answered"
  BY Counted DEF AgentsOnTrack, NeedsFollowPlanner, Calling, Agent

\* The planner is heard.
LEMMA PlannerStep == AgentsOnTrack /\ PlannerAnswers => AgentsOnTrack'
<1> SUFFICES ASSUME AgentsOnTrack, PlannerAnswers PROVE AgentsOnTrack'
  OBVIOUS
<1>1. "planner" \in Agent /\ Calling("planner") /\ UNCHANGED <<ask, weights, found, text>>
  BY DEF PlannerAnswers, Agent
<1>2. CASE Rejected("planner", "givenUp")
            /\ stage' = (IF at'["planner"] = "givenUp" THEN "lost" ELSE stage)
            /\ UNCHANGED needs
  <2>1. PICK place \in {"calling", "givenUp"} :
          /\ at' = [at EXCEPT !["planner"] = place] /\ at'["planner"] = place
          /\ calls' = [calls EXCEPT !["planner"] = @ + 1]
          /\ place = "calling" => calls["planner"] + 1 < Budget("planner")
    BY <1>1, <1>2, RejectedMoves DEF Place
  <2>2. /\ at' \in [Agent -> Place] /\ calls' \in [Agent -> Nat]
        /\ \A b \in Agent : calls'[b] <= Budget(b) /\ AgentOnTrack(b)'
    BY <1>1, <2>1, AgentStep DEF Place
  <2>3. \A b \in Agent \ {"planner"} : at'[b] = at[b]
    BY <2>1 DEF AgentsOnTrack
  <2>4. NeedsFollowPlanner' /\ WeightsFit' /\ TextFits' /\ stage' \in Stage
    BY <1>1, <1>2, <2>1, <2>3, StillWaiting
    DEF AgentsOnTrack, NeedsFollowPlanner, WeightsFit, TextFits, Agent, Stage
  <2>5. at'["planner"] # "fallback" /\ at'["weights"] # "givenUp"
    BY <2>1, <2>3 DEF Agent, AgentsOnTrack
  <2> QED
    BY <1>1, <1>2, <2>2, <2>4, <2>5 DEF AgentsOnTrack
<1>3. CASE /\ calls' = [calls EXCEPT !["planner"] = @ + 1]
           /\ needs' \in SUBSET {"constraint", "weights"}
           /\ at' = [a \in Agent |-> IF a = "planner" THEN "valid"
                                     ELSE IF a \in needs' THEN "calling" ELSE at[a]]
           /\ UNCHANGED stage
  <2>1. /\ \A a \in {"constraint", "weights"} : at[a] = "idle" /\ calls[a] = 0
        /\ at \in [Agent -> Place] /\ calls \in [Agent -> Nat]
        /\ ask.key /\ ask.for = "parse" /\ stage # "asked" /\ stage # "lost"
        /\ needs = {} /\ stage # "answered"
    BY <1>1, Counted, StillWaiting
    DEF AgentsOnTrack, NeedsFollowPlanner, AgentOnTrack, Agent
  <2>2. /\ at' \in [Agent -> Place] /\ calls' \in [Agent -> Nat]
        /\ calls'["planner"] = calls["planner"] + 1
        /\ \A a \in Agent \ {"planner"} : calls'[a] = calls[a]
    BY <1>1, <1>3, <2>1, Counted DEF Place
  <2>3. ASSUME NEW a \in Agent PROVE calls'[a] <= Budget(a) /\ AgentOnTrack(a)'
    <3>1. CASE a = "planner"
      BY <1>1, <1>3, <2>1, <2>2, <3>1, Counted DEF AgentOnTrack
    <3>2. CASE a \in needs'
      BY <1>1, <1>3, <2>1, <2>2, <3>2 DEF AgentOnTrack, Budget
    <3>3. CASE a # "planner" /\ a \notin needs'
      BY <1>1, <1>3, <2>2, <3>3 DEF AgentOnTrack, AgentsOnTrack
    <3> QED
      BY <3>1, <3>2, <3>3
  <2>4. at'["planner"] = "valid" /\ at'["weights"] \in {"calling", "idle"}
    BY <1>3, <2>1 DEF Agent
  <2>5. NeedsFollowPlanner' /\ WeightsFit' /\ TextFits'
    BY <1>1, <1>3, <2>1, <2>4
    DEF AgentsOnTrack, NeedsFollowPlanner, WeightsFit, TextFits, Agent
  <2> QED
    BY <1>1, <1>3, <2>2, <2>3, <2>4, <2>5 DEF AgentsOnTrack
<1> QED
  BY <1>2, <1>3 DEF PlannerAnswers

\* The composer is heard: its weights fit, or are replaced.
LEMMA ComposerStep == AgentsOnTrack /\ ComposerAnswers => AgentsOnTrack'
<1> SUFFICES ASSUME AgentsOnTrack, ComposerAnswers PROVE AgentsOnTrack'
  OBVIOUS
<1>1. /\ "weights" \in Agent /\ Calling("weights") /\ Balanced # << >>
      /\ UNCHANGED <<ask, needs, found, text, stage>>
  BY DEF ComposerAnswers, Agent, Balanced
<1>2. \E place \in {"calling", "valid", "fallback"} :
        /\ at' = [at EXCEPT !["weights"] = place] /\ at'["weights"] = place
        /\ calls' = [calls EXCEPT !["weights"] = @ + 1]
        /\ place = "calling" => calls["weights"] + 1 < Budget("weights")
        /\ place = "calling" => weights' = weights
        /\ place # "calling" =>
             /\ weights' # << >>
             /\ \/ weights' = Balanced
                \/ \E w \in Composed : WellComposed(w) /\ weights' = Rescaled(w)
  <2>1. CASE /\ Rejected("weights", "fallback")
             /\ weights' = IF at'["weights"] = "fallback" THEN Balanced ELSE weights
    <3>1. PICK place \in {"calling", "fallback"} :
            /\ at' = [at EXCEPT !["weights"] = place] /\ at'["weights"] = place
            /\ calls' = [calls EXCEPT !["weights"] = @ + 1]
            /\ place = "calling" => calls["weights"] + 1 < Budget("weights")
      BY <1>1, <2>1, RejectedMoves DEF Place
    <3> QED
      BY <1>1, <2>1, <3>1
  <2>2. CASE \E w \in Composed : /\ WellComposed(w) /\ Accepted("weights")
                                 /\ weights' = Rescaled(w)
    <3>1. PICK w \in Composed : /\ WellComposed(w) /\ Accepted("weights")
                                /\ weights' = Rescaled(w)
      BY <2>2
    <3>2. /\ at' = [at EXCEPT !["weights"] = "valid"] /\ at'["weights"] = "valid"
          /\ calls' = [calls EXCEPT !["weights"] = @ + 1]
      BY <1>1, <3>1 DEF Accepted, AgentsOnTrack
    <3>3. Rescaled(w) # << >>
      BY DEF Rescaled
    <3> QED
      BY <3>1, <3>2, <3>3
  <2> QED
    BY <2>1, <2>2 DEF ComposerAnswers
<1>3. PICK place \in {"calling", "valid", "fallback"} :
        /\ at' = [at EXCEPT !["weights"] = place] /\ at'["weights"] = place
        /\ calls' = [calls EXCEPT !["weights"] = @ + 1]
        /\ place = "calling" => calls["weights"] + 1 < Budget("weights")
        /\ place = "calling" => weights' = weights
        /\ place # "calling" =>
             /\ weights' # << >>
             /\ \/ weights' = Balanced
                \/ \E w \in Composed : WellComposed(w) /\ weights' = Rescaled(w)
  BY <1>2
<1>4. /\ at' \in [Agent -> Place] /\ calls' \in [Agent -> Nat]
      /\ \A b \in Agent : calls'[b] <= Budget(b) /\ AgentOnTrack(b)'
  BY <1>1, <1>3, AgentStep DEF Place
<1>5. \A b \in Agent \ {"weights"} : at'[b] = at[b]
  BY <1>3 DEF AgentsOnTrack
<1>6. WeightsFit'
  BY <1>3 DEF AgentsOnTrack, WeightsFit
<1>7. NeedsFollowPlanner' /\ TextFits'
  BY <1>1, <1>3, <1>5, StillWaiting DEF AgentsOnTrack, NeedsFollowPlanner, TextFits, Agent
<1>8. at'["planner"] # "fallback" /\ at'["weights"] # "givenUp"
  BY <1>3, <1>5 DEF Agent, AgentsOnTrack
<1> QED
  BY <1>1, <1>4, <1>6, <1>7, <1>8 DEF AgentsOnTrack

\* The extractor is heard, or ends with no constraints.
LEMMA ExtractorStep == AgentsOnTrack /\ ExtractorAnswers => AgentsOnTrack'
<1> SUFFICES ASSUME AgentsOnTrack, ExtractorAnswers PROVE AgentsOnTrack'
  OBVIOUS
<1>1. /\ "constraint" \in Agent /\ Calling("constraint")
      /\ UNCHANGED <<ask, needs, weights, text, stage>>
  BY DEF ExtractorAnswers, Agent
<1>2. \E place \in {"calling", "valid", "fallback"} :
        /\ at' = [at EXCEPT !["constraint"] = place] /\ at'["constraint"] = place
        /\ calls' = [calls EXCEPT !["constraint"] = @ + 1]
        /\ place = "calling" => calls["constraint"] + 1 < Budget("constraint")
  <2>1. CASE Rejected("constraint", "fallback")
    BY <1>1, <2>1, RejectedMoves DEF Place
  <2>2. CASE Accepted("constraint")
    BY <1>1, <2>2 DEF Accepted, AgentsOnTrack
  <2> QED
    BY <2>1, <2>2 DEF ExtractorAnswers
<1>3. PICK place \in {"calling", "valid", "fallback"} :
        /\ at' = [at EXCEPT !["constraint"] = place] /\ at'["constraint"] = place
        /\ calls' = [calls EXCEPT !["constraint"] = @ + 1]
        /\ place = "calling" => calls["constraint"] + 1 < Budget("constraint")
  BY <1>2
<1>4. /\ at' \in [Agent -> Place] /\ calls' \in [Agent -> Nat]
      /\ \A b \in Agent : calls'[b] <= Budget(b) /\ AgentOnTrack(b)'
  BY <1>1, <1>3, AgentStep DEF Place
<1>5. /\ \A b \in Agent \ {"constraint"} : at'[b] = at[b]
      /\ {"planner", "weights"} \subseteq Agent \ {"constraint"}
  BY <1>3 DEF AgentsOnTrack, Agent
<1>6. found' \subseteq Site
  BY DEF ExtractorAnswers, AgentsOnTrack
<1>7. NeedsFollowPlanner' /\ TextFits' /\ WeightsFit'
  BY <1>1, <1>3, <1>5, StillWaiting
  DEF AgentsOnTrack, NeedsFollowPlanner, TextFits, WeightsFit, Agent
<1>8. at'["planner"] # "fallback" /\ at'["weights"] # "givenUp"
  BY <1>5 DEF AgentsOnTrack
<1> QED
  BY <1>1, <1>4, <1>6, <1>7, <1>8 DEF AgentsOnTrack

\* A text is accepted, asked for again or replaced.
LEMMA TellsStep == AgentsOnTrack /\ Tells => AgentsOnTrack'
<1> SUFFICES ASSUME AgentsOnTrack, Tells PROVE AgentsOnTrack'
  OBVIOUS
<1>1. /\ "narrative" \in Agent /\ Calling("narrative")
      /\ UNCHANGED <<ask, needs, weights, found>>
  BY DEF Tells, Agent
<1>2. \E place \in {"calling", "valid", "fallback"} :
        /\ at' = [at EXCEPT !["narrative"] = place] /\ at'["narrative"] = place
        /\ calls' = [calls EXCEPT !["narrative"] = @ + 1]
        /\ place = "calling" => /\ calls["narrative"] + 1 < Budget("narrative")
                                /\ UNCHANGED <<text, stage>>
        /\ place # "calling" => TextFits' /\ stage' = "told"
  <2>1. PICK said \in {Blank} \cup [blank : {FALSE}, numbers : Said] :
          IF ~ said.blank /\ Valid(said.numbers, ask.plan)
            THEN Accepted("narrative") /\ text' = said /\ stage' = "told"
            ELSE /\ Rejected("narrative", "fallback")
                 /\ IF at'["narrative"] = "fallback"
                      THEN text' = Template(ask.plan) /\ stage' = "told"
                      ELSE UNCHANGED <<text, stage>>
    BY DEF Tells
  <2>2. CASE ~ said.blank /\ Valid(said.numbers, ask.plan)
    <3>1. Accepted("narrative") /\ text' = said /\ stage' = "told"
      BY <2>1, <2>2
    <3>2. said.numbers \in Said /\ said = [blank |-> FALSE, numbers |-> said.numbers]
      <4>1. said # Blank
        BY <2>2 DEF Blank
      <4>2. said \in [blank : {FALSE}, numbers : Said]
        BY <4>1
      <4> QED
        BY <4>2
    <3>3. TextFits'
      BY <1>1, <2>2, <3>1, <3>2 DEF TextFits
    <3> QED
      BY <1>1, <3>1, <3>3 DEF Accepted, AgentsOnTrack
  <2>3. CASE ~ (~ said.blank /\ Valid(said.numbers, ask.plan))
    <3>1. /\ Rejected("narrative", "fallback")
          /\ IF at'["narrative"] = "fallback"
               THEN text' = Template(ask.plan) /\ stage' = "told"
               ELSE UNCHANGED <<text, stage>>
      BY <2>1, <2>3
    <3>2. PICK place \in {"calling", "fallback"} :
            /\ at' = [at EXCEPT !["narrative"] = place] /\ at'["narrative"] = place
            /\ calls' = [calls EXCEPT !["narrative"] = @ + 1]
            /\ place = "calling" => calls["narrative"] + 1 < Budget("narrative")
      BY <1>1, <3>1, RejectedMoves DEF Place
    <3>3. place = "fallback" => TextFits'
      BY <1>1, <3>1, <3>2 DEF TextFits
    <3> QED
      BY <3>1, <3>2, <3>3
  <2> QED
    BY <2>2, <2>3
<1>3. PICK place \in {"calling", "valid", "fallback"} :
        /\ at' = [at EXCEPT !["narrative"] = place] /\ at'["narrative"] = place
        /\ calls' = [calls EXCEPT !["narrative"] = @ + 1]
        /\ place = "calling" => /\ calls["narrative"] + 1 < Budget("narrative")
                                /\ UNCHANGED <<text, stage>>
        /\ place # "calling" => TextFits' /\ stage' = "told"
  BY <1>2
<1>4. /\ at' \in [Agent -> Place] /\ calls' \in [Agent -> Nat]
      /\ \A b \in Agent : calls'[b] <= Budget(b) /\ AgentOnTrack(b)'
  BY <1>1, <1>3, AgentStep DEF Place
<1>5. /\ \A b \in Agent \ {"narrative"} : at'[b] = at[b]
      /\ {"planner", "weights", "constraint"} \subseteq Agent \ {"narrative"}
  BY <1>3 DEF AgentsOnTrack, Agent
<1>6. TextFits'
  BY <1>1, <1>3 DEF AgentsOnTrack, TextFits
<1>7. NeedsFollowPlanner' /\ WeightsFit' /\ stage' \in Stage
  BY <1>1, <1>3, <1>5, StillWaiting
  DEF AgentsOnTrack, NeedsFollowPlanner, WeightsFit, Agent, Stage
<1>8. at'["planner"] # "fallback" /\ at'["weights"] # "givenUp"
  BY <1>5 DEF AgentsOnTrack
<1> QED
  BY <1>1, <1>4, <1>6, <1>7, <1>8 DEF AgentsOnTrack

\* A call raises, whoever made it.
LEMMA RaisesStep ==
  ASSUME AgentsOnTrack, NEW a \in Agent, Raises(a) PROVE AgentsOnTrack'
<1>1. /\ Calling(a) /\ UNCHANGED <<ask, needs, weights, found, text>>
      /\ at' = [at EXCEPT ![a] = "raised"] /\ calls' = [calls EXCEPT ![a] = @ + 1]
  BY DEF Raises
<1>2. /\ at' \in [Agent -> Place] /\ calls' \in [Agent -> Nat]
      /\ \A b \in Agent : calls'[b] <= Budget(b) /\ AgentOnTrack(b)'
  BY <1>1, AgentStep DEF Place
<1>3. \A b \in Agent : at'[b] = IF b = a THEN "raised" ELSE at[b]
  BY <1>1 DEF AgentsOnTrack
<1>4. /\ stage' = stage \/ (stage' = "lost" /\ a = "planner") \/ (stage' = "untold" /\ a = "narrative")
      /\ stage' = stage => a # "planner"
  BY <1>1, StillWaiting DEF Raises
<1>5. NeedsFollowPlanner' /\ WeightsFit' /\ TextFits' /\ stage' \in Stage
  BY <1>1, <1>3, <1>4, StillWaiting
  DEF AgentsOnTrack, NeedsFollowPlanner, WeightsFit, TextFits, Agent, Stage
<1>6. at'["planner"] # "fallback" /\ at'["weights"] # "givenUp"
  BY <1>3 DEF Agent, AgentsOnTrack
<1> QED
  BY <1>1, <1>2, <1>5, <1>6 DEF AgentsOnTrack

\* A parse is answered when nobody it needs is being asked any more.
LEMMA RespondStep == AgentsOnTrack /\ Respond => AgentsOnTrack'
BY DEF AgentsOnTrack, Respond, AgentOnTrack, NeedsFollowPlanner, WeightsFit, TextFits,
       Stage, Calling

\* Every step keeps the agents on track.
LEMMA NextAgents == AgentsOnTrack /\ [Next]_vars => AgentsOnTrack'
<1> SUFFICES ASSUME AgentsOnTrack, [Next]_vars PROVE AgentsOnTrack'
  OBVIOUS
<1>1. CASE UNCHANGED vars
  BY <1>1 DEF vars, AgentsOnTrack, AgentOnTrack, NeedsFollowPlanner, WeightsFit, TextFits
<1> QED
  BY <1>1, BeginStep, PlannerStep, ComposerStep, ExtractorStep, TellsStep, RaisesStep,
     RespondStep DEF Next

-----------------------------------------------------------------------------

\* Every agent is at a place of its own, with calls left if it is being asked.
THEOREM AgentsStayOnTrack == Spec => []AgentsOnTrack
<1> QED
  BY InitAgents, NextAgents, PTL DEF Spec

\* Agents are asked with a key, for what the request is about and within their
\* budget, whatever the model answers.
THEOREM AgentsTyped == Spec => []TypeOK
<1>1. AgentsOnTrack => TypeOK
  BY DEF AgentsOnTrack, AgentOnTrack, TypeOK, Place, Stage, Budget
<1> QED
  BY <1>1, AgentsStayOnTrack, PTL

\* Whatever triple of weights the model composes, a plan accepts what a parse
\* answers with.
THEOREM WeightsAlwaysAccepted == Spec => []ComposedWeightsAccepted
<1>1. ASSUME NEW w \in Composed, WellComposed(w) PROVE AcceptedByPlan(Rescaled(w))
  <2>1. w[1] \in 0 .. 100 /\ w[2] \in 0 .. 100 /\ w[3] \in 0 .. 100
    BY <1>1 DEF WellComposed
  <2> DEFINE r == Rescaled(w)
  <2>2. r[1] = w[1] /\ r[2] = w[2] /\ r[3] = w[3] /\ r[4] = w[1] + w[2] + w[3]
    BY DEF Rescaled, SumOfWeights
  <2> HIDE DEF r
  <2>3. /\ r[1] \in Nat /\ r[2] \in Nat /\ r[3] \in Nat
        /\ r[4] = r[1] + r[2] + r[3]
    BY <2>1, <2>2
  <2>4. AcceptedByPlan(r)
    <3>1. \A i \in 1 .. 3 : i = 1 \/ i = 2 \/ i = 3
      OBVIOUS
    <3>2. r[1] \in 0 .. r[4] /\ r[2] \in 0 .. r[4] /\ r[3] \in 0 .. r[4] /\ r[4] \in Nat
      BY <2>3
    <3> QED
      BY <2>3, <3>1, <3>2 DEF AcceptedByPlan
  <2> QED
    BY <2>4 DEF r
<1>2. AcceptedByPlan(Balanced)
  <2>1. \A i \in 1 .. 3 : i = 1 \/ i = 2 \/ i = 3
    OBVIOUS
  <2> QED
    BY <2>1 DEF AcceptedByPlan, Balanced
<1>3. AgentsOnTrack => ComposedWeightsAccepted
  BY <1>1, <1>2 DEF AgentsOnTrack, WeightsFit, ComposedWeightsAccepted
<1> QED
  BY <1>3, AgentsStayOnTrack, PTL

\* No agent takes another's answer with it.
THEOREM AgentsFailAlone == Spec => []OneAgentCostsOnlyItself
<1>1. AgentsOnTrack => OneAgentCostsOnlyItself
  BY DEF AgentsOnTrack, NeedsFollowPlanner, WeightsFit, OneAgentCostsOnlyItself,
         Agent, Place
<1> QED
  BY <1>1, AgentsStayOnTrack, PTL

\* A number that is one of a set is near one of it.
LEMMA NearItself ==
  ASSUME NEW n \in Nat, NEW S, n \in S PROVE NearAny(n, S)
BY DEF NearAny

\* The worst figure of a plan is a figure.
LEMMA WorstIsAFigure ==
  ASSUME NEW p \in Plan
  PROVE  Worst(p) \in Nat
<1>1. p.co2 \in Nat /\ p.others \subseteq Nat /\ IsFiniteSet(p.others)
  BY PlanAssumption
<1>2. CASE p.others # {}
  <2>1. \E x \in p.others : \A y \in p.others : y <= x
    <3>1. p.others \in SUBSET Int
      BY <1>1
    <3> QED
      BY <1>1, <1>2, <3>1, GreatestOfSet
  <2>2. \E x \in p.others : \A y \in p.others : x >= y
    BY <1>1, <2>1
  <2>3. Max(p.others) \in p.others
    BY <2>2 DEF Max
  <2> QED
    BY <1>1, <1>2, <2>3 DEF Worst
<1> QED
  BY <1>1, <1>2 DEF Worst

\* A narrative (NarrativeAgent.generate) says nothing large that is not of its plan,
\* unless it is written as the guard cannot read it, for any plan and any text.
THEOREM NarrativesOfTheirPlans == Spec => []NarrativeIsOfThePlan
<1>1. ASSUME AgentsOnTrack, stage = "told"
      PROVE  NarrativeIsOfThePlan
  <2> DEFINE p == ask.plan
             pines == {Round(Saved(p), 18), Round(Saved(p), 6600)}
             percent == IF Worst(p) > 0 THEN Round(1000 * Saved(p), Worst(p)) ELSE 0
             margins == {c - p.co2 : c \in p.others}
             own == {p.distance, p.co2, Saved(p), percent} \cup pines \cup margins
                      \cup p.others
  <2>1. /\ p.distance \in Nat /\ p.co2 \in Nat /\ p.others \subseteq Nat /\ Worst(p) \in Nat
        /\ Saved(p) \in Nat
        /\ Saved(p) > 0 => Worst(p) > 0
    BY <1>1, PlanAssumption, WorstIsAFigure DEF AgentsOnTrack, Saved
  <2>2. Round(Saved(p), 18) \in Nat
    BY <2>1 DEF Round
  <2>3. SUFFICES ASSUME NEW w \in text.numbers, w.as = "plain", w.n \notin -1000 .. 1000
                 PROVE  NearAny(w.n, own)
    <3>1. ~ text.blank
      BY <1>1 DEF AgentsOnTrack, TextFits, Template
    <3>2. own = OwnFigures(p)
      BY DEF OwnFigures
    <3> HIDE DEF own
    <3>3. \A w \in text.numbers :
            w.as = "plain" /\ w.n \notin -1000 .. 1000 => NearAny(w.n, OwnFigures(p))
      BY <2>3, <3>2
    <3> QED
      BY <3>1, <3>3 DEF NarrativeIsOfThePlan
  <2> DEFINE n == w.n
  <2>4. CASE text = Template(p)
    <3> DEFINE told == {p.distance, p.co2, Saved(p), Round(Saved(p), 18), 300, 10}
    <3>1. w \in [n : told, as : {"plain"}]
      BY <2>3, <2>4 DEF Template
    <3> HIDE DEF told
    <3>2. n \in told
      BY <3>1
    <3> HIDE DEF n
    <3>3. n \in {p.distance, p.co2, Saved(p), Round(Saved(p), 18)}
      BY <2>3, <3>2 DEF told, n
    <3>4. n \in Nat
      BY <2>1, <2>2, <3>3
    <3>5. n \in own
      BY <3>3
    <3> HIDE DEF own
    <3> QED
      BY <3>4, <3>5, NearItself DEF n
  <2>5. ASSUME NEW numbers \in Said, text = [blank |-> FALSE, numbers |-> numbers],
               Valid(numbers, p)
        PROVE  NearAny(w.n, own)
    <3>1. n \in Int /\ NearAny(n, Figures(p))
      <4>1. w \in numbers /\ w \in Written
        BY <2>3, <2>5, SaidAssumption
      <4>2. n \in Int
        BY <4>1 DEF Written
      <4>3. n \in Reads(w)
        BY <2>3 DEF Reads
      <4>4. n \in UNION {Reads(v) : v \in numbers}
        BY <4>1, <4>3
      <4> QED
        BY <2>3, <2>5, <4>2, <4>4 DEF Valid
    <3>2. PICK a \in Figures(p) :
            IF a = 0 THEN n = 0 ELSE 10 * (n - a) <= a /\ 10 * (a - n) <= a
      BY <3>1 DEF NearAny
    <3>3. a \notin {180, 66, 40, 300}
      BY <2>3, <3>1, <3>2
    <3>4. a \in Derived(p) => a \in {percent} \cup pines \cup margins
      <4>1. Saved(p) > 0 => percent = Round(1000 * Saved(p), Worst(p))
        BY <2>1
      <4>2. SUFFICES ASSUME a \in Derived(p) PROVE a \in {percent} \cup pines \cup margins
        OBVIOUS
      <4>3. CASE \E c \in p.others : a = c - p.co2
        BY <4>3
      <4>4. CASE Saved(p) > 0 /\ a \in {Round(Saved(p), 18), Round(Saved(p), 6600)}
        BY <4>4
      <4>5. CASE Saved(p) > 0 /\ a = Round(1000 * Saved(p), Worst(p))
        BY <4>1, <4>5
      <4> QED
        BY <4>2, <4>3, <4>4, <4>5 DEF Derived
    <3>5. a \in {p.distance, p.co2, Saved(p)} \cup p.others \cup Derived(p)
      BY <3>2, <3>3 DEF Figures
    <3>6. a \in own
      BY <3>4, <3>5
    <3> QED
      BY <3>2, <3>6 DEF NearAny, n
  <2> QED
    BY <1>1, <2>4, <2>5 DEF AgentsOnTrack, TextFits
<1>2. AgentsOnTrack => NarrativeIsOfThePlan
  BY <1>1 DEF NarrativeIsOfThePlan
<1> QED
  BY <1>2, AgentsStayOnTrack, PTL
=============================================================================
