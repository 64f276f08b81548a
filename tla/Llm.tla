--------------------------------- MODULE Llm ---------------------------------
(***************************************************************************)
(* The agents that ask a language model (llm/agents, llm/client.py,        *)
(* llm/schemas.py, llm/validator.py) and their two users: POST /parse      *)
(* (services/parse_service.py) and the narrative of a plan                 *)
(* (_generate_narrative in services/routing_service.py).                   *)
(*                                                                         *)
(* The model may answer a call with anything, or the call may raise.  A    *)
(* weight is given in hundredths.  Figures are given in tenths; a text is  *)
(* what it says: nothing at all, or some numbers, as they are written.     *)
(***************************************************************************)
EXTENDS Integers, FiniteSets, FiniteSetsExt

CONSTANTS
  Plan,      \* the figures of plans: recommended distance and CO2, and the
             \* CO2 of the alternatives
  Said,      \* the sets of written numbers the model may put into a narrative
  Composed,  \* the weights the model may compose: <<distance, duration, co2>>
  Site       \* the sites the model may name in constraints

Agent == {"planner", "constraint", "weights", "narrative"}

\* How often an agent asks before it gives up: all but the extractor twice.
Budget(a) == IF a = "constraint" THEN 1 ELSE 2

VARIABLES
  ask,      \* the request: which of the two, whether a key is configured, the plan
  at,       \* what each agent is doing
  calls,    \* the calls each agent made
  needs,    \* the agents the planner asks for
  weights,  \* the weights composed, with the sum they are to be divided by
  found,    \* the sites with constraints
  text,     \* the narrative: blank or not, and its numbers
  stage     \* what has become of the request

vars == <<ask, at, calls, needs, weights, found, text, stage>>

Blank == [blank |-> TRUE, numbers |-> {}]
Balanced == <<1, 1, 1, 3>>

-----------------------------------------------------------------------------
(* Weights *)

\* WeightSpec: each in [0, 1], the sum off by 0.05 at most.
SumOfWeights(w) == w[1] + w[2] + w[3]
WellComposed(w) ==
  (\A i \in 1 .. 3 : w[i] \in 0 .. 100) /\ SumOfWeights(w) \in 95 .. 105

\* Mutant: the weights are handed on as they came.
RescaledNot(w) == <<w[1], w[2], w[3], 100>>

\* _normalize_sum divides by the sum.
Rescaled(w) == <<w[1], w[2], w[3], SumOfWeights(w)>>

\* eco.normalizer.Weights, which a plan builds from the weights it is given.
AcceptedByPlan(w) ==
  LET sum == w[1] + w[2] + w[3]
  IN /\ \A i \in 1 .. 3 : w[i] \in 0 .. w[4]
     /\ 100 * sum <= 101 * w[4] /\ 100 * sum >= 99 * w[4]

-----------------------------------------------------------------------------
(* Numbers *)

\* The figures handed to the model, and those derived from them beforehand.
Worst(p) == IF p.others = {} THEN p.co2 ELSE Max(p.others)
Saved(p) == IF Worst(p) > p.co2 THEN Worst(p) - p.co2 ELSE 0
Round(x, y) == (2 * x + y) \div (2 * y)

\* Distances and CO2 are not negative, and a plan has finitely many alternatives.
ASSUME PlanAssumption ==
  \A p \in Plan : p.distance \in Nat /\ p.co2 \in Nat
                 /\ p.others \subseteq Nat /\ IsFiniteSet(p.others)

\* A number as it is written: plainly (as a negative one after a hyphen), in
\* three groups or more (1,234,567), or right after a letter or an underscore.
Written == [n : Int, as : {"plain"}] \cup [n : Nat, as : {"grouped", "attached"}]

ASSUME SaidAssumption == \A numbers \in Said : numbers \subseteq Written

Derived(p) ==
  (IF Saved(p) > 0 THEN {Round(Saved(p), 18), Round(Saved(p), 6600)} ELSE {})
    \cup (IF Saved(p) > 0 THEN {Round(1000 * Saved(p), Worst(p))} ELSE {})
    \cup {c - p.co2 : c \in {c \in p.others : c = Min(p.others) /\ c > p.co2}}

\* What the pattern of extract_numbers finds of a written number: a whole number of
\* three groups is two numbers to it, one next to a letter lacks its first digit.
Reads(w) ==
  CASE w.as = "plain" -> {w.n}
    [] w.as = "grouped" -> {10 * (w.n \div 10000), w.n % 10000}
    [] w.as = "attached" ->
         {IF w.n = 0 THEN 0 ELSE w.n % (CHOOSE p \in {10^k : k \in 0 .. 8} : w.n \div p \in 1 .. 9)}

\* Durations, and the distances of the alternatives, are left out.
Figures(p) == {p.distance, p.co2, Saved(p)} \cup p.others \cup Derived(p)
                \cup {180, 66, 40, 300}

\* is_close_to_any: within a tenth of an allowed number.
NearAny(n, allowed) ==
  \E a \in allowed : IF a = 0 THEN n = 0 ELSE 10 * (n - a) <= a /\ 10 * (a - n) <= a

\* validate_narrative lets numbers up to 100 pass.
Valid(numbers, p) ==
  \A n \in UNION {Reads(w) : w \in numbers} : n \in -1000 .. 1000 \/ NearAny(n, Figures(p))

\* _template_fallback
Template(p) ==
  [blank |-> FALSE,
   numbers |-> [n : {p.distance, p.co2, Saved(p), Round(Saved(p), 18), 300, 10}, as : {"plain"}]]

-----------------------------------------------------------------------------
(* One call and its answer *)

Calling(a) == at[a] = "calling"

\* Mutant: the count of attempts starts again.
RejectedForever(a, last) ==
  /\ calls' = [calls EXCEPT ![a] = (@ + 1) % Budget(a)]
  /\ UNCHANGED at

\* An answer that cannot be used: asked again, or given up.
Rejected(a, last) ==
  /\ calls' = [calls EXCEPT ![a] = @ + 1]
  /\ at' = [at EXCEPT ![a] = IF calls[a] + 1 >= Budget(a) THEN last ELSE "calling"]

Accepted(a) ==
  /\ calls' = [calls EXCEPT ![a] = @ + 1]
  /\ at' = [at EXCEPT ![a] = "valid"]

Init ==
  /\ ask \in [for : {"parse", "narrative"}, key : BOOLEAN, plan : Plan]
  /\ at = [a \in Agent |-> "idle"]
  /\ calls = [a \in Agent |-> 0]
  /\ needs = {} /\ weights = << >> /\ found = {} /\ text = Blank
  /\ stage = "asked"

\* Mutant: the key is not looked for.
BeginUnkeyed ==
  /\ stage = "asked"
  /\ at' = [at EXCEPT ![IF ask.for = "parse" THEN "planner" ELSE "narrative"] = "calling"]
  /\ stage' = "waiting"
  /\ UNCHANGED <<ask, calls, needs, weights, found, text>>

\* Without a key a parse is answered with 503, and a plan has no narrative.
Begin ==
  /\ stage = "asked"
  /\ IF ask.key
       THEN /\ at' = [at EXCEPT ![IF ask.for = "parse" THEN "planner" ELSE "narrative"]
                                   = "calling"]
            /\ stage' = "waiting"
       ELSE /\ stage' = IF ask.for = "parse" THEN "unavailable" ELSE "untold"
            /\ UNCHANGED at
  /\ UNCHANGED <<ask, calls, needs, weights, found, text>>

\* The plan says which of the other agents are to be asked, both at once.
\* A second invalid plan is no ParseError: it is answered with a 500.
PlannerAnswers ==
  /\ Calling("planner")
  /\ \/ /\ Rejected("planner", "givenUp")
        /\ stage' = IF at'["planner"] = "givenUp" THEN "lost" ELSE stage
        /\ UNCHANGED needs
     \/ /\ calls' = [calls EXCEPT !["planner"] = @ + 1]
        /\ needs' \in SUBSET {"constraint", "weights"}
        /\ at' = [a \in Agent |-> IF a = "planner" THEN "valid"
                                  ELSE IF a \in needs' THEN "calling" ELSE at[a]]
        /\ UNCHANGED stage
  /\ UNCHANGED <<ask, weights, found, text>>

\* The second set of weights that does not fit is replaced by balanced ones.
ComposerAnswers ==
  /\ Calling("weights")
  /\ \/ /\ Rejected("weights", "fallback")
        /\ weights' = IF at'["weights"] = "fallback" THEN Balanced ELSE weights
     \/ \E w \in Composed :
          /\ WellComposed(w)
          /\ Accepted("weights")
          /\ weights' = Rescaled(w)
  /\ UNCHANGED <<ask, needs, found, text, stage>>

\* Constraints that do not fit count as none.  The sites are not checked.
ExtractorAnswers ==
  /\ Calling("constraint")
  /\ \/ Rejected("constraint", "fallback") /\ UNCHANGED found
     \/ Accepted("constraint") /\ found' \in SUBSET Site
  /\ UNCHANGED <<ask, needs, weights, text, stage>>

\* Mutant: the second text is taken as it is.
TellsUnchecked ==
  /\ Calling("narrative")
  /\ \E numbers \in Said :
       LET said == [blank |-> FALSE, numbers |-> numbers]
       IN IF Valid(numbers, ask.plan) \/ calls["narrative"] = 1
            THEN Accepted("narrative") /\ text' = said /\ stage' = "told"
            ELSE Rejected("narrative", "fallback") /\ UNCHANGED <<text, stage>>
  /\ UNCHANGED <<ask, needs, weights, found>>

\* A text that is blank (thoughts are left out) or has numbers that are not
\* the plan's is asked for again, then replaced by the template.
Tells ==
  /\ Calling("narrative")
  /\ \E said \in {Blank} \cup [blank : {FALSE}, numbers : Said] :
       IF ~ said.blank /\ Valid(said.numbers, ask.plan)
         THEN Accepted("narrative") /\ text' = said /\ stage' = "told"
         ELSE /\ Rejected("narrative", "fallback")
              /\ IF at'["narrative"] = "fallback"
                   THEN text' = Template(ask.plan) /\ stage' = "told"
                   ELSE UNCHANGED <<text, stage>>
  /\ UNCHANGED <<ask, needs, weights, found>>

\* Mutant: gather passes the first exception on.
RaisesThrough(a) ==
  /\ Calling(a)
  /\ at' = [at EXCEPT ![a] = "raised"]
  /\ calls' = [calls EXCEPT ![a] = @ + 1]
  /\ stage' = IF a = "narrative" THEN "untold" ELSE "lost"
  /\ UNCHANGED <<ask, needs, weights, found, text>>

\* A call raises: no agent tries again.  gather keeps the exception of an
\* agent as its result; a plan goes without its narrative.
Raises(a) ==
  /\ Calling(a)
  /\ at' = [at EXCEPT ![a] = "raised"]
  /\ calls' = [calls EXCEPT ![a] = @ + 1]
  /\ stage' = CASE a = "planner" -> "lost"
                [] a = "narrative" -> "untold"
                [] OTHER -> stage
  /\ UNCHANGED <<ask, needs, weights, found, text>>

\* Both agents have ended.
Respond ==
  /\ stage = "waiting" /\ at["planner"] = "valid"
  /\ \A a \in needs : ~ Calling(a)
  /\ stage' = "answered"
  /\ UNCHANGED <<ask, at, calls, needs, weights, found, text>>

Next ==
  \/ Begin \/ PlannerAnswers \/ ComposerAnswers \/ ExtractorAnswers \/ Tells \/ Respond
  \/ \E a \in Agent : Raises(a)

Spec == Init /\ [][Next]_vars

\* Every call of the model is answered or raises.  The client sets no limit of
\* its own: this is what the code relies on, not what it ensures.
FairSpec == Spec /\ WF_vars(Next)

-----------------------------------------------------------------------------
(* Properties *)

\* Agents are asked only with a key, for what the request is about, and no more
\* often than their budget.
TypeOK ==
  /\ at \in [Agent -> {"idle", "calling", "valid", "fallback", "givenUp", "raised"}]
  /\ \A a \in Agent : calls[a] \in 0 .. Budget(a)
  /\ stage \in {"asked", "waiting", "answered", "told", "untold", "unavailable", "lost"}
  /\ \A a \in Agent : at[a] # "idle" =>
       ask.key /\ (a = "narrative" <=> ask.for = "narrative")
  /\ found \subseteq Site /\ needs \subseteq {"constraint", "weights"}

\* Whatever sum the model composed, the weights of a parse are weights that a
\* plan accepts: the tolerance of the composer (0.05) is wider than the plan's.
ComposedWeightsAccepted == stage = "answered" /\ weights # << >> => AcceptedByPlan(weights)

\* A parse is lost only with its planner.  It lacks weights it should have only
\* if a call for them raised, however the other agent fared.
OneAgentCostsOnlyItself ==
  /\ stage = "lost" => at["planner"] \in {"givenUp", "raised"}
  /\ stage = "answered" /\ "weights" \in needs /\ weights = << >> => at["weights"] = "raised"

\* The figures of a plan itself and those derived from them.
OwnFigures(p) ==
  LET percent == IF Worst(p) > 0 THEN Round(1000 * Saved(p), Worst(p)) ELSE 0
      pines == {Round(Saved(p), 18), Round(Saved(p), 6600)}
      margins == {c - p.co2 : c \in p.others}
  IN {p.distance, p.co2, Saved(p), percent} \cup pines \cup margins \cup p.others

\* What a plan tells about itself, in the words of the model, after a complaint
\* or from the template, is not blank, and every plainly written number above a
\* hundred in it is one of the plan's, or derived from them, give or take a tenth.
\* Of a number that is not written plainly nothing is known.  The head of
\* validator.py and PRD.md 14.4 promise more, a twentieth and no exception for
\* small numbers: validate_narrative, whose docstring says a tenth, does not keep it.
NarrativeIsOfThePlan ==
  stage = "told" =>
    /\ ~ text.blank
    /\ \A w \in text.numbers :
         w.as = "plain" /\ w.n \notin -1000 .. 1000 => NearAny(w.n, OwnFigures(ask.plan))

\* Every request ends, with an answer, a text, without one or with an error.
RequestEnds == <>(stage \notin {"asked", "waiting"})
=============================================================================
