-------------------------------- MODULE MCLlm --------------------------------
(* Plans that save nothing, little and much; weights at the ends of what is  *)
(* tolerated; texts that are right, rounded, wrong, without numbers, or with *)
(* numbers that are split or cut when they are read.                        *)
EXTENDS Llm

Figure(distance, co2, others) == [distance |-> distance, co2 |-> co2, others |-> others]
MCPlan == {Figure(3980, 604890, {640890, 612000}), Figure(120, 12000, {}),
           Figure(1050, 50000, {40000, 50000})}
Plainly(numbers) == [n : numbers, as : {"plain"}]
MCSaid == {Plainly(numbers) : numbers \in
             {{}, {604000, 2000}, {604890, 3980}, {5000}, {300}, {20000, 990}, {3980, -6000}}}
          \cup {{[n |-> 40000500, as |-> "grouped"]}, {[n |-> 12345670, as |-> "grouped"]},
                {[n |-> 50000, as |-> "attached"]}, {[n |-> 604890, as |-> "attached"]}}

MCComposed == {<<50, 25, 30>>, <<40, 30, 25>>, <<95, 0, 0>>, <<34, 33, 33>>, <<50, 50, 6>>,
               <<101, 0, 0>>, <<0, 0, 0>>}
=============================================================================
