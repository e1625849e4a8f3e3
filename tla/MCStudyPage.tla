---------------------------- MODULE MCStudyPage ----------------------------
EXTENDS StudyPage
MCResults ==
    {[p \in Params |-> [s \in Seeds |-> IF p = 1 THEN <<s % 2, 1>> ELSE <<1, 1>>]],
     [p \in Params |-> [s \in Seeds |-> <<s % 2, (s + 1) % 2>>]],
     [p \in Params |-> [s \in Seeds |-> IF p = 1 /\ s = 1 THEN Failed ELSE <<p, s % 2>>]]}
MCDecoded == [INIT |-> {<<1, 1>>, <<1, 2>>}, EMPLOYED |-> {<<1, 1>>},
              ONLOOKER |-> [1 .. 2 -> {1, 2}], SCOUT |-> {<<1>>, <<2>>}]
MCSearchSeeds == <<1, 2>>
MCEvaluationSeeds == <<3>>
=============================================================================
