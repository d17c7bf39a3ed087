-------------------------- MODULE MCFieldPipeline --------------------------
(* One field, in every combination of the settings below, with two score dimensions and *)
(* three branches.                                                                      *)
EXTENDS FieldPipeline

MCWeights == [x |-> 0, y |-> 1]

Config(n, sel, m, s, t, f) ==
    [max |-> n, selection |-> sel, method |-> m, scored |-> s, terminates |-> t, feedback |-> f]
MCConfigs ==
    {Config(2, sel, m, TRUE, FALSE, TRUE) : sel \in {"highest", "lowest"},
                                      m \in {"", "weighted_average", "minimum", "maximum"}}
    \cup {Config(3, "highest", "custom", TRUE, TRUE, TRUE), Config(3, "latest", "", FALSE, TRUE, FALSE),
          Config(1, "highest", "custom", TRUE, TRUE, TRUE),
          Config(2, "latest", "", FALSE, TRUE, TRUE), Config(2, "first", "", FALSE, TRUE, TRUE),
          Config(2, "all", "", FALSE, FALSE, FALSE), Config(0, "latest", "", FALSE, FALSE, TRUE)}

Both(i, j) == [x |-> i, y |-> j]
MCScoreAnswers == {Both(0, 3), Both(2, 0), Both(2, 2), [x |-> 3], <<>>}

Num(n) == [num |-> TRUE, text |-> <<n>>]
Text(s) == [num |-> FALSE, text |-> s]
Cond(f, op, v, p) == [field |-> f, op |-> op, value |-> v, path |-> p]

MCBranches ==
    [high |-> [priority |-> 2, conditions |-> <<Cond("score", ">=", Num(5), FALSE),
                                                Cond("topic", "contains", Text(<<1>>), TRUE)>>],
     low |-> [priority |-> 1, conditions |-> <<Cond("score", "lt", Num(5), FALSE)>>],
     same |-> [priority |-> 1, conditions |-> <<Cond("score", "!=", Text(<<5>>), FALSE)>>]]

MCEvaluations == {[score |-> Num(4)], [score |-> Num(5)], [score |-> Text(<<5>>)], <<>>}
MCGenerated == [topic |-> Text(<<1, 2>>)]
=============================================================================
