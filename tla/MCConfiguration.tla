-------------------------- MODULE MCConfiguration --------------------------
(* Starlark lists of up to three entries and a few JSON documents.           *)
EXTENDS Configuration

Other(rest) == [FakerWorkload EXCEPT !.key = "other", !.rest = rest]

Item == [barrier |-> FALSE, warmup |-> FALSE, mode |-> "concurrent", concurrency |-> 3,
         pool |-> 0, rate |-> Unset, workload |-> NoWorkload, target |-> "",
         until |-> "none", within |-> TRUE]
Rated(mode, rate) == [Item EXCEPT !.mode = mode, !.rate = rate, !.concurrency = Unset]

Core ==
  { Item, [Item EXCEPT !.concurrency = 2, !.warmup = TRUE, !.until = "positive"],
    [Item EXCEPT !.until = "positive"], [Item EXCEPT !.workload = Other("x")],
    [Item EXCEPT !.barrier = TRUE] }
Items ==
  Core \cup { [Item EXCEPT !.workload = Other("y")], Rated("poisson", 4),
              Rated("constant", 4), Rated("constant", 0),
              [Item EXCEPT !.mode = "conversation_pool", !.pool = 4] }

\* Entries that some check refuses, or that only the command line takes.
Odd ==
  { [Item EXCEPT !.mode = "burst"], [Item EXCEPT !.rate = 4],
    [Item EXCEPT !.concurrency = 0], [Item EXCEPT !.concurrency = 9],
    [Item EXCEPT !.barrier = TRUE, !.until = "positive"], [Item EXCEPT !.until = "zero"],
    [Item EXCEPT !.mode = "conversation_pool", !.pool = 2],
    [Item EXCEPT !.mode = "conversation_pool"],
    [Item EXCEPT !.target = "elsewhere"], [Item EXCEPT !.within = FALSE],
    [Item EXCEPT !.workload.within = FALSE, !.workload.key = "other"],
    [Item EXCEPT !.workload.kind = "fewshot", !.workload.key = "other"],
    [Item EXCEPT !.workload.path = "outside", !.workload.key = "other"] }

Star(items) == [form |-> "starlark", calls |-> 1, items |-> items,
                workload |-> FakerWorkload, target |-> ""]

\* In the lists of three, either one stop condition or several workloads.
Swept(l) == {k \in DOMAIN l : l[k].until # "none" /\ ~l[k].warmup}
Mixed(l) == \E k \in DOMAIN l : l[k].workload # NoWorkload
Triples == {l \in [1..3 -> Core] : Cardinality(Swept(l)) <= (IF Mixed(l) THEN 0 ELSE 1)}
Lists == Triples \cup [1..2 -> Items] \cup [1..1 -> Items]
Oddities == {<<i>> : i \in Odd} \cup {<<Item, i>> : i \in Odd} \cup {<<>>, [k \in 1..4 |-> Item]}

Json == [form |-> "json", known |-> TRUE, stages |-> <<>>, sweep |-> <<>>, warmup |-> FALSE,
         load |-> [mode |-> "unset", concurrency |-> Unset, pool |-> 0, rate |-> Unset],
         workload |-> FakerWorkload, within |-> TRUE]

Documents ==
  LET WithMode(d, m) == [d EXCEPT !.load.mode = m]
      Staged == [Json EXCEPT !.stages = <<[concurrency |-> 2, pool |-> 5],
                                          [concurrency |-> 3, pool |-> 0]>>]
      Ramp(a, b, n) == [Json EXCEPT !.sweep = <<[min |-> a, max |-> b, steps |-> n]>>]
      Warmed == [Staged EXCEPT !.warmup = TRUE]
  IN { WithMode(d, m) : d \in {Json, Staged, Warmed, Ramp(1, 4, 3), Ramp(4, 1, 3), Ramp(2, 5, 1)},
                        m \in {"unset", "burst", "constant", "conversation_pool"} }
     \cup { [WithMode(Warmed, "conversation_pool") EXCEPT !.load.pool = 6],
            [Json EXCEPT !.known = FALSE], [Json EXCEPT !.within = FALSE],
            [Json EXCEPT !.workload.kind = "fewshot"],
            [Json EXCEPT !.workload.kind = "unsupported"] }

MCSources ==
  {Star(l) : l \in Lists \cup Oddities} \cup Documents
  \cup {[Star(<<Item>>) EXCEPT !.calls = n] : n \in {0, 2}}
  \cup {[Star(<<Item>>) EXCEPT !.target = "elsewhere"]}

MCAsked == {AutoWorkers, 0, 3, 4}
MCTexts == STRING

\* Two stages at two rates.
RateSweep == {Star(<<Rated("constant", 4), Rated("constant", 8)>>)}
=============================================================================
