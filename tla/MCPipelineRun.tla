---------------------------- MODULE MCPipelineRun ----------------------------
(* Two pipeline files, between them with every primitive, and an upstream of  *)
(* two items.                                                                 *)
EXTENDS PipelineRun

MCFiles == {"fetched", "queried", "empty", "nowhere", "broken"}

always == [field |-> "", value |-> ""]
never == [field |-> "", value |-> "never"]

base == [uses |-> "transform", when |-> TRUE, alt |-> "", each |-> "", out |-> "",
         left |-> "", right |-> "", of |-> <<>>, on |-> "", carry |-> {}, rules |-> <<>>,
         then |-> [when |-> never, clear |-> {}], test |-> always, records |-> <<>>,
         failWhenEmpty |-> FALSE, tolerate |-> {}]

Do(uses, out) == [base EXCEPT !.uses = uses, !.out = out]

\* The list of items is a constant; each item is asked for, and what comes back
\* is joined, graded, deduplicated and filtered.
Looped == <<
    [Do("const", "items") EXCEPT !.records = <<[item |-> "i1"], [item |-> "i2"], [item |-> "i3"]>>],
    [Do("const", "names") EXCEPT !.records =
        <<[item |-> "i1", name |-> "n0"], [item |-> "i1", name |-> "n1"]>>],
    [Do("get", "rows") EXCEPT !.each = "items", !.failWhenEmpty = TRUE, !.tolerate = {"transport", "empty", "reauth"}],
    [Do("join", "") EXCEPT !.left = "rows", !.right = "names", !.on = "item", !.carry = {"name"}],
    [Do("derive", "") EXCEPT !.on = "grade",
        !.rules = <<[when |-> [field |-> "item", value |-> "i1"], value |-> "high"],
                    [when |-> always, value |-> "low"]>>,
        !.then = [when |-> [field |-> "grade", value |-> "low"], clear |-> {"note"}]],
    [Do("dedupe", "graded") EXCEPT !.on = "key"],
    [Do("const", "none") EXCEPT !.when = FALSE],
    [Do("filter", "") EXCEPT !.test = [field |-> "drop", value |-> ""]],
    [Do("transform", "") EXCEPT !.failWhenEmpty = TRUE] >>

\* One posted query; a step replaced by its `else:', and a concatenation.
Posted == <<
    [Do("const", "extra") EXCEPT !.records =
        <<[item |-> "i1", key |-> "k9", zone |-> "b", cost |-> 1]>>],
    Do("post", "rows"),
    [Do("filter", "kept") EXCEPT !.when = FALSE, !.alt = "rows"],
    [Do("concat", "") EXCEPT !.of = <<"kept", "extra">>] >>

plan == [groupBy |-> "zone", exclude |-> <<>>, annotate |-> [when |-> never, as |-> ""],
         orderBy |-> "cost", budget |-> 3, indexed |-> TRUE, renderBy |-> "",
         refuseSplit |-> never, folded |-> [z \in {"a", "b"} |-> z]]

fetched == [valid |-> TRUE, upstream |-> TRUE, steps |-> Looped, counts |-> {"transport", "reauth", "none"},
            limit |-> 0, retire |-> FALSE, catalog |-> plan]

queried == [fetched EXCEPT !.steps = Posted, !.counts = {}, !.retire = TRUE,
            !.catalog = [plan EXCEPT
                !.exclude = <<[field |-> "key", value |-> "k1"]>>,
                !.annotate = [when |-> [field |-> "key", value |-> "k9"], as |-> "late"]]]

\* "empty" excludes every record, "nowhere" calls an upstream it has none of.
MCText == [f \in MCFiles |->
    CASE f = "fetched" -> fetched
      [] f = "queried" -> queried
      [] f = "empty" -> [queried EXCEPT !.catalog.exclude = <<always>>]
      [] f = "nowhere" -> [queried EXCEPT !.upstream = FALSE]
      [] f = "broken" -> [queried EXCEPT !.valid = FALSE]]

\* Costs are what catalogs are ordered by.
MCWeight == [n \in 1 .. 4 |-> n]

row1 == [item |-> "i1", key |-> "k1", zone |-> "a", cost |-> 2, note |-> "x"]
row2 == [item |-> "i1", key |-> "k2", zone |-> "a", cost |-> 2]
row3 == [item |-> "i2", key |-> "k3", zone |-> "b", cost |-> 4, note |-> "y"]

MCAnswer == [i \in {"i1", "i2", "i3", NoItem} |->
    CASE i = "i1" -> <<row2, row1, row1>>
      [] i = "i2" -> <<row3>>
      [] i = "i3" -> <<>>
      [] i = NoItem -> <<row1, row2, row3>>]
=============================================================================
