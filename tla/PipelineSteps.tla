---------------------------- MODULE PipelineSteps ----------------------------
(***************************************************************************)
(* What the steps of a publish pipeline compute, and how the records they   *)
(* end with become catalogs.  A record is a function from field names to    *)
(* values, a collection a sequence of records, a `when:' a test of one      *)
(* field.  A result carries ok = FALSE where the code returns an error.     *)
(*                                                                         *)
(* Loops that keep or sort records are defined by the positions they keep   *)
(* and the order these come in, not by recursion, so that it can be proved  *)
(* what they do to a collection of any length.                              *)
(***************************************************************************)
EXTENDS Naturals, Sequences, SequencesExt, FiniteSetsExt

CONSTANT Weight         \* Weight[v]: where value v stands among all that are
                        \* ordered by: numbers by size, other values as text

ASSUME WeightAssumption == Weight \in [DOMAIN Weight -> Nat]

\* renderScalar of a field: a missing field and a null both render empty.
Render(r, f) == IF f \in DOMAIN r THEN r[f] ELSE ""

\* predicate, catalogMatches and condition; [field |-> "", value |-> ""] always
\* holds, as a rule without `when:' does.
Holds(test, r) == Render(r, test.field) = test.value

Ok(s) == [ok |-> TRUE, out |-> s]
Err == [ok |-> FALSE, out |-> <<>>]

\* The element of a singleton: {f(x) : x \in {e}} has TLC compute e once.
The(S) == CHOOSE x \in S : TRUE

\* The elements of s at the positions P, by a field of theirs, stably; no field
\* leaves them in their own order.  (SubSeq takes all there are.)
Arranged(s, P, by) ==
    LET weight(i) == IF by # "" /\ Render(s[i], by) \in DOMAIN Weight
                     THEN Weight[Render(s[i], by)] ELSE 0
        before(j, i) == weight(j) < weight(i) \/ (weight(j) = weight(i) /\ j < i)
        place(i) == 1 + Cardinality({j \in P : before(j, i)})
        size == Cardinality(P)
    IN  SubSeq([k \in 1 .. size |-> s[CHOOSE i \in P : place(i) = k]], 1, size)

Kept(s, P) == Arranged(s, P, "")

-----------------------------------------------------------------------------
(* The primitives.                                                         *)

\* A left record takes the carried fields of the last right record with its key;
\* without a match it is kept as it is.
Join(left, right, on, carry) ==
    LET matching(r) == {j \in DOMAIN right : /\ on \in DOMAIN r \cap DOMAIN right[j]
                                             /\ Render(right[j], on) = Render(r, on)}
        merged(r) == LET m == right[Max(matching(r))]
                     IN  [f \in carry \cap DOMAIN m |-> m[f]] @@ r
    IN  Ok([i \in DOMAIN left |->
              IF matching(left[i]) # {} THEN merged(left[i]) ELSE left[i]])

\* The first rule that holds gives the field its value; then the fields to clear
\* under the follow-up test are removed.  No rule and no default is an error.
Derive(s, field, rules, then) ==
    LET hits(r) == {k \in DOMAIN rules : Holds(rules[k].when, r)}
        derived(r) == [f \in {field} |-> rules[Min(hits(r))].value] @@ r
        edited(r) == IF Holds(then.when, r)
                     THEN Restrict(r, DOMAIN r \ then.clear) ELSE r
    IN  IF \A i \in DOMAIN s : hits(s[i]) # {}
        THEN Ok([i \in DOMAIN s |-> edited(derived(s[i]))]) ELSE Err

\* The first record of each key is kept; a record without a usable key stops the
\* run instead of being folded into the others.
Dedupe(s, key) ==
    IF \E i \in DOMAIN s : Render(s[i], key) = "" THEN Err
    ELSE Ok(Kept(s, {i \in DOMAIN s : \A j \in 1 .. i - 1 : Render(s[j], key) # Render(s[i], key)}))

Filter(s, when) == Ok(Kept(s, {i \in DOMAIN s : Holds(when, s[i])}))

Concat(collections) == Ok(FlattenSeq(collections))

-----------------------------------------------------------------------------
(* buildCatalogs.                                                          *)

\* sortRecords and sortRecordsBy.
Ordered(s, by) == The({Arranged(x, DOMAIN x, by) : x \in {s}})

\* catalogExcluded.
Excluded(r, exclude) == \E k \in DOMAIN exclude : Holds(exclude[k], r)

\* The labels of catalogSelect, given by the record as it arrived.
Annotated(r, annotate) ==
    IF Holds(annotate.when, r) THEN [f \in {annotate.as} |-> "true"] @@ r ELSE r

\* catalogSelect and the sorting after it: of the records at the positions P, those
\* no exclude rule holds for, annotated, in order.
Selected(c, s, P) ==
    Arranged([i \in DOMAIN s |-> Annotated(s[i], c.annotate)],
             {i \in P : ~Excluded(s[i], c.exclude)}, c.orderBy)

\* catalogChunk, record by record: the chunk it goes to and what that chunk has
\* spent then; one is opened for the first record, and for a record that would
\* exceed the budget.
Dealt(s, budget) ==
    LET put(last, n) ==
            IF n = 1 \/ last.spent + s[n].cost > budget
            THEN [chunk |-> last.chunk + 1, spent |-> s[n].cost]
            ELSE [last EXCEPT !.spent = @ + s[n].cost]
        dealt[n \in 0 .. Len(s)] ==
            IF n = 0 THEN [chunk |-> 0, spent |-> 0]
            ELSE The({put(last, n) : last \in {dealt[n - 1]}})
    IN  dealt

\* Mutant: a record that does not fit any more is left out of the next chunk.
Chunked_Drops(p, budget) ==
    LET opens(dealt, n) == n > 1 /\ dealt[n].chunk # dealt[n - 1].chunk
        cut(s, dealt) == [k \in 1 .. dealt[Len(s)].chunk |->
                             Kept(s, {n \in DOMAIN s : dealt[n].chunk = k /\ ~opens(dealt, n)})]
    IN  IF budget = 0 THEN <<p>> ELSE The({cut(s, Dealt(s, budget)) : s \in {p}})

\* The chunks; no budget means one.
Chunked(p, budget) ==
    LET cut(s, dealt) == [k \in 1 .. dealt[Len(s)].chunk |->
                             Kept(s, {n \in DOMAIN s : dealt[n].chunk = k})]
    IN  IF budget = 0 THEN <<p>> ELSE The({cut(s, Dealt(s, budget)) : s \in {p}})

\* catalogGroup: the keys, and the members of one.
Keys(s, by) == {Render(s[i], by) : i \in DOMAIN s}

Members(s, by, key) == {i \in DOMAIN s : Render(s[i], by) = key}

\* What is left of a group to publish, cut into chunks; a group that is excluded
\* as a whole has none.
Chunks(c, s, key) ==
    LET p == Selected(c, s, Members(s, c.groupBy, key))
    IN  IF p = <<>> THEN <<>> ELSE Chunked(p, c.budget)

\* catalogCost: with a budget, every record to publish says what it costs.
Costed(c, s) ==
    c.budget > 0 =>
        \A i \in DOMAIN s : LET r == Annotated(s[i], c.annotate)
                           IN  Excluded(s[i], c.exclude) \/ ("cost" \in DOMAIN r /\ r.cost \in Nat)

\* catalogRender and catalogSlug: a slug that leaves the index out is the same
\* for every chunk of its group.
Rendered(c, key, chunks) ==
    {[slug |-> <<key, IF c.indexed THEN i ELSE 0>>,
      content |-> Ordered(chunks[i], c.renderBy)] : i \in DOMAIN chunks}

\* The catalogs of a run.  A record with no group, a cost that is no number, a
\* group that may not be split and two slugs that are equal up to case (c.folded)
\* are errors.
BuiltCatalogs(c, s) ==
    LET groups == [key \in Keys(s, c.groupBy) |-> Chunks(c, s, key)]
        published == {key \in DOMAIN groups : groups[key] # <<>>}
        split == {key \in published : DOMAIN groups[key] # {1}}
    IN  IF /\ \A i \in DOMAIN s : c.groupBy \in DOMAIN s[i]
           /\ Costed(c, s)
           /\ \A key \in split : c.indexed /\ ~Holds(c.refuseSplit, groups[key][1][1])
           /\ \A k, l \in published : c.folded[k] = c.folded[l] => k = l
        THEN [ok |-> TRUE, out |-> UNION {Rendered(c, k, groups[k]) : k \in published}]
        ELSE Err
=============================================================================
