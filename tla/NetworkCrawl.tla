----------------------------- MODULE NetworkCrawl -----------------------------
(***************************************************************************)
(* The crawl of other networks: a tick that is due asks every network the   *)
(* registry lists as a source, a page at a time, and publishes each catalog *)
(* it is given, in batches, to our own discovery with the time at which the *)
(* copy stops being served.  The networks and the discovery service are     *)
(* outside the repository: Pages is what each network answers at each       *)
(* offset.  What a network holds does not change while it is walked, and no *)
(* two networks use one catalog id.                                         *)
(***************************************************************************)
EXTENDS Integers, Sequences, FiniteSets, SequencesExt

CONSTANTS Ticks,        \* ticks of the sync loop that may be under way together
          Registry,     \* the admitted networks, in the registry's order
          OurNetworkId,
          Holdings,     \* network id -> its resources, in order, with their catalogs
          Pages,        \* network id -> offset -> the page it answers
          Nameless,     \* catalogs without an id, or that cannot be stamped
          Size,         \* resource -> bytes
          Base, Offers, \* bytes of a document's other members, and of its offers
          Frame,        \* bytes that the member "resources" takes without its elements
          MaxDocBytes, PageSize, Refresh,
          MaxTime,      \* bound: the clock
          MaxFaults,    \* bound: failing calls and refusals
          MaxOffset     \* bound: offsets beyond it are not told apart

Resources == UNION {{x.res : x \in ToSet(Holdings[n])} : n \in DOMAIN Holdings}
CatalogsOf(n) == {x.catalog : x \in ToSet(Holdings[n])}
Catalogs == UNION {CatalogsOf(n) : n \in DOMAIN Holdings}

\* A catalog as a page has it, whole or cut, and a page: what it holds, and what
\* the network says it applied.
Docs(n) == [catalog : CatalogsOf(n), res : Seq(Resources)]
PageOf(docs) == [docs : docs, limit : Int, offset : Int, total : Int, returned : Int]

ASSUME NetworkCrawlAssumption ==
    /\ {MaxDocBytes, Refresh, MaxTime, MaxFaults, MaxOffset, Base, Offers, Frame} \subseteq Nat
    /\ PageSize \in Nat \ {0}
    /\ \A n \in DOMAIN Holdings : Len(Holdings[n]) <= MaxOffset
    /\ Size \in [Resources -> Nat]

\* The registry's entries, in an order.
ASSUME RegistryAssumption ==
    /\ Registry \in Seq(ToSet(Registry))
    /\ \A n \in ToSet(Registry) : n.id \in DOMAIN Holdings /\ n.ttl \in Nat

\* A network gives catalogs of its own, and any numbers for the page.
ASSUME PagesAssumption ==
    \A n \in DOMAIN Holdings : \A o \in 0 .. MaxOffset : Pages[n][o] \in PageOf(Seq(Docs(n)))

\* Page p of network n has the i-th resource n holds.
Shows(p, n, i) ==
    \E k \in DOMAIN p.docs : /\ p.docs[k].catalog = Holdings[n][i].catalog
                             /\ Holdings[n][i].res \in ToSet(p.docs[k].res)

\* Page p, asked for at offset o, has what lies between the places it says it
\* applied, or else the places asked for; a total, or a short page, leaves
\* nothing beyond it.
Counts(place, p, n, o) ==
    \A i \in DOMAIN Holdings[n] :
        IF p.limit > 0
        THEN /\ p.offset <= o /\ place[i] <= p.total
             /\ p.offset < place[i] /\ place[i] <= p.offset + p.limit => Shows(p, n, i)
        ELSE /\ o < place[i] /\ place[i] <= o + PageSize => Shows(p, n, i)
             /\ p.returned < PageSize => place[i] <= o + PageSize

\* The networks that count what they hold one way, be it in resources or in
\* catalogs; what such a network never shows has a place no walk comes to.  A
\* network that gives less than it was asked for before its end and reports no
\* page is not one of them.
Countable ==
    {n \in DOMAIN Holdings :
        \E place \in [DOMAIN Holdings[n] -> 1 .. (MaxOffset + PageSize + 1)] :
            \A o \in 0 .. MaxOffset : Counts(place, Pages[n][o], n, o)}

\* A catalog id is one network's, and a network has one entry.
ASSUME CatalogsAssumption ==
    \A i, j \in DOMAIN Registry :
        CatalogsOf(Registry[i].id) \cap CatalogsOf(Registry[j].id) # {} => i = j

VARIABLES pc,       \* where each tick is
          nets,     \* the networks its pass has left
          at,       \* fetchedAt: when it turned to the network it is walking
          gave,     \* when that network answered the page in hand
          offset,   \* where the walk is
          page,     \* the page in hand: what is left of it to publish, and what was applied
          batches,  \* the batches left of the catalog being sent
          refused,  \* one of its batches was not acknowledged
          running, last, clock,
          copies,   \* what our discovery holds, by catalog
          accepted, \* history: the catalogs whose publishing was reported done
          lossy,    \* history: something of the network under way was not taken
          walked,   \* history: the networks walked to their end without loss
          faults

passVars == <<nets, at, gave, offset, page, batches, refused, lossy>>
crawlVars == <<pc, passVars, running, last, clock, copies, accepted, walked, faults>>

NoPage == [docs |-> <<>>, limit |-> 0, offset |-> 0, total |-> 0, returned |-> 0]
Never == MaxTime + 1        \* the zero time of dueEvery.last

CrawlInit ==
    /\ pc = [t \in Ticks |-> "idle"] /\ nets = [t \in Ticks |-> <<>>]
    /\ at = [t \in Ticks |-> 0] /\ gave = [t \in Ticks |-> 0]
    /\ offset = [t \in Ticks |-> 0] /\ page = [t \in Ticks |-> NoPage]
    /\ batches = [t \in Ticks |-> <<>>] /\ refused = [t \in Ticks |-> FALSE]
    /\ running = FALSE /\ last = Never /\ clock = 0
    /\ copies = [c \in Catalogs |-> [held |-> {}, until |-> 0, gave |-> 0]]
    /\ accepted = {} /\ lossy = [t \in Ticks |-> FALSE] /\ walked = {} /\ faults = 0

Goto(t, l) == pc' = [pc EXCEPT ![t] = l]

-----------------------------------------------------------------------------
(* The schedule and the registry.                                          *)

\* dueEvery.due
Due == last = Never \/ clock - last >= Refresh

\* Mutant: the flag of a pass in flight is not looked at.
Free_Always == Due

\* claim: no pass is in flight and one is due.
Free == ~running /\ Due

\* tick: a tick that is turned away returns at once and leaves no trace.
Claim(t) ==
    /\ pc[t] = "idle" /\ Free
    /\ running' = TRUE /\ last' = clock /\ Goto(t, "list")
    /\ UNCHANGED <<passVars, clock, copies, accepted, walked, faults>>

\* crawlableNetworks
Crawlable ==
    LET among[i \in 0 .. Len(Registry)] ==
            IF i = 0 THEN <<>>
            ELSE IF Registry[i].id # OurNetworkId /\ Registry[i].source
            THEN Append(among[i - 1], Registry[i]) ELSE among[i - 1]
    IN  among[Len(Registry)]

\* run, up to its loop: a registry that fails ends the pass.
List(t) ==
    /\ pc[t] = "list"
    /\ \/ nets' = [nets EXCEPT ![t] = Crawlable] /\ Goto(t, "network") /\ UNCHANGED faults
       \/ faults < MaxFaults /\ faults' = faults + 1 /\ Goto(t, "release") /\ UNCHANGED nets
    /\ UNCHANGED <<at, gave, offset, page, batches, refused, lossy, running, last, clock,
                   copies, accepted, walked>>

Drop(t) == nets' = [nets EXCEPT ![t] = Tail(@)]

\* run, the head of its loop: a network that permits no copy, or names no
\* schema pack, is passed over.
Turn(t) ==
    /\ pc[t] = "network"
    /\ \/ nets[t] = <<>> /\ Goto(t, "release") /\ UNCHANGED passVars
       \/ /\ nets[t] # <<>>
          /\ at' = [at EXCEPT ![t] = clock]
          /\ IF Head(nets[t]).ttl = 0 \/ Head(nets[t]).packs = {}
             THEN Drop(t) /\ UNCHANGED <<pc, offset, lossy>>
             ELSE /\ Goto(t, "ask") /\ offset' = [offset EXCEPT ![t] = 0]
                  /\ lossy' = [lossy EXCEPT ![t] = FALSE] /\ UNCHANGED nets
          /\ UNCHANGED <<gave, page, batches, refused>>
    /\ UNCHANGED <<running, last, clock, copies, accepted, walked, faults>>

-----------------------------------------------------------------------------
(* Asking: discover, discoverPage, appliedPage.                            *)

Lesser(a, b) == IF a < b THEN a ELSE b

\* A failure ends the walk of the network, not the pass.
Ask(t) ==
    /\ pc[t] = "ask"
    /\ \/ /\ page' = [page EXCEPT ![t] = Pages[Head(nets[t]).id][offset[t]]]
          /\ gave' = [gave EXCEPT ![t] = clock]
          /\ Goto(t, "page") /\ UNCHANGED <<nets, faults>>
       \/ /\ faults < MaxFaults /\ faults' = faults + 1
          /\ Drop(t) /\ Goto(t, "network") /\ UNCHANGED <<page, gave>>
    /\ UNCHANGED <<at, offset, batches, refused, lossy, running, last, clock, copies, accepted,
                   walked>>

\* Mutant: the limit asked for is taken for the limit applied.
After_Asked(p, o) ==
    IF p.limit <= 0 THEN [next |-> o + PageSize, done |-> p.returned < PageSize]
    ELSE [next |-> p.offset + PageSize, done |-> p.offset + PageSize >= p.total]

\* appliedPage.after
After(p, o) ==
    IF p.limit <= 0 THEN [next |-> o + PageSize, done |-> p.returned < PageSize]
    ELSE [next |-> p.offset + p.limit, done |-> p.offset + p.limit >= p.total]

\* Mutant: the walk goes on wherever it is sent.
Stalled_Never(a, o) == FALSE

\* discover's guard against a network that does not move.
Stalled(a, o) == a.next <= o

\* The end of a page: the walk is over, stopped, or goes on.
Turned(t) ==
    /\ pc[t] = "page" /\ page[t].docs = <<>>
    /\ LET a == After(page[t], offset[t]) IN
          \/ /\ a.done \/ Stalled(a, offset[t])
             /\ walked' = IF a.done /\ ~lossy[t] THEN walked \cup {Head(nets[t]).id} ELSE walked
             /\ Drop(t) /\ Goto(t, "network") /\ UNCHANGED offset
          \/ /\ ~a.done /\ ~Stalled(a, offset[t])
             /\ offset' = [offset EXCEPT ![t] = Lesser(a.next, MaxOffset)]
             /\ Goto(t, "ask") /\ UNCHANGED <<walked, nets>>
    /\ UNCHANGED <<at, gave, page, batches, refused, lossy, running, last, clock, copies,
                   accepted, faults>>

-----------------------------------------------------------------------------
(* Publishing: publishPage, publishOne, DiscoverySink.Send, Client.Push.   *)

\* The bytes of resources, with their separators.
Cost(rs) ==
    LET used[i \in 0 .. Len(rs)] == IF i = 0 THEN 0 ELSE used[i - 1] + Size[rs[i]] + 1
    IN  used[Len(rs)]

\* The bytes of a document: only the lead batch carries the offers.
DocBytes(rs, lead) == Base + (IF lead THEN Offers ELSE 0) + Frame + Cost(rs)

\* Mutant: the lead's offers are not counted.
Budget_NoOffers(lead) == IF Base > MaxDocBytes THEN 0 ELSE MaxDocBytes - Base

\* The bytes left for resources, which leave the frame out of account.
Budget(lead) == LET b == Base + (IF lead THEN Offers ELSE 0)
                IN  IF b > MaxDocBytes THEN 0 ELSE MaxDocBytes - b

\* The resource that does not fit opens the next batch.
Spill(bs, r) == Append(bs, <<r>>)

\* As many resources as fit, and at least one, per batch.
Fill(bs, r) ==
    IF Last(bs) # <<>> /\ Cost(Append(Last(bs), r)) > Budget(Len(bs) = 1)
    THEN Spill(bs, r)
    ELSE Append(Front(bs), Append(Last(bs), r))

\* BatchCatalog: a document that fits, or has no resources, is sent as it is.
BatchCatalog(rs) ==
    LET filled[i \in 0 .. Len(rs)] ==
            IF i = 0 THEN << <<>> >> ELSE Fill(filled[i - 1], rs[i])
    IN  IF MaxDocBytes = 0 \/ DocBytes(rs, TRUE) <= MaxDocBytes \/ rs = <<>> THEN <<rs>>
        ELSE filled[Len(rs)]

\* The catalog in hand is dealt with.
Dealt(t) == page' = [page EXCEPT ![t] = [page[t] EXCEPT !.docs = Tail(page[t].docs)]]

\* publishPage, one catalog: skipped without an id, else cut into batches.
Publish(t) ==
    /\ pc[t] = "page" /\ page[t].docs # <<>>
    /\ LET d == Head(page[t].docs) IN
          IF d.catalog \in Nameless
          THEN Dealt(t) /\ UNCHANGED <<pc, batches, refused>>
          ELSE /\ batches' = [batches EXCEPT ![t] = BatchCatalog(d.res)]
               /\ refused' = [refused EXCEPT ![t] = FALSE]
               /\ Goto(t, "push") /\ UNCHANGED page
    /\ UNCHANGED <<nets, at, gave, offset, lossy, running, last, clock, copies, accepted, walked,
                   faults>>

\* Mutant: a copy may be kept from when it is published.
Expires_Late(t) == clock + Head(nets[t]).ttl

\* The end of a copy: counted from before the network was asked.
Expires(t) == at[t] + Head(nets[t]).ttl

\* What discovery may answer a batch: the status and the results it lists.  It
\* stores a batch whose results are all accepted.
Answers == { [http |-> 200, readable |-> TRUE, results |-> <<"ACCEPTED">>],
             [http |-> 200, readable |-> TRUE, results |-> <<>>],
             [http |-> 200, readable |-> TRUE, results |-> <<"ACCEPTED", "PARTIAL">>],
             [http |-> 200, readable |-> TRUE, results |-> <<"">>],
             [http |-> 200, readable |-> FALSE, results |-> <<>>],
             [http |-> 500, readable |-> TRUE, results |-> <<>>] }

Stores(a) == a.http = 200 /\ a.readable /\ ToSet(a.results) \subseteq {"ACCEPTED"}

\* Mutant: only the first result is read.
Acked_First(a) == a.http = 200 /\ a.readable /\ (a.results = <<>> \/ a.results[1] = "ACCEPTED")

\* verdict: every result is judged, and one without a status is malformed; an
\* answer without results keeps the 200 rule.
Verdict(a) == a.readable /\ \A i \in DOMAIN a.results : a.results[i] = "ACCEPTED"

\* Client.Push
Acked(a) == a.http = 200 /\ Verdict(a)

\* Every batch is a MERGE: resources are added, the end of the copy moves.
Merged(c, rs, until, g) == [held |-> copies[c].held \cup rs, until |-> until, gave |-> g]

\* Send, one batch: a batch that is not acknowledged does not stop the others,
\* a call that fails does, whether or not the batch had arrived.
Push(t) ==
    /\ pc[t] = "push"
    /\ LET d == Head(page[t].docs)
           rs == ToSet(Head(batches[t]))
           stored == [copies EXCEPT ![d.catalog] = Merged(d.catalog, rs, Expires(t), gave[t])]
           finish == Dealt(t) /\ Goto(t, "page")
       IN  \/ \E a \in Answers :
                 /\ ~Stores(a) => faults < MaxFaults
                 /\ faults' = IF Stores(a) THEN faults ELSE faults + 1
                 /\ copies' = IF Stores(a) THEN stored ELSE copies
                 /\ refused' = [refused EXCEPT ![t] = @ \/ ~Acked(a)]
                 /\ lossy' = [lossy EXCEPT ![t] = @ \/ ~Stores(a)]
                 /\ batches' = [batches EXCEPT ![t] = Tail(@)]
                 /\ IF Len(batches[t]) > 1 THEN UNCHANGED <<pc, page, accepted>>
                    ELSE /\ finish
                         /\ accepted' = IF refused'[t] THEN accepted
                               ELSE accepted \cup {[catalog |-> d.catalog, res |-> ToSet(d.res),
                                                    until |-> Expires(t)]}
           \/ /\ faults < MaxFaults /\ faults' = faults + 1
              /\ copies' \in {copies, stored}
              /\ lossy' = [lossy EXCEPT ![t] = TRUE]
              /\ finish /\ UNCHANGED <<batches, refused, accepted>>
    /\ UNCHANGED <<nets, at, gave, offset, running, last, clock, walked>>

Release(t) ==
    /\ pc[t] = "release" /\ running' = FALSE /\ Goto(t, "idle")
    /\ UNCHANGED <<passVars, last, clock, copies, accepted, walked, faults>>

Advance ==
    /\ clock < MaxTime /\ clock' = clock + 1
    /\ UNCHANGED <<pc, passVars, running, last, copies, accepted, walked, faults>>

Step(t) == List(t) \/ Turn(t) \/ Ask(t) \/ Turned(t) \/ Publish(t) \/ Push(t) \/ Release(t)

CrawlNext == Advance \/ \E t \in Ticks : Claim(t) \/ Step(t)

\* A pass under way goes on: every call it makes has a timeout.
CrawlSpec == CrawlInit /\ [][CrawlNext]_crawlVars /\ \A t \in Ticks : WF_crawlVars(Step(t))

-----------------------------------------------------------------------------
(* Properties.                                                             *)

\* One pass at a time, whatever ticks come while one outlasts its own
\* (networkCrawl.claim), and running says whether there is one.
OnePassAtATime ==
    /\ \A t, u \in Ticks : pc[t] # "idle" /\ pc[u] # "idle" => t = u
    /\ running <=> \E t \in Ticks : pc[t] # "idle"

\* The entry of the registry a catalog comes from.
Permits(n, c) == n.source /\ n.ttl > 0 /\ n.packs # {} /\ n.id # OurNetworkId
                 /\ c \in CatalogsOf(n.id)

\* A copy is held only of a network we agreed to read from, and not longer after
\* the network gave it than the network permits, however slow the walk is
\* (crawlableNetworks, publishPage).
CopiesPermitted ==
    \A c \in Catalogs : copies[c].held # {} =>
        \E i \in DOMAIN Registry :
            Permits(Registry[i], c) /\ copies[c].until <= copies[c].gave + Registry[i].ttl

\* A walk that ends with no failure has put every resource of the network into
\* our discovery, catalogs cut by a page and clamped pages included, where the
\* network says what it applied (discover, appliedPage.after, MERGE).  One that
\* clamps and reports no page is excepted: its walk ends early and nothing tells,
\* as docs/adr/0003-paging-a-crawl.md says ("cannot tell a clamped page from the
\* end of the results").
WalkCollectsAll ==
    \A n \in walked \cap Countable : \A i \in DOMAIN Holdings[n] :
        Holdings[n][i].catalog \notin Nameless
            => Holdings[n][i].res \in copies[Holdings[n][i].catalog].held

\* A catalog reported as published is stored whole and until the time it was
\* stamped with (Send, Rollup, verdict).
AcceptedIsStored ==
    \A a \in accepted : a.res \subseteq copies[a.catalog].held /\ copies[a.catalog].until >= a.until

\* The batches under way are an end of the catalog's resources, each of them once
\* and in order, and a document with more than one resource, the lead's offers
\* included, is over MaxDocBytes by no more than the frame (BatchCatalog).
BatchesAddUp ==
    \A t \in Ticks : pc[t] = "push" =>
        LET rs == Head(page[t].docs).res
            bs == batches[t]
            whole == Len(bs) = Len(BatchCatalog(rs))
        IN  /\ bs # <<>> /\ IsSuffix(FlattenSeq(bs), rs)
            /\ (whole => FlattenSeq(bs) = rs)
            /\ \A i \in DOMAIN bs :
                  Len(bs[i]) > 1 /\ MaxDocBytes > 0 =>
                      DocBytes(bs[i], whole /\ i = 1) <= MaxDocBytes + Frame

\* A pass ends, so that the next one can start, though networks clamp, cut
\* catalogs or repeat a page (discover: "A network that answers the same page
\* forever would otherwise be walked forever").  One that repeats a full page and
\* reports none is what NetworkCrawl_deaf is about.
PassEnds == running ~> ~running
=============================================================================
