--------------------------- MODULE ManifestLoader ---------------------------
(***************************************************************************)
(* The manifest loader: a manifest is named by a network or subscriber id, *)
(* the registry's metadata says where it and its signature are published,  *)
(* and the verified document is cached twice, under the name and under the *)
(* metadata, in a cache shared with other adapters.                        *)
(*                                                                         *)
(* One manifest is modelled, read by several Readers.  Documents carry     *)
(* their age, cache entries their remaining life.                          *)
(***************************************************************************)
EXTENDS Integers

CONSTANTS
    Readers,              \* who asks this loader: a policy reload, messages
    DocTTL,               \* cacheTTL
    ForceRefreshOnStart,  \* bypass the cache once per key after a start
    MaxVersion,           \* manifests the publisher issues
    MaxFaults             \* failed calls (registry, fetches, cache writes)

ASSUME LoaderAssumption ==
    /\ DocTTL \in Nat \ {0}
    /\ ForceRefreshOnStart \in BOOLEAN
    /\ MaxVersion \in Nat /\ MaxFaults \in Nat

VARIABLES
    manifest,   \* what is published: the body's version and the one signed
    entry,      \* the cache: under the "name" and under the "metadata" key
    refreshed,  \* refreshedKeys for the name, in this process
    load,       \* each reader's call
    faults,     \* failures so far
    missed      \* this process's forced refresh failed, or its result was not kept

loaderVars == <<manifest, entry, refreshed, load, faults, missed>>

Keys == {"name", "metadata"}
NoDoc == [v |-> 0, verified |-> FALSE, age |-> 0, old |-> FALSE]
NoEntry == [doc |-> NoDoc, left |-> 0]
LoadAt(pc, bypass, doc) == [pc |-> pc, bypass |-> bypass, body |-> 0, doc |-> doc]
NoLoad == LoadAt("idle", FALSE, NoDoc)

Fresh(v, verified) == [v |-> v, verified |-> verified, age |-> 0, old |-> FALSE]
Inherited(doc, old) == [v |-> doc.v, verified |-> doc.verified, age |-> doc.age, old |-> old]
AgeCap == 2 * DocTTL

\* A predecessor of this process may have left a verified document.
LoaderInit ==
    /\ manifest = [body |-> 1, sig |-> 1]
    /\ entry \in [Keys -> {NoEntry, [doc |-> Inherited(Fresh(1, TRUE), TRUE), left |-> DocTTL]}]
    /\ refreshed = FALSE
    /\ load = [c \in Readers |-> NoLoad]
    /\ faults = 0
    /\ missed = FALSE

Fault == faults < MaxFaults /\ faults' = faults + 1

\* loadFromCache: an entry not marked verified is an error, hence no hit.
Cached(k) == entry[k].left > 0 /\ entry[k].doc.verified

\* store: a failed write is only logged; the entry that was there remains.
Store(k, doc) ==
    \/ /\ entry' = [entry EXCEPT ![k] = [doc |-> doc, left |-> DocTTL]]
       /\ UNCHANGED <<faults, missed>>
    \/ /\ Fault
       /\ missed' = (missed \/ k = "name")
       /\ UNCHANGED entry

Ends(c, pc, doc) == load' = [load EXCEPT ![c] = LoadAt(pc, FALSE, doc)]

\* Mutant: a hit renews the entry.
Get_Renews(c) ==
    LET bypass == ForceRefreshOnStart /\ ~refreshed
        hit == ~bypass /\ Cached("name")
    IN  /\ load[c].pc = "call"
        /\ refreshed' = (refreshed \/ ForceRefreshOnStart)
        /\ load' = [load EXCEPT ![c] =
                      IF hit THEN LoadAt("got", FALSE, entry["name"].doc)
                             ELSE LoadAt("registry", bypass, NoDoc)]
        /\ entry' = IF hit THEN [entry EXCEPT !["name"].left = DocTTL] ELSE entry
        /\ UNCHANGED <<manifest, faults, missed>>

\* A reader calls GetByNetworkID or GetBySubscriberID.  shouldBypassCache
\* marks the key refreshed before the refresh has succeeded.
Get(c) ==
    LET bypass == ForceRefreshOnStart /\ ~refreshed
    IN  /\ load[c].pc = "call"
        /\ refreshed' = (refreshed \/ ForceRefreshOnStart)
        /\ load' = [load EXCEPT ![c] =
                      IF ~bypass /\ Cached("name")
                      THEN LoadAt("got", FALSE, entry["name"].doc)
                      ELSE LoadAt("registry", bypass, NoDoc)]
        /\ UNCHANGED <<manifest, entry, faults, missed>>

\* The registry says where the manifest is, and the metadata key is tried.
LookupMetadata(c) ==
    /\ load[c].pc = "registry"
    /\ load' = [load EXCEPT ![c] =
                  IF ~load[c].bypass /\ Cached("metadata")
                  THEN LoadAt("keep", FALSE, entry["metadata"].doc)
                  ELSE LoadAt("body", load[c].bypass, NoDoc)]
    /\ UNCHANGED <<manifest, entry, refreshed, faults, missed>>

FetchManifest(c) ==
    /\ load[c].pc = "body"
    /\ load' = [load EXCEPT ![c] = [load[c] EXCEPT !.pc = "signature", !.body = manifest.body]]
    /\ UNCHANGED <<manifest, entry, refreshed, faults, missed>>

\* Signature and key are fetched after the body: a release published between
\* the fetches fails verification.
Verify(c) ==
    /\ load[c].pc = "signature"
    /\ IF manifest.sig = load[c].body
       THEN LET doc == Fresh(load[c].body, TRUE)
            IN  /\ Ends(c, "keep", doc)
                /\ Store("metadata", doc)
       ELSE /\ Ends(c, "failed", NoDoc)
            /\ missed' = (missed \/ load[c].bypass)
            /\ UNCHANGED <<entry, faults>>
    /\ UNCHANGED <<manifest, refreshed>>

\* Whatever the metadata gave is kept under the name, for a full TTL.
Keep(c) ==
    /\ load[c].pc = "keep"
    /\ Ends(c, "got", load[c].doc)
    /\ Store("name", load[c].doc)
    /\ UNCHANGED <<manifest, refreshed>>

\* The registry, the manifest, its signature or its key cannot be had.
LoadFails(c) ==
    /\ load[c].pc \in {"registry", "body", "signature"}
    /\ Fault
    /\ Ends(c, "failed", NoDoc)
    /\ missed' = (missed \/ load[c].bypass)
    /\ UNCHANGED <<manifest, entry, refreshed>>

Loading(c) ==
    Get(c) \/ LookupMetadata(c) \/ FetchManifest(c) \/ Verify(c) \/ Keep(c)

\* The publisher replaces the manifest, and after it the signature.
Release ==
    /\ manifest.body < MaxVersion
    /\ manifest.body = manifest.sig
    /\ manifest' = [manifest EXCEPT !.body = @ + 1]
    /\ UNCHANGED <<entry, refreshed, load, faults, missed>>

SignRelease ==
    /\ manifest.sig # manifest.body
    /\ manifest' = [manifest EXCEPT !.sig = manifest.body]
    /\ UNCHANGED <<entry, refreshed, load, faults, missed>>

\* Another adapter on the same cache that skips signature verification: what
\* it stores, once nothing is cached any more, is marked unverified.
Peer ==
    /\ \A k \in Keys : entry[k].left = 0
    /\ entry' = [k \in Keys |-> [doc |-> Fresh(manifest.body, FALSE), left |-> DocTTL]]
    /\ UNCHANGED <<manifest, refreshed, load, faults, missed>>

Older(doc) == [doc EXCEPT !.age = IF @ < AgeCap THEN @ + 1 ELSE AgeCap]

\* Time passes at the registry and at the sources; against it the calls to
\* the cache take none.
LoaderTick ==
    /\ \A c \in Readers : load[c].pc \notin {"call", "keep", "got"}
    /\ entry' = [k \in Keys |->
                   IF entry[k].left > 1
                   THEN [doc |-> Older(entry[k].doc), left |-> entry[k].left - 1]
                   ELSE NoEntry]
    /\ UNCHANGED <<manifest, refreshed, load, faults, missed>>

\* The process ends; its successor finds the cache as it was left.
NewProcess ==
    /\ entry' = [k \in Keys |-> [doc |-> Inherited(entry[k].doc, entry[k].left > 0),
                              left |-> entry[k].left]]
    /\ refreshed' = FALSE
    /\ missed' = FALSE

\* Each of the two entries lives one TTL and the second may be filled from the
\* first, so a document is handed to a reader before it is two TTLs old, never
\* later: the name's entry is never renewed from itself.
DocumentAge == \A c \in Readers : load[c].pc = "got" => load[c].doc.age < 2 * DocTTL
=============================================================================
