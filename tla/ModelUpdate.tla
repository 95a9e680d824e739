----------------------------- MODULE ModelUpdate -----------------------------
(* scripts/update-models.ts: the model lists of every provider are fetched    *)
(* concurrently, from its own API page by page and from OpenRouter at once,   *)
(* and one generated module per provider is then written, in a fixed order.   *)
(* A list is deduplicated and sorted before it is used, so it is a set here.  *)
(* One fetcher strips a prefix and may leave the empty name, which is dropped *)
(* only when the module is written.                                           *)
EXTENDS Naturals, Sequences, FiniteSets

CONSTANTS
    Id,             \* model ids, the empty name not among them
    ConstantName,   \* the name safeKey derives from each id; not injective
    Order,          \* the providers, in the order their modules are written
    Paged,          \* those whose API answers page by page
    Stripped,       \* those whose fetcher strips a prefix off the names, as Gemini's
    Fallback,       \* the built-in list of each provider
    MaxPages        \* bounds the pages of an API

Provider == {Order[i] : i \in DOMAIN Order}

Distinctly(ids) == \A i, j \in ids : ConstantName[i] = ConstantName[j] => i = j

ASSUME IdAssumption == "" \notin Id
ASSUME ProvidersAssumption ==
    /\ Order \in Seq(Provider) /\ Order # <<>>
    /\ \A i, j \in DOMAIN Order : Order[i] = Order[j] => i = j
ASSUME FallbackAssumption ==
    \A p \in Provider : Fallback[p] \subseteq Id /\ Fallback[p] # {} /\ Distinctly(Fallback[p])

VARIABLES
    listed,     \* what each fetcher has collected from its provider's API so far
    pages,      \* the pages it has returned
    fetch,      \* "fetching", "ended" or "threw", per API
    router,     \* OpenRouter's list per provider
    routed,     \* whether that request has ended
    dryRun,     \* ACP_LLM_CLI_MODELS_DRY_RUN
    phase,      \* "fetching", "writing", "done" or "exited"
    turn,       \* the provider whose module is written next
    module      \* per provider, the module written, or Old

vars == <<listed, pages, fetch, router, routed, dryRun, phase, turn, module>>

Old == [from |-> "the last run", ids |-> {}]

\* A fetcher without an API key ends at once, with nothing.
Init ==
    /\ listed = [p \in Provider |-> {}]
    /\ pages = [p \in Provider |-> 0]
    /\ fetch \in [Provider -> {"fetching", "ended"}]
    /\ router = [p \in Provider |-> {}]
    /\ routed = FALSE
    /\ dryRun \in BOOLEAN
    /\ phase = "fetching"
    /\ turn = 1
    /\ module = [p \in Provider |-> Old]

-----------------------------------------------------------------------------
(* The fetchers                                                              *)

Unwritten == UNCHANGED <<dryRun, turn, module>>

\* Every fetcher but one skips an entry without an id; the name "models/", stripped of its
\* prefix, stays as the empty name.
Listable(p) == IF p \in Stripped THEN Id \cup {""} ELSE Id

\* A page, which may name a next one.
Page(p) ==
    /\ phase = "fetching" /\ fetch[p] = "fetching"
    /\ pages[p] < MaxPages
    /\ \E ids \in SUBSET Listable(p) : listed' = [listed EXCEPT ![p] = @ \cup ids]
    /\ pages' = [pages EXCEPT ![p] = @ + 1]
    /\ \/ fetch' = [fetch EXCEPT ![p] = "ended"]
       \/ p \in Paged /\ pages'[p] < MaxPages /\ UNCHANGED fetch
    /\ Unwritten /\ UNCHANGED <<router, routed, phase>>

\* A status other than 2xx ends the loop with what it has.
Refused(p) ==
    /\ phase = "fetching" /\ fetch[p] = "fetching"
    /\ fetch' = [fetch EXCEPT ![p] = "ended"]
    /\ Unwritten /\ UNCHANGED <<listed, pages, router, routed, phase>>

\* A request that fails, or a body that is not JSON, rejects Promise.all and ends the script.
\* Mutant: the failure is swallowed, as OpenRouter's is.
Swallowed == phase
ExitOne   == "exited"

Throws(p) ==
    /\ phase = "fetching" /\ fetch[p] = "fetching"
    /\ fetch' = [fetch EXCEPT ![p] = "threw"]
    /\ phase' = ExitOne
    /\ Unwritten /\ UNCHANGED <<listed, pages, router, routed>>

\* fetchOpenRouter groups what it gets, and returns nothing when the request fails.
OpenRouter ==
    /\ phase = "fetching" /\ ~routed
    /\ routed' = TRUE
    /\ router' \in [Provider -> SUBSET Id]
    /\ Unwritten /\ UNCHANGED <<listed, pages, fetch, phase>>

AllFetched ==
    /\ phase = "fetching" /\ routed
    /\ \A p \in Provider : fetch[p] # "fetching"
    /\ phase' = "writing"
    /\ Unwritten /\ UNCHANGED <<listed, pages, fetch, router, routed>>

-----------------------------------------------------------------------------
(* The modules                                                               *)

\* The source is chosen by the list as it was collected, an empty name included.
\* Mutant: an API that was asked is believed, even when it lists nothing.
PickAsked(p) == IF pages[p] > 0 THEN listed[p] ELSE Fallback[p]
Pick(p) ==
    IF listed[p] # {} THEN listed[p] ELSE IF router[p] # {} THEN router[p] ELSE Fallback[p]

\* Mutant: the header asks whether the API answered, not whether it listed anything.
SourceAsked(p) == IF pages[p] > 0 THEN "provider API" ELSE "fallback"
Source(p) ==
    IF listed[p] # {} THEN "provider API"
    ELSE IF router[p] # {} THEN "OpenRouter (public)" ELSE "fallback"

\* writeModelConstants drops the empty names.
Listing(ids) == ids \ {""}

\* modelIdEntries throws when an id has no name or two ids have one.
\* Mutant: the later id takes the name.
AnyEntries(ids) == TRUE
Entries(ids) == "" \notin ids /\ Distinctly(ids)

Rendered(p) == [from |-> Source(p), ids |-> Listing(Pick(p))]

Write ==
    /\ phase = "writing"
    /\ Entries(Listing(Pick(Order[turn])))
    /\ module' = IF dryRun THEN module
                 ELSE [module EXCEPT ![Order[turn]] = Rendered(Order[turn])]
    /\ turn' = turn + 1
    /\ phase' = IF turn = Len(Order) THEN "done" ELSE phase
    /\ UNCHANGED <<listed, pages, fetch, router, routed, dryRun>>

Collision ==
    /\ phase = "writing"
    /\ ~Entries(Listing(Pick(Order[turn])))
    /\ phase' = "exited"
    /\ Unwritten /\ UNCHANGED <<listed, pages, fetch, router, routed>>

Over == phase \in {"done", "exited"}

Next ==
    \/ \E p \in Provider : Page(p) \/ Refused(p) \/ Throws(p)
    \/ OpenRouter \/ AllFetched \/ Write \/ Collision
    \/ Over /\ UNCHANGED vars

Spec == Init /\ [][Next]_vars

-----------------------------------------------------------------------------
(* Properties                                                                *)

TypeOK ==
    /\ \A p \in Provider : listed[p] \subseteq Listable(p)
    /\ DOMAIN listed = Provider
    /\ pages \in [Provider -> 0..MaxPages]
    /\ fetch \in [Provider -> {"fetching", "ended", "threw"}]
    /\ router \in [Provider -> SUBSET Id]
    /\ routed \in BOOLEAN /\ dryRun \in BOOLEAN
    /\ phase \in {"fetching", "writing", "done", "exited"}
    /\ turn \in 1..(Len(Order) + 1)
    /\ \A p \in Provider : module[p].ids \subseteq Id

\* What is written is one source's whole list, without the empty name, under a header that
\* names that source, for every provider whose API was silent, refused a later page, or had
\* no key; no two models of a module share a constant.  A module has a model in it
\* (z.enum([]) would not type-check), except after an API whose fetcher strips a prefix
\* listed one empty name and nothing else: that list counts as an answer, and is empty when
\* it is written.
ModulesAreUsable ==
    \A p \in Provider : module[p] # Old =>
        /\ \/ module[p].ids # {} /\ "" \notin module[p].ids
           \/ p \in Stripped /\ listed[p] = {""} /\ module[p].ids = {}
        /\ Distinctly(module[p].ids)
        /\ module[p].ids = CASE module[p].from = "provider API" -> listed[p] \ {""}
                             [] module[p].from = "OpenRouter (public)" -> router[p]
                             [] module[p].from = "fallback" -> Fallback[p]

\* A run that could not reach a provider, or that meets two ids with one name, does not
\* write that module or a later one; an unreachable provider stops every module.
FailureWritesNothingMore ==
    \A i \in DOMAIN Order : module[Order[i]] # Old =>
        /\ \A p \in Provider : fetch[p] = "ended"
        /\ \A j \in 1..i : Distinctly(Listing(Pick(Order[j]))) /\ module[Order[j]] # Old
=============================================================================
