--------------------------- MODULE ModelUpdateProofs ---------------------------
(* What holds of ModelUpdate for any providers, model ids and names, and any  *)
(* number of pages.                                                           *)
EXTENDS ModelUpdate, SequenceTheorems, TLAPS

\* Modules are written in order, each from the lists as they are once every
\* fetcher has ended, and a request that failed has stopped the script before.
Written(i) == i \in 1..Len(Order) /\ i < turn /\ ~dryRun

Sources == {"the last run", "provider API", "OpenRouter (public)", "fallback"}
Modules == [from : Sources, ids : SUBSET Id]
Listed(p) == Listing(Pick(p))

WritingInv ==
    /\ turn \in Nat /\ turn > 0 /\ dryRun \in BOOLEAN
    /\ phase \in {"writing", "done"} => \A p \in Provider : fetch[p] = "ended"
    /\ phase = "writing" => turn <= Len(Order)
    /\ phase = "fetching" => turn = 1
    /\ \A p \in Provider : fetch[p] = "threw" => phase = "exited"
    /\ fetch \in [Provider -> {"fetching", "ended", "threw"}]
    /\ module \in [Provider -> Modules]
    /\ DOMAIN listed = Provider /\ \A p \in Provider : listed[p] \subseteq Listable(p)
    /\ router \in [Provider -> SUBSET Id]

ModuleInv ==
    \A i \in 1..Len(Order) :
        /\ module[Order[i]] # Old <=> Written(i)
        /\ i < turn => /\ Distinctly(Listed(Order[i]))
                       /\ \A p \in Provider : fetch[p] = "ended"
        /\ Written(i) => module[Order[i]] = Rendered(Order[i])

Inv == WritingInv /\ ModuleInv

LEMMA OrderFacts ==
    /\ Len(Order) \in Nat \ {0} /\ DOMAIN Order = 1..Len(Order)
    /\ \A i \in 1..Len(Order) : Order[i] \in Provider
    /\ \A p \in Provider : \E i \in 1..Len(Order) : p = Order[i]
    /\ \A i, j \in 1..Len(Order) : Order[i] = Order[j] => i = j
  <1>1. Len(Order) \in Nat \ {0} /\ DOMAIN Order = 1..Len(Order)
    BY ProvidersAssumption, EmptySeq, LenProperties
  <1> QED
    BY <1>1, ProvidersAssumption DEF Provider

LEMMA RenderedIsNew ==
    ASSUME NEW p \in Provider, WritingInv
    PROVE  /\ Rendered(p) # Old
           /\ Rendered(p) \in Modules
  <1>1. Listed(p) \in SUBSET Id
    BY FallbackAssumption DEF Listed, Listing, Pick, WritingInv, Listable
  <1>2. Source(p) \in Sources /\ Source(p) # "the last run"
    BY DEF Source, Sources
  <1> QED
    BY <1>1, <1>2 DEF Rendered, Old, Modules, Listed

LEMMA InvInit == Init => Inv
  <1> SUFFICES ASSUME Init PROVE WritingInv /\ ModuleInv
    BY DEF Inv
  <1>1. WritingInv
    <2>1. Old \in Modules
      BY DEF Old, Modules, Sources
    <2>2. 1 <= Len(Order)
      BY OrderFacts
    <2> QED
      BY <2>1, <2>2 DEF Init, WritingInv
  <1>2. ModuleInv
    BY OrderFacts DEF Init, ModuleInv, Written
  <1> QED
    BY <1>1, <1>2

------------------------------------------------------------------------------
\* While the lists are fetched nothing has been written.
LEMMA FetchKeeps ==
    ASSUME Inv, phase = "fetching", Unwritten, turn' = 1,
           WritingInv'
    PROVE  ModuleInv'
  <1>1. turn = 1 /\ UNCHANGED <<turn, module, dryRun>>
    BY DEF Inv, WritingInv, Unwritten
  <1> QED
    BY <1>1, OrderFacts DEF Inv, ModuleInv, Written

LEMMA WriteKeeps ==
    ASSUME Inv, Write
    PROVE  Inv'
  <1> DEFINE n == Len(Order)
             o == Order[turn]
  <1>1. /\ n \in Nat \ {0} /\ turn \in 1..n /\ o \in Provider
        /\ turn' = turn + 1 /\ Distinctly(Listed(o))
        /\ phase' \in {"writing", "done"}
        /\ phase' = "writing" => turn # n
        /\ module' = IF dryRun THEN module ELSE [module EXCEPT ![o] = Rendered(o)]
        /\ UNCHANGED <<listed, pages, fetch, router, routed, dryRun>>
        /\ \A p \in Provider : fetch[p] = "ended"
    <2>1. phase = "writing" /\ turn \in 1..n /\ n \in Nat \ {0} /\ o \in Provider
      <3>1. phase = "writing" /\ turn \in Nat /\ turn > 0 /\ turn <= n
        BY DEF Inv, WritingInv, Write
      <3>2. turn \in 1..n /\ n \in Nat \ {0}
        BY <3>1, OrderFacts
      <3> QED
        BY <3>1, <3>2, OrderFacts
    <2>2. turn' = turn + 1 /\ UNCHANGED <<listed, pages, fetch, router, routed, dryRun>>
      BY DEF Write
    <2>3. Distinctly(Listed(o))
      BY DEF Write, Entries, Listed
    <2>4. phase' = IF turn = n THEN "done" ELSE "writing"
      BY <2>1 DEF Write
    <2>5. module' = IF dryRun THEN module ELSE [module EXCEPT ![o] = Rendered(o)]
      BY DEF Write
    <2>6. \A p \in Provider : fetch[p] = "ended"
      BY <2>1 DEF Inv, WritingInv
    <2> HIDE DEF n, o
    <2> QED
      BY <2>1, <2>2, <2>3, <2>4, <2>5, <2>6
  <1>2. \A p : (Listed(p))' = Listed(p) /\ (Rendered(p))' = Rendered(p)
    BY <1>1 DEF Pick, Rendered, Source, Listed
  <1>3. Rendered(o) # Old /\ Rendered(o) \in Modules
    BY <1>1, RenderedIsNew DEF Inv
  <1>4. WritingInv'
    BY <1>1, <1>3 DEF Inv, WritingInv
  <1>5. ASSUME NEW i \in 1..n
        PROVE  /\ module'[Order[i]] # Old <=> Written(i)'
               /\ i < turn' => Distinctly(Listed(Order[i]))
               /\ Written(i)' => module'[Order[i]] = Rendered(Order[i])
    <2>1. /\ Order[i] \in Provider
          /\ Order[i] = o <=> i = turn
          /\ Written(i)' <=> i <= turn /\ ~dryRun
          /\ Written(i) <=> i < turn /\ ~dryRun
      <3>1. Order[i] \in Provider
        BY OrderFacts
      <3>2. Order[i] = o <=> i = turn
        BY <1>1, OrderFacts
      <3>3. Len(Order) = n /\ Len(Order)' = n
        OBVIOUS
      <3> HIDE DEF n, o
      <3>4. (i < turn + 1 <=> i <= turn)
        BY <1>1
      <3>5. Written(i)' <=> i <= turn /\ ~dryRun
        BY <1>1, <3>3, <3>4 DEF Written
      <3>6. Written(i) <=> i < turn /\ ~dryRun
        BY <3>3 DEF Written
      <3> QED
        BY <3>1, <3>2, <3>5, <3>6
    <2>2. /\ module[Order[i]] # Old <=> Written(i)
          /\ i < turn => Distinctly(Listed(Order[i]))
          /\ Written(i) => module[Order[i]] = Rendered(Order[i])
      BY DEF Inv, ModuleInv
    <2>3. module'[Order[i]] = IF i = turn /\ ~dryRun THEN Rendered(o) ELSE module[Order[i]]
      BY <1>1, <2>1 DEF Inv, WritingInv
    <2> HIDE DEF n, o
    <2>4. i < turn' <=> i < turn \/ i = turn
      BY <1>1
    <2>5. CASE i = turn
      BY <1>1, <1>3, <2>1, <2>2, <2>3, <2>4, <2>5 DEF o
    <2>6. CASE i # turn
      BY <1>1, <2>1, <2>2, <2>3, <2>4, <2>6 DEF n
    <2> QED
      BY <2>5, <2>6
  <1>6. ModuleInv'
    BY <1>1, <1>2, <1>5 DEF ModuleInv
  <1> QED
    BY <1>4, <1>6 DEF Inv

LEMMA InvNext == Inv /\ [Next]_vars => Inv'
  <1> SUFFICES ASSUME Inv, [Next]_vars PROVE Inv'
    OBVIOUS
  <1>1. ASSUME NEW p \in Provider, Page(p) \/ Refused(p) \/ Throws(p) PROVE Inv'
    <2>1. phase = "fetching" /\ Unwritten /\ turn' = 1 /\ fetch[p] = "fetching"
      BY <1>1 DEF Page, Refused, Throws, Unwritten, Inv, WritingInv
    <2>2. WritingInv'
      <3>1. UNCHANGED <<turn, module, dryRun>>
        BY <2>1 DEF Unwritten
      <3>2. CASE Page(p)
        BY <2>1, <3>1, <3>2 DEF Page, Inv, WritingInv
      <3>3. CASE Refused(p)
        BY <2>1, <3>1, <3>3 DEF Refused, Inv, WritingInv
      <3>4. CASE Throws(p)
        BY <2>1, <3>1, <3>4 DEF Throws, ExitOne, Inv, WritingInv
      <3> QED
        BY <1>1, <3>2, <3>3, <3>4
    <2> QED
      BY <2>1, <2>2, FetchKeeps DEF Inv
  <1>2. CASE OpenRouter \/ AllFetched
    <2>1. phase = "fetching" /\ Unwritten /\ turn' = 1
      BY <1>2 DEF OpenRouter, AllFetched, Unwritten, Inv, WritingInv
    <2>2. WritingInv'
      <3>1. UNCHANGED <<turn, module, dryRun, fetch, listed>>
        BY <1>2 DEF OpenRouter, AllFetched, Unwritten
      <3>2. CASE OpenRouter
        BY <2>1, <3>1, <3>2 DEF OpenRouter, Inv, WritingInv
      <3>3. CASE AllFetched
        BY <2>1, <3>1, <3>3, OrderFacts DEF AllFetched, Inv, WritingInv
      <3> QED
        BY <1>2, <3>2, <3>3
    <2> QED
      BY <2>1, <2>2, FetchKeeps DEF Inv
  <1>3. CASE Write
    BY <1>3, WriteKeeps
  <1>4. CASE Collision
    <2>1. UNCHANGED <<listed, fetch, router, dryRun, turn, module>> /\ phase' = "exited"
      BY <1>4 DEF Collision, Unwritten
    <2> QED
      BY <2>1 DEF Inv, WritingInv, ModuleInv, Written, Pick, Rendered, Source, Listed
  <1>5. CASE UNCHANGED vars
    BY <1>5 DEF vars, Inv, WritingInv, ModuleInv, Written, Pick, Rendered, Source, Listed
  <1> QED
    BY <1>1, <1>2, <1>3, <1>4, <1>5 DEF Next

LEMMA InvAlways == Spec => []Inv
  BY InvInit, InvNext, PTL DEF Spec

\* A generated module holds one source's whole list without the empty name, under that
\* source's name and a constant for each model.  It holds a model, unless a fetcher that strips
\* a prefix collected the empty name alone.
THEOREM GeneratedModulesAreUsable == Spec => []ModulesAreUsable
  <1>1. ASSUME Inv PROVE ModulesAreUsable
    <2> SUFFICES ASSUME NEW p \in Provider, module[p] # Old
                 PROVE  /\ \/ module[p].ids # {} /\ "" \notin module[p].ids
                           \/ p \in Stripped /\ listed[p] = {""} /\ module[p].ids = {}
                        /\ Distinctly(module[p].ids)
                        /\ module[p].ids =
                             CASE module[p].from = "provider API" -> listed[p] \ {""}
                               [] module[p].from = "OpenRouter (public)" -> router[p]
                               [] module[p].from = "fallback" -> Fallback[p]
      BY DEF ModulesAreUsable
    <2>1. PICK i \in 1..Len(Order) : p = Order[i]
      BY OrderFacts
    <2>2. module[p] = Rendered(p) /\ Distinctly(Listed(p))
      BY <1>1, <2>1 DEF Inv, ModuleInv, Written
    <2>3. /\ listed[p] \subseteq Listable(p) /\ router[p] \subseteq Id
          /\ Fallback[p] \subseteq Id /\ Fallback[p] # {}
      BY <1>1, FallbackAssumption DEF Inv, WritingInv
    <2>4. module[p].ids = Listed(p) /\ module[p].from = Source(p)
      BY <2>2 DEF Rendered, Listed
    <2>5. CASE listed[p] # {}
      <3>1. module[p].ids = listed[p] \ {""} /\ module[p].from = "provider API"
        BY <2>4, <2>5 DEF Listed, Listing, Pick, Source
      <3>2. CASE module[p].ids = {}
        <4>1. listed[p] = {""}
          BY <2>5, <3>1, <3>2
        <4>2. p \in Stripped
          BY <2>3, <4>1, IdAssumption DEF Listable
        <4> QED
          BY <2>2, <2>4, <3>1, <3>2, <4>1, <4>2
      <3> QED
        BY <2>2, <2>4, <3>1, <3>2
    <2>6. CASE listed[p] = {} /\ router[p] # {}
      <3>1. module[p].ids = router[p] /\ module[p].from = "OpenRouter (public)"
        BY <2>3, <2>4, <2>6, IdAssumption DEF Listed, Listing, Pick, Source
      <3> QED
        BY <2>2, <2>3, <2>4, <2>6, <3>1, IdAssumption
    <2>7. CASE listed[p] = {} /\ router[p] = {}
      <3>1. module[p].ids = Fallback[p] /\ module[p].from = "fallback"
        BY <2>3, <2>4, <2>7, IdAssumption DEF Listed, Listing, Pick, Source
      <3> QED
        BY <2>2, <2>3, <2>4, <2>7, <3>1, IdAssumption
    <2> QED
      BY <2>5, <2>6, <2>7
  <1> QED
    BY <1>1, InvAlways, PTL

\* A module is only written when every provider was reached and after all
\* modules before it.
THEOREM NothingMoreIsWritten == Spec => []FailureWritesNothingMore
  <1>1. ASSUME Inv PROVE FailureWritesNothingMore
    <2> SUFFICES ASSUME NEW i \in 1..Len(Order), module[Order[i]] # Old
                 PROVE  /\ \A p \in Provider : fetch[p] = "ended"
                        /\ \A j \in 1..i : Distinctly(Listing(Pick(Order[j]))) /\ module[Order[j]] # Old
      BY OrderFacts DEF FailureWritesNothingMore
    <2>1. i < turn /\ ~dryRun /\ turn \in Nat
      BY <1>1 DEF Inv, ModuleInv, WritingInv, Written
    <2>2. \A j \in 1..i : j \in 1..Len(Order) /\ Written(j) /\ j < turn
      BY <2>1, OrderFacts DEF Written
    <2> QED
      BY <1>1, <2>1, <2>2 DEF Inv, ModuleInv, Listed
  <1> QED
    BY <1>1, InvAlways, PTL
==============================================================================
