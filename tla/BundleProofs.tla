---------------------------- MODULE BundleProofs ----------------------------
(***************************************************************************)
(* The bundle compiler, for any documents, requests, callers, history,     *)
(* drift tables and LRU size: what it serves is as fresh as it promises,   *)
(* and the map and the order list of the process-memory cache agree.       *)
(***************************************************************************)
EXTENDS BundleCompiler, TLAPS

LEMMA TouchSeq ==
    ASSUME NEW K, NEW s \in Seq(K), NEW k \in K
    PROVE  Touch(s, k) \in Seq(K)
<1>1. CASE \E i \in DOMAIN s : s[i] = k
  <2> DEFINE first == CHOOSE i \in DOMAIN s :
                          s[i] = k /\ \A j \in DOMAIN s : s[j] = k => i <= j
  <2>1. Len(s) \in Nat /\ Len(s) > 0 /\ DOMAIN s = 1 .. Len(s)
    BY <1>1
  <2>2. Without(s, first) \in Seq(K)
    <3>1. \A j \in 1 .. Len(s) - 1 : (IF j < first THEN s[j] ELSE s[j + 1]) \in K
      BY <2>1
    <3>2. Len(s) - 1 \in Nat
      BY <2>1
    <3>3. Without(s, first) \in [1 .. Len(s) - 1 -> K]
      BY <3>1 DEF Without
    <3> QED BY <3>2, <3>3
  <2>3. Touch(s, k) = Append(Without(s, first), k)
    BY <1>1 DEF Touch
  <2> QED BY <2>2, <2>3
<1>2. CASE ~ \E i \in DOMAIN s : s[i] = k
  BY <1>2 DEF Touch
<1> QED BY <1>1, <1>2

LEMMA KeyType ==
    ASSUME NEW q \in Requests, NEW index \in [Docs -> Revs]
    PROVE  CacheKey(q, index) \in Keys
BY TextAssumption DEF CacheKey, Keys, Fingerprint

-----------------------------------------------------------------------------
LEMMA NoKeys == <<>> \in Seq(Keys)
OBVIOUS

(* Type correctness, one lemma per process.                                *)

LEMMA LateBundle ==
    ASSUME NEW D, NEW E, NEW b \in Bundle(D), NEW h \in Bundle(E)
    PROVE  [b EXCEPT !.late = @ \/ h.late] \in Bundle(D)
<1>1. (b.late \/ h.late) \in BOOLEAN
  BY DEF Bundle
<1>2. b = [key |-> b.key, body |-> b.body, drift |-> b.drift, torn |-> b.torn, late |-> b.late]
  BY DEF Bundle
<1> QED BY <1>1, <1>2 DEF Bundle

LEMMA FoundTypes ==
    ASSUME CompilerTypeOK, NEW c \in Clients, NEW b \in Bundle(DriftTables),
           b \in Bundle(DriftTables \cup {NoDrift}),
           held' = [held EXCEPT ![c] = b], pc' = [pc EXCEPT ![c] = "remember"],
           UNCHANGED <<runVars, cacheVars, asof>>
    PROVE  CompilerTypeOK'
BY DEF CompilerTypeOK, runVars, cacheVars, InFlight, Reading

LEMMA RequestTypes ==
    ASSUME CompilerTypeOK, NEW c \in Clients, Compile(c)
    PROVE  CompilerTypeOK'
<1> USE DEF CompilerTypeOK, InFlight, Reading
<1> USE DEF runVars, cacheVars, GoTo, Return
<1>1. Oldest \in [Docs -> Revs]
  BY BoundsAssumption DEF Oldest, Revs
<1>2. ASSUME NEW q \in Requests, GetIndexFingerprint(c, q) PROVE CompilerTypeOK'
  <2>1. CacheKey(q, pub) \in Keys
    BY KeyType
  <2>2. (Fingerprint(docs) # Fingerprint(pub)) \in BOOLEAN /\ Invalidating \in BOOLEAN
    BY DEF Invalidating
  <2>3. [key |-> CacheKey(q, pub), body |-> {}, drift |-> NoDrift,
         torn |-> Fingerprint(docs) # Fingerprint(pub), late |-> Invalidating]
           \in Bundle(DriftTables \cup {NoDrift})
    BY <2>1, <2>2 DEF Bundle
  <2> QED BY <1>2, <2>3 DEF GetIndexFingerprint
<1>3. CASE LruGet(c)
  <2>1. Key(c) \in Keys
    BY <1>3 DEF LruGet, Key, Bundle
  <2>2. Touch(order, Key(c)) \in Seq(Keys)
    BY <2>1, TouchSeq
  <2> QED BY <1>1, <1>3, <2>2 DEF LruGet
<1>4. CASE GetBundleByKey(c)
  <2>1. CASE Lookup(rows, Key(c)) # {}
    <3>1. PICK b \in Lookup(rows, Key(c)) :
             held' = [held EXCEPT ![c] = [b EXCEPT !.late = @ \/ held[c].late]]
      BY <1>4, <2>1 DEF GetBundleByKey
    <3>2. b \in Bundle(DriftTables)
      BY <3>1 DEF Lookup
    <3>3. [b EXCEPT !.late = @ \/ held[c].late] \in Bundle(DriftTables)
      <4>1. held[c] \in Bundle(DriftTables \cup {NoDrift})
        BY <1>4 DEF GetBundleByKey
      <4> QED BY <3>2, <4>1, LateBundle
    <3>4. Bundle(DriftTables) \subseteq Bundle(DriftTables \cup {NoDrift})
      BY DEF Bundle
    <3>5. pc' = [pc EXCEPT ![c] = "remember"] /\ UNCHANGED <<runVars, cacheVars, asof>>
      BY <1>4, <2>1 DEF GetBundleByKey
    <3> HIDE DEF Lookup, Key
    <3> QED BY <3>1, <3>3, <3>4, <3>5, FoundTypes
  <2>2. CASE Lookup(rows, Key(c)) = {}
    BY <1>4, <2>2 DEF GetBundleByKey
  <2> QED BY <2>1, <2>2
<1>5. ASSUME NEW ds \in SUBSET Docs, Collect(c, ds), pc[c] \in Reading,
             UNCHANGED <<runVars, cacheVars, asof>>,
             GoTo(c, "hydrate") \/ GoTo(c, "attach")
      PROVE  CompilerTypeOK'
  <2>1. ReadNow(ds) \subseteq Sections
    BY DEF ReadNow, Sections
  <2>2. [held[c] EXCEPT !.body = @ \cup ReadNow(ds)] \in Bundle(DriftTables \cup {NoDrift})
    BY <1>5, <2>1 DEF Bundle
  <2> QED BY <1>5, <2>2 DEF Collect
<1>6. CASE SearchFTS(c)
  BY <1>5, <1>6 DEF SearchFTS
<1>7. CASE HydrateRest(c)
  BY <1>5, <1>7 DEF HydrateRest
<1>8. CASE AttachDrift(c)
  <2>1. [held[c] EXCEPT !.drift = drift] \in Bundle(DriftTables)
    BY <1>8 DEF AttachDrift, Bundle
  <2>2. Bundle(DriftTables) \subseteq Bundle(DriftTables \cup {NoDrift})
    BY DEF Bundle
  <2> QED BY <1>8, <2>1, <2>2 DEF AttachDrift
<1>9. CASE PutBundle(c)
  BY <1>9 DEF PutBundle
<1>10. CASE Remember(c)
  <2>1. Key(c) \in Keys /\ held[c] \in Bundle(DriftTables)
    BY <1>10 DEF Remember, Key, Bundle
  <2>2. lru' \subseteq Bundle(DriftTables)
    BY <1>10, <2>1 DEF Remember, LruPut, Lookup
  <2>3. order' \in Seq(Keys)
    <3>1. CASE Lookup(lru, Key(c)) # {}
      BY <1>10, <2>1, <3>1, TouchSeq DEF Remember, LruPut
    <3>2. CASE Lookup(lru, Key(c)) = {}
      <4> DEFINE all  == Append(order, Key(c))
                 over == IF Len(all) > LruSize THEN Len(all) - LruSize ELSE 0
      <4>1. all \in Seq(Keys) /\ Len(all) \in Nat /\ over \in Nat
        BY <2>1, BoundsAssumption
      <4>2. order' = SubSeq(all, over + 1, Len(all))
        BY <1>10, <3>2 DEF Remember, LruPut
      <4>3. \A i \in over + 1 .. Len(all) : all[i] \in Keys
        BY <4>1
      <4> HIDE DEF all, over
      <4> QED BY <4>1, <4>2, <4>3
    <3> QED BY <3>1, <3>2
  <2> QED BY <1>1, <1>10, <2>2, <2>3 DEF Remember
<1>11. CASE CompileFails(c)
  BY <1>1, <1>11 DEF CompileFails
<1> QED
  BY <1>2, <1>3, <1>4, <1>6, <1>7, <1>8, <1>9, <1>10, <1>11 DEF Compile

LEMMA SyncTypes ==
    ASSUME CompilerTypeOK, SyncRun \/ Restart
    PROVE  CompilerTypeOK'
<1> USE DEF CompilerTypeOK, InFlight, Reading, cacheVars, clientVars
<1>1. Oldest \in [Docs -> Revs]
  BY BoundsAssumption DEF Oldest, Revs
<1>2. ASSUME Tear PROVE /\ held' \in [Clients -> Bundle(DriftTables \cup {NoDrift}) \cup {NoBundle}]
                        /\ \A c \in Clients : pc[c] \in Reading =>
                              held'[c] \in Bundle(DriftTables \cup {NoDrift})
                        /\ \A c \in Clients : pc[c] \notin Reading => held'[c] = held[c]
  <2>1. ASSUME NEW c \in Clients, pc[c] \in Reading
        PROVE  [held[c] EXCEPT !.torn = TRUE] \in Bundle(DriftTables \cup {NoDrift})
    BY <2>1 DEF Bundle
  <2> QED BY <1>2, <2>1 DEF Tear
<1>3. CASE StartRun
  BY <1>3 DEF StartRun
<1>4. ASSUME NEW d \in Docs, UpsertDocument(d) PROVE CompilerTypeOK'
  BY <1>2, <1>4 DEF UpsertDocument
<1>5. ASSUME NEW d \in Docs, DeleteDocument(d) PROVE CompilerTypeOK'
  BY <1>2, <1>5 DEF DeleteDocument
<1>6. CASE SetIndexFingerprint
  BY <1>6 DEF SetIndexFingerprint
<1>7. CASE PruneBundles
  BY <1>7 DEF PruneBundles
<1>8. CASE DriftUnchanged
  BY <1>8 DEF DriftUnchanged
<1>9. CASE ReplaceDrift
  <2>1. ASSUME NEW c \in Clients, NEW D, held[c] \in Bundle(D)
        PROVE  [held[c] EXCEPT !.late = TRUE] \in Bundle(D)
    BY <2>1 DEF Bundle
  <2> QED BY <1>9, <2>1 DEF ReplaceDrift
<1>10. CASE InvalidateMemory
  BY <1>10, NoKeys DEF InvalidateMemory
<1>11. CASE DeleteAllBundles
  BY <1>11 DEF DeleteAllBundles
<1>12. CASE RunFails
  BY <1>12 DEF RunFails
<1>13. CASE InvalidateFails
  BY <1>13 DEF InvalidateFails
<1>14. CASE Restart
  BY <1>1, <1>14, NoKeys DEF Restart, Invalidating
<1> QED
  BY <1>3, <1>4, <1>5, <1>6, <1>7, <1>8, <1>9, <1>10, <1>11, <1>12, <1>13, <1>14 DEF SyncRun

LEMMA InitTypes == Init => CompilerTypeOK
<1> SUFFICES ASSUME Init PROVE CompilerTypeOK
  OBVIOUS
<1>1. Oldest \in [Docs -> Revs]
  BY BoundsAssumption DEF Oldest, Revs
<1>2. source \in [Docs -> Revs] /\ docs \in [Docs -> Revs] /\ pub \in [Docs -> Revs]
  BY <1>1 DEF Init
<1>3. rows \subseteq Bundle(DriftTables) /\ lru \subseteq Bundle(DriftTables)
  BY DEF Init
<1>4. \A c \in Clients : pc[c] \notin InFlight
  BY DEF Init, InFlight, Reading
<1>5. /\ held \in [Clients -> Bundle(DriftTables \cup {NoDrift}) \cup {NoBundle}]
      /\ pc \in [Clients -> InFlight \cup {"idle"}]
      /\ asof \in [Clients -> [Docs -> Revs]]
  BY <1>1 DEF Init
<1>6. order \in Seq(Keys)
  BY NoKeys DEF Init
<1> QED
  BY <1>2, <1>3, <1>4, <1>5, <1>6 DEF Init, CompilerTypeOK, InFlight

(* Every reachable state is well typed; in particular whatever either cache*)
(* holds went through AttachDrift first.                                   *)
THEOREM TypeCorrect == Spec => []CompilerTypeOK
<1>1. Init => CompilerTypeOK
  BY InitTypes
<1>2. CompilerTypeOK /\ [Next]_vars => CompilerTypeOK'
  <2> SUFFICES ASSUME CompilerTypeOK, [Next]_vars PROVE CompilerTypeOK'
    OBVIOUS
  <2>1. CASE UNCHANGED vars
    BY <2>1 DEF vars, CompilerTypeOK
  <2> QED BY <2>1, RequestTypes, SyncTypes DEF Next
<1> QED BY <1>1, <1>2, PTL DEF Spec

-----------------------------------------------------------------------------
(* Freshness.  The fingerprint is the only thing that ties a cached bundle *)
(* to an index state, so the argument needs a fingerprint to name one      *)
(* state: no document returns to an earlier text.                          *)
NoRecurrence ==
    \A d \in Docs : \A r, s \in Revs : Text[d][r] = Text[d][s] => r = s

(* The fingerprint trails the tables, and the tables trail the checkout.   *)
IndexOrder == \A d \in Docs : pub[d] <= docs[d] /\ docs[d] <= source[d]

(* No cached section is older than any revision its key can stand for.     *)
CachedFresh ==
    \A b \in rows \cup lru : \A s \in b.body : \A r \in Revs :
        Text[s.doc][r] = b.key.fp[s.doc] => r <= s.rev

(* What a request holds is at least as new as the state its key names.     *)
RequestFresh(c) ==
    /\ held[c].key.fp = Fingerprint(asof[c])
    /\ \A d \in Docs : asof[c][d] <= pub[d]
    /\ \A s \in held[c].body : asof[c][s.doc] <= s.rev

FreshInv ==
    /\ CompilerTypeOK
    /\ IndexOrder
    /\ CachedFresh
    /\ \A c \in Clients : pc[c] \in InFlight => RequestFresh(c)

(* What the tables return now is not older than the published state.       *)
LEMMA ReadNowFresh ==
    ASSUME CompilerTypeOK, IndexOrder, NEW ds \in SUBSET Docs, NEW s \in ReadNow(ds)
    PROVE  s \in Sections /\ pub[s.doc] <= s.rev
BY DEF ReadNow, Sections, CompilerTypeOK, IndexOrder

(* A bundle found under the key of an index state is as new as that state. *)
LEMMA FoundFresh ==
    ASSUME FreshInv, NEW c \in Clients, pc[c] \in InFlight,
           NEW b \in Lookup(rows, Key(c)) \cup Lookup(lru, Key(c)),
           NEW s \in b.body
    PROVE  asof[c][s.doc] <= s.rev
<1>1. b \in rows \cup lru /\ b.key = held[c].key
  BY DEF Lookup, Key
<1>2. b \in Bundle(DriftTables)
  BY <1>1 DEF FreshInv, CompilerTypeOK
<1>3. s \in Sections
  BY <1>2 DEF Bundle
<1>4. b.key.fp[s.doc] = Text[s.doc][asof[c][s.doc]]
  <2>1. RequestFresh(c)
    BY DEF FreshInv
  <2>2. s.doc \in Docs
    BY <1>3 DEF Sections
  <2> QED BY <1>1, <2>1, <2>2 DEF RequestFresh, Fingerprint
<1>5. asof[c][s.doc] \in Revs
  BY <1>3 DEF FreshInv, CompilerTypeOK, Sections
<1> QED BY <1>1, <1>3, <1>4, <1>5 DEF FreshInv, CachedFresh

(* A compiled bundle may be cached: its key stands for one revision only.  *)
LEMMA HeldCacheable ==
    ASSUME NoRecurrence, FreshInv, NEW c \in Clients, pc[c] \in InFlight,
           NEW s \in held[c].body, NEW r \in Revs,
           Text[s.doc][r] = held[c].key.fp[s.doc]
    PROVE  r <= s.rev
<1>1. held[c] \in Bundle(DriftTables \cup {NoDrift})
  BY DEF FreshInv, CompilerTypeOK
<1>2. s \in Sections
  BY <1>1 DEF Bundle
<1>3. asof[c][s.doc] \in Revs /\ s.doc \in Docs
  BY <1>2 DEF FreshInv, CompilerTypeOK, Sections
<1>4. Text[s.doc][r] = Text[s.doc][asof[c][s.doc]]
  BY <1>3 DEF FreshInv, RequestFresh, Fingerprint
<1>5. r = asof[c][s.doc]
  BY <1>3, <1>4 DEF NoRecurrence
<1> QED BY <1>5 DEF FreshInv, RequestFresh

LEMMA RequestSteps ==
    ASSUME NoRecurrence, FreshInv, NEW c \in Clients, Compile(c)
    PROVE  FreshInv'
<1> USE DEF runVars, cacheVars, GoTo, Return
<1>1. CompilerTypeOK'
  BY RequestTypes DEF FreshInv
<1>2. CompilerTypeOK /\ held \in [Clients -> Bundle(DriftTables \cup {NoDrift}) \cup {NoBundle}]
             /\ pc \in [Clients -> InFlight \cup {"idle"}]
             /\ asof \in [Clients -> [Docs -> Revs]]
  BY DEF FreshInv, CompilerTypeOK
<1>3. ASSUME UNCHANGED runVars PROVE IndexOrder'
  BY <1>3 DEF FreshInv, IndexOrder
<1>4. ASSUME UNCHANGED cacheVars PROVE CachedFresh'
  BY <1>4 DEF FreshInv, CachedFresh
<1>5. ASSUME UNCHANGED runVars,
             \A x \in Clients \ {c} : pc'[x] = pc[x] /\ held'[x] = held[x] /\ asof'[x] = asof[x],
             pc'[c] \in InFlight => RequestFresh(c)'
      PROVE  \A x \in Clients : pc'[x] \in InFlight => RequestFresh(x)'
  <2> SUFFICES ASSUME NEW x \in Clients, pc'[x] \in InFlight, x # c
               PROVE  RequestFresh(x)'
    BY <1>5
  <2>1. RequestFresh(x)
    BY <1>5 DEF FreshInv
  <2> QED BY <1>5, <2>1 DEF RequestFresh, Fingerprint
<1>6. ASSUME NEW q \in Requests, GetIndexFingerprint(c, q) PROVE FreshInv'
  <2>1. /\ held'[c].key.fp = Fingerprint(pub) /\ held'[c].body = {} /\ asof'[c] = pub
    BY <1>2, <1>6 DEF GetIndexFingerprint, CacheKey
  <2>2. RequestFresh(c)'
    BY <1>2, <1>6, <2>1 DEF GetIndexFingerprint, RequestFresh, Fingerprint, CompilerTypeOK, Revs
  <2> QED
    BY <1>1, <1>2, <1>3, <1>4, <1>5, <1>6, <2>2 DEF GetIndexFingerprint, FreshInv
<1>7. CASE LruGet(c)
  <2>1. pc[c] \in InFlight /\ RequestFresh(c)
    BY <1>7 DEF LruGet, InFlight, Reading, FreshInv
  <2>2. pc'[c] \in InFlight => RequestFresh(c)'
    BY <1>2, <1>7, <2>1 DEF LruGet, RequestFresh, Fingerprint, InFlight, Reading
  <2>3. CachedFresh'
    BY <1>7 DEF LruGet, FreshInv, CachedFresh
  <2> QED BY <1>1, <1>2, <1>3, <1>5, <1>7, <2>2, <2>3 DEF LruGet, FreshInv
<1>8. CASE GetBundleByKey(c)
  <2>1. pc[c] \in InFlight /\ RequestFresh(c)
    BY <1>8 DEF GetBundleByKey, InFlight, Reading, FreshInv
  <2>2. RequestFresh(c)'
    <3>1. CASE Lookup(rows, Key(c)) # {}
      <4>1. PICK b \in Lookup(rows, Key(c)) :
               held' = [held EXCEPT ![c] = [b EXCEPT !.late = @ \/ held[c].late]]
        BY <1>8, <3>1 DEF GetBundleByKey
      <4>2. b \in Bundle(DriftTables) /\ b.key = held[c].key
        BY <1>2, <4>1 DEF Lookup, Key, CompilerTypeOK
      <4>3. held'[c].key = held[c].key /\ held'[c].body = b.body
        BY <1>2, <4>1, <4>2 DEF Bundle
      <4>4. \A s \in b.body : asof[c][s.doc] <= s.rev
        BY <2>1, <4>1, FoundFresh
      <4> QED BY <1>8, <2>1, <4>3, <4>4 DEF GetBundleByKey, RequestFresh, Fingerprint
    <3>2. CASE Lookup(rows, Key(c)) = {}
      BY <1>8, <2>1, <3>2 DEF GetBundleByKey, RequestFresh, Fingerprint
    <3> QED BY <3>1, <3>2
  <2> QED BY <1>1, <1>2, <1>3, <1>4, <1>5, <1>8, <2>2 DEF GetBundleByKey, FreshInv
<1>9. ASSUME NEW ds \in SUBSET Docs, Collect(c, ds), pc[c] \in Reading,
             UNCHANGED <<runVars, cacheVars, asof>>,
             GoTo(c, "hydrate") \/ GoTo(c, "attach")
      PROVE  FreshInv'
  <2>1. pc[c] \in InFlight /\ RequestFresh(c)
    BY <1>9 DEF InFlight, FreshInv
  <2>2. held[c] \in Bundle(DriftTables \cup {NoDrift})
    BY <1>2, <2>1 DEF CompilerTypeOK
  <2>3. held'[c].key = held[c].key /\ held'[c].body = held[c].body \cup ReadNow(ds)
    BY <1>2, <1>9, <2>2 DEF Collect, Bundle
  <2>4. ASSUME NEW s \in ReadNow(ds) PROVE asof[c][s.doc] <= s.rev
    <3>1. s \in Sections /\ pub[s.doc] <= s.rev
      BY <1>2, ReadNowFresh DEF FreshInv
    <3>2. s.doc \in Docs /\ asof[c][s.doc] <= pub[s.doc]
      BY <2>1, <3>1 DEF RequestFresh, Sections
    <3>3. asof[c][s.doc] \in Nat /\ pub[s.doc] \in Nat /\ s.rev \in Nat
      BY <1>2, <3>1, <3>2, BoundsAssumption DEF CompilerTypeOK, Sections, Revs
    <3> QED BY <3>1, <3>2, <3>3
  <2>5. RequestFresh(c)'
    BY <1>9, <2>1, <2>3, <2>4 DEF RequestFresh, Fingerprint
  <2> QED BY <1>1, <1>2, <1>3, <1>4, <1>5, <1>9, <2>5 DEF Collect, FreshInv
<1>10. CASE SearchFTS(c)
  BY <1>9, <1>10 DEF SearchFTS, Reading
<1>11. CASE HydrateRest(c)
  BY <1>9, <1>11 DEF HydrateRest, Reading
<1>12. CASE AttachDrift(c)
  <2>1. pc[c] \in InFlight /\ RequestFresh(c)
    BY <1>12 DEF AttachDrift, InFlight, FreshInv
  <2>2. held[c] \in Bundle(DriftTables \cup {NoDrift})
    BY <1>2, <2>1 DEF CompilerTypeOK
  <2>3. held'[c].key = held[c].key /\ held'[c].body = held[c].body
    BY <1>2, <1>12, <2>2 DEF AttachDrift, Bundle
  <2>4. RequestFresh(c)'
    BY <1>12, <2>1, <2>3 DEF AttachDrift, RequestFresh, Fingerprint
  <2> QED BY <1>1, <1>2, <1>3, <1>4, <1>5, <1>12, <2>4 DEF AttachDrift, FreshInv
<1>13. CASE PutBundle(c)
  <2>1. pc[c] \in InFlight /\ RequestFresh(c)
    BY <1>13 DEF PutBundle, InFlight, FreshInv
  <2>2. CachedFresh'
    BY <1>13, <2>1, HeldCacheable DEF PutBundle, FreshInv, CachedFresh
  <2>3. RequestFresh(c)'
    BY <1>13, <2>1 DEF PutBundle, RequestFresh, Fingerprint
  <2> QED BY <1>1, <1>2, <1>3, <1>5, <1>13, <2>2, <2>3 DEF PutBundle, FreshInv
<1>14. CASE Remember(c)
  <2>1. pc[c] \in InFlight /\ pc'[c] = "idle"
    BY <1>2, <1>14 DEF Remember, InFlight
  <2>2. lru' \subseteq lru \cup {held[c]} /\ rows' = rows
    BY <1>14 DEF Remember, LruPut, Lookup
  <2>3. CachedFresh'
    BY <2>1, <2>2, HeldCacheable DEF FreshInv, CachedFresh
  <2>4. pc'[c] \notin InFlight
    BY <2>1 DEF InFlight, Reading
  <2> QED BY <1>1, <1>2, <1>3, <1>5, <1>14, <2>3, <2>4 DEF Remember, FreshInv
<1>15. CASE CompileFails(c)
  <2>1. pc'[c] \notin InFlight
    BY <1>2, <1>15 DEF CompileFails, InFlight, Reading
  <2> QED BY <1>1, <1>2, <1>3, <1>4, <1>5, <1>15, <2>1 DEF CompileFails, FreshInv
<1> QED
  BY <1>6, <1>7, <1>8, <1>10, <1>11, <1>12, <1>13, <1>14, <1>15 DEF Compile

LEMMA SyncSteps ==
    ASSUME FreshInv, SyncRun \/ Restart
    PROVE  FreshInv'
<1> USE DEF cacheVars, clientVars
<1>1. CompilerTypeOK'
  BY SyncTypes DEF FreshInv
<1>2. CompilerTypeOK /\ docs \in [Docs -> Nat] /\ pub \in [Docs -> Nat] /\ source \in [Docs -> Nat]
             /\ held \in [Clients -> Bundle(DriftTables \cup {NoDrift}) \cup {NoBundle}]
  <2>1. \A r \in Revs : r \in Nat
    BY BoundsAssumption DEF Revs
  <2>2. /\ CompilerTypeOK
        /\ docs \in [Docs -> Revs] /\ pub \in [Docs -> Revs] /\ source \in [Docs -> Revs]
        /\ held \in [Clients -> Bundle(DriftTables \cup {NoDrift}) \cup {NoBundle}]
    BY DEF FreshInv, CompilerTypeOK
  <2> QED BY <2>1, <2>2
<1>3. ASSUME rows' \subseteq rows, lru' \subseteq lru PROVE CachedFresh'
  BY <1>3 DEF FreshInv, CachedFresh
<1>4. ASSUME \A d \in Docs : pub[d] <= pub'[d],
             \A d \in Docs : pub'[d] \in Nat,
             UNCHANGED <<pc, asof>>,
             \A c \in Clients : pc[c] \in InFlight =>
                /\ held'[c].key = held[c].key
                /\ held'[c].body = held[c].body
      PROVE  \A c \in Clients : pc'[c] \in InFlight => RequestFresh(c)'
  <2> SUFFICES ASSUME NEW c \in Clients, pc[c] \in InFlight PROVE RequestFresh(c)'
    BY <1>4
  <2>1. RequestFresh(c)
    BY DEF FreshInv
  <2>2. ASSUME NEW d \in Docs PROVE asof[c][d] <= pub'[d]
    <3>1. asof[c][d] <= pub[d]
      BY <2>1 DEF RequestFresh
    <3>2. asof[c][d] \in Nat
      BY BoundsAssumption DEF FreshInv, CompilerTypeOK, Revs
    <3> QED BY <1>2, <1>4, <3>1, <3>2
  <2> QED BY <1>4, <2>1, <2>2 DEF RequestFresh, Fingerprint
<1>5. ASSUME Tear PROVE \A c \in Clients : pc[c] \in InFlight =>
                           /\ held'[c].key = held[c].key
                           /\ held'[c].body = held[c].body
  <2> SUFFICES ASSUME NEW c \in Clients, pc[c] \in InFlight
               PROVE  held'[c].key = held[c].key /\ held'[c].body = held[c].body
    OBVIOUS
  <2>1. held[c] \in Bundle(DriftTables \cup {NoDrift})
    BY DEF FreshInv, CompilerTypeOK
  <2>2. [held[c] EXCEPT !.torn = TRUE].key = held[c].key
    BY <2>1 DEF Bundle
  <2>3. [held[c] EXCEPT !.torn = TRUE].body = held[c].body
    BY <2>1 DEF Bundle
  <2> QED BY <1>5, <2>2, <2>3 DEF Tear
<1>6. CASE StartRun
  <2>1. PICK s \in [Docs -> Revs] : source' = s /\ \A d \in Docs : s[d] >= source[d]
    BY <1>6 DEF StartRun
  <2>2. UNCHANGED <<docs, pub>>
    BY <1>6 DEF StartRun
  <2>3. ASSUME NEW d \in Docs PROVE pub[d] <= docs[d] /\ docs[d] <= s[d]
    <3>1. s[d] \in Nat /\ s[d] >= source[d]
      BY <2>1, BoundsAssumption DEF Revs
    <3>2. pub[d] <= docs[d] /\ docs[d] <= source[d]
      BY DEF FreshInv, IndexOrder
    <3> QED BY <1>2, <3>1, <3>2
  <2>4. IndexOrder'
    BY <2>1, <2>2, <2>3 DEF IndexOrder
  <2> QED BY <1>1, <1>2, <1>3, <1>4, <1>6, <2>4 DEF StartRun, FreshInv
<1>7. ASSUME NEW d \in Docs, UpsertDocument(d) \/ DeleteDocument(d) PROVE FreshInv'
  <2>1. docs' = [docs EXCEPT ![d] = source[d]] /\ UNCHANGED <<source, pub>> /\ Tear
        /\ UNCHANGED <<cacheVars, pc, asof>>
    BY <1>7 DEF UpsertDocument, DeleteDocument
  <2>2. IndexOrder'
    BY <1>2, <2>1 DEF FreshInv, IndexOrder
  <2> QED BY <1>1, <1>2, <1>3, <1>4, <1>5, <2>1, <2>2 DEF FreshInv
<1>8. CASE SetIndexFingerprint
  <2>1. IndexOrder' /\ \A d \in Docs : pub[d] <= pub'[d]
    BY <1>2, <1>8 DEF SetIndexFingerprint, FreshInv, IndexOrder
  <2> QED BY <1>1, <1>2, <1>3, <1>4, <1>8, <2>1 DEF SetIndexFingerprint, FreshInv
<1>9. ASSUME UNCHANGED <<source, docs, pub>> PROVE IndexOrder'
  BY <1>9 DEF FreshInv, IndexOrder
<1>10. ASSUME UNCHANGED <<source, docs, pub, clientVars>>,
              rows' \subseteq rows, lru' \subseteq lru
       PROVE  FreshInv'
  BY <1>1, <1>2, <1>3, <1>4, <1>9, <1>10 DEF FreshInv
<1>11. CASE PruneBundles
  BY <1>10, <1>11 DEF PruneBundles
<1>12. CASE DriftUnchanged
  BY <1>10, <1>12 DEF DriftUnchanged
<1>13. CASE ReplaceDrift
  <2>1. ASSUME NEW c \in Clients, pc[c] \in InFlight
        PROVE  held'[c].key = held[c].key /\ held'[c].body = held[c].body
    <3>1. held[c] \in Bundle(DriftTables \cup {NoDrift})
      BY <2>1 DEF FreshInv, CompilerTypeOK
    <3>2. [held[c] EXCEPT !.late = TRUE].key = held[c].key
      BY <3>1 DEF Bundle
    <3>3. [held[c] EXCEPT !.late = TRUE].body = held[c].body
      BY <3>1 DEF Bundle
    <3> QED BY <1>13, <2>1, <3>2, <3>3 DEF ReplaceDrift
  <2> QED BY <1>1, <1>2, <1>3, <1>4, <1>9, <1>13, <2>1 DEF ReplaceDrift, FreshInv
<1>14. CASE InvalidateMemory
  BY <1>10, <1>14 DEF InvalidateMemory
<1>15. CASE DeleteAllBundles
  BY <1>10, <1>15 DEF DeleteAllBundles
<1>16. CASE RunFails
  BY <1>10, <1>16 DEF RunFails
<1>17. CASE InvalidateFails
  BY <1>10, <1>17 DEF InvalidateFails
<1>18. CASE Restart
  <2>1. \A c \in Clients : pc'[c] \notin InFlight
    BY <1>18 DEF Restart, InFlight, Reading
  <2> QED BY <1>1, <1>3, <1>9, <1>18, <2>1 DEF Restart, FreshInv
<1> QED
  BY <1>6, <1>7, <1>8, <1>11, <1>12, <1>13, <1>14, <1>15, <1>16, <1>17, <1>18 DEF SyncRun

(* No answer is older than the index state its request was keyed by, from  *)
(* either cache and under any overlap of requests, runs and restarts, as   *)
(* long as no document returns to an earlier text.                         *)
THEOREM Freshness == NoRecurrence => (Spec => []NothingOlderThanAsked)
<1> SUFFICES ASSUME NoRecurrence PROVE Spec => []NothingOlderThanAsked
  OBVIOUS
<1>1. Init => FreshInv
  <2> SUFFICES ASSUME Init PROVE FreshInv
    OBVIOUS
  <2>1. CompilerTypeOK
    BY InitTypes
  <2>2. IndexOrder
    <3>1. \A d \in Docs : Oldest[d] = 0
      BY DEF Oldest
    <3>2. docs = Oldest /\ pub = Oldest /\ source = Oldest
      BY DEF Init
    <3>3. 0 <= 0
      OBVIOUS
    <3> QED BY <3>1, <3>2, <3>3 DEF IndexOrder
  <2>3. CachedFresh
    BY DEF Init, CachedFresh
  <2>4. \A c \in Clients : pc[c] \notin InFlight
    BY DEF Init, InFlight, Reading
  <2> QED BY <2>1, <2>2, <2>3, <2>4 DEF FreshInv
<1>2. FreshInv /\ [Next]_vars => FreshInv'
  <2> SUFFICES ASSUME FreshInv, [Next]_vars PROVE FreshInv'
    OBVIOUS
  <2>1. CASE UNCHANGED vars
    <3>1. CompilerTypeOK' /\ IndexOrder' /\ CachedFresh'
      BY <2>1 DEF vars, FreshInv, CompilerTypeOK, IndexOrder, CachedFresh
    <3>2. \A c \in Clients : RequestFresh(c)' <=> RequestFresh(c)
      BY <2>1 DEF vars, RequestFresh, Fingerprint
    <3> QED BY <2>1, <3>1, <3>2 DEF vars, FreshInv
  <2> QED BY <2>1, RequestSteps, SyncSteps DEF Next
<1>3. FreshInv => NothingOlderThanAsked
  <2> SUFFICES ASSUME FreshInv, NEW c \in Clients, NEW b \in Returning(c), NEW s \in b.body
               PROVE  Fresh(s, asof[c])
    BY DEF NothingOlderThanAsked
  <2>1. pc[c] \in InFlight /\ b \in Lookup(lru, Key(c)) \cup {held[c]}
    BY DEF Returning, InFlight, Reading
  <2>2. b \in Bundle(DriftTables \cup {NoDrift})
    BY <2>1 DEF FreshInv, CompilerTypeOK, Lookup, Bundle
  <2>3. s.rev \in Revs
    BY <2>2 DEF Bundle, Sections
  <2>4. asof[c][s.doc] <= s.rev
    <3>1. CASE b \in Lookup(lru, Key(c))
      BY <2>1, <3>1, FoundFresh
    <3>2. CASE b = held[c]
      BY <2>1, <3>2 DEF FreshInv, RequestFresh
    <3> QED BY <2>1, <3>1, <3>2
  <2>5. s.rev >= asof[c][s.doc]
    BY <2>3, <2>4
  <2> QED BY <2>3, <2>5 DEF Fresh
<1> QED BY <1>1, <1>2, <1>3, PTL DEF Spec

-----------------------------------------------------------------------------
(* Untorn bundles.  A request that has felt no write reads tables whose    *)
(* fingerprint is its key's, so every section it collects matches the key. *)

Matches(b) == \A s \in b.body : Text[s.doc][s.rev] = b.key.fp[s.doc]

RequestMatches(c) ==
    ~held[c].torn => /\ Matches(held[c])
                     /\ pc[c] \in Reading => held[c].key.fp = Fingerprint(docs)

UntornInv ==
    /\ CompilerTypeOK
    /\ UntornBundleMatchesItsKey
    /\ \A c \in Clients : pc[c] \in InFlight => RequestMatches(c)

LEMMA UntornRequests ==
    ASSUME UntornInv, NEW c \in Clients, Compile(c)
    PROVE  UntornInv'
<1> USE DEF runVars, cacheVars, GoTo, Return
<1>1. CompilerTypeOK'
  BY RequestTypes DEF UntornInv
<1>2. CompilerTypeOK /\ held \in [Clients -> Bundle(DriftTables \cup {NoDrift}) \cup {NoBundle}]
             /\ pc \in [Clients -> InFlight \cup {"idle"}]
  BY DEF UntornInv, CompilerTypeOK
<1>3. UntornBundleMatchesItsKey
      /\ \A x \in Clients : pc[x] \in InFlight => RequestMatches(x)
  BY DEF UntornInv
<1>4. ASSUME UNCHANGED cacheVars PROVE UntornBundleMatchesItsKey'
  BY <1>3, <1>4 DEF UntornBundleMatchesItsKey
<1>5. ASSUME UNCHANGED docs,
             \A x \in Clients \ {c} : pc'[x] = pc[x] /\ held'[x] = held[x],
             pc'[c] \in InFlight => RequestMatches(c)'
      PROVE  \A x \in Clients : pc'[x] \in InFlight => RequestMatches(x)'
  <2> SUFFICES ASSUME NEW x \in Clients, pc'[x] \in InFlight, x # c
               PROVE  RequestMatches(x)'
    BY <1>5
  <2>1. RequestMatches(x)
    BY <1>3, <1>5
  <2> QED BY <1>5, <2>1 DEF RequestMatches, Matches, Fingerprint
<1>6. ASSUME NEW q \in Requests, GetIndexFingerprint(c, q) PROVE UntornInv'
  <2>1. /\ held'[c].key.fp = Fingerprint(pub) /\ held'[c].body = {}
        /\ held'[c].torn = (Fingerprint(docs) # Fingerprint(pub))
    BY <1>2, <1>6 DEF GetIndexFingerprint, CacheKey
  <2>2. RequestMatches(c)'
    BY <1>6, <2>1 DEF GetIndexFingerprint, RequestMatches, Matches, Fingerprint
  <2> QED BY <1>1, <1>2, <1>4, <1>5, <1>6, <2>2 DEF GetIndexFingerprint, UntornInv
<1>7. CASE LruGet(c)
  <2>1. pc'[c] \in InFlight => RequestMatches(c)'
    BY <1>2, <1>3, <1>7
       DEF LruGet, RequestMatches, Matches, Fingerprint, InFlight, Reading
  <2>2. UntornBundleMatchesItsKey'
    BY <1>3, <1>7 DEF LruGet, UntornBundleMatchesItsKey
  <2> QED BY <1>1, <1>2, <1>5, <1>7, <2>1, <2>2 DEF LruGet, UntornInv
<1>8. CASE GetBundleByKey(c)
  <2>1. RequestMatches(c)'
    <3>1. CASE Lookup(rows, Key(c)) # {}
      <4>1. PICK b \in Lookup(rows, Key(c)) :
               held' = [held EXCEPT ![c] = [b EXCEPT !.late = @ \/ held[c].late]]
        BY <1>8, <3>1 DEF GetBundleByKey
      <4>2. b \in Bundle(DriftTables) /\ b \in rows
        BY <1>2, <4>1 DEF Lookup, CompilerTypeOK
      <4>3. /\ held'[c].key = b.key /\ held'[c].body = b.body
            /\ held'[c].torn = b.torn
        BY <1>2, <4>1, <4>2 DEF Bundle
      <4>4. pc'[c] = "remember"
        BY <1>2, <1>8, <3>1 DEF GetBundleByKey
      <4> QED
        BY <1>3, <4>2, <4>3, <4>4
           DEF RequestMatches, Matches, UntornBundleMatchesItsKey, Reading
    <3>2. CASE Lookup(rows, Key(c)) = {}
      BY <1>3, <1>8, <3>2
         DEF GetBundleByKey, RequestMatches, Matches, Fingerprint, InFlight, Reading
    <3> QED BY <3>1, <3>2
  <2> QED BY <1>1, <1>2, <1>4, <1>5, <1>8, <2>1 DEF GetBundleByKey, UntornInv
<1>9. ASSUME NEW ds \in SUBSET Docs, Collect(c, ds), pc[c] \in Reading,
             UNCHANGED <<runVars, cacheVars, asof>>,
             GoTo(c, "hydrate") \/ GoTo(c, "attach")
      PROVE  UntornInv'
  <2>1. pc[c] \in InFlight /\ RequestMatches(c)
    BY <1>3, <1>9 DEF InFlight
  <2>2. held[c] \in Bundle(DriftTables \cup {NoDrift})
    BY <1>2, <2>1 DEF CompilerTypeOK
  <2>3. /\ held'[c].key = held[c].key /\ held'[c].torn = held[c].torn
        /\ held'[c].body = held[c].body \cup ReadNow(ds)
    BY <1>2, <1>9, <2>2 DEF Collect, Bundle
  <2>4. \A s \in ReadNow(ds) : Text[s.doc][s.rev] = Fingerprint(docs)[s.doc]
    BY DEF ReadNow, Fingerprint
  <2>5. RequestMatches(c)'
    BY <1>9, <2>1, <2>3, <2>4 DEF RequestMatches, Matches, Fingerprint
  <2> QED BY <1>1, <1>2, <1>4, <1>5, <1>9, <2>5 DEF Collect, UntornInv
<1>10. CASE SearchFTS(c)
  BY <1>9, <1>10 DEF SearchFTS, Reading
<1>11. CASE HydrateRest(c)
  BY <1>9, <1>11 DEF HydrateRest, Reading
<1>12. CASE AttachDrift(c)
  <2>1. held[c] \in Bundle(DriftTables \cup {NoDrift}) /\ pc[c] \in InFlight
    BY <1>2, <1>12 DEF AttachDrift, CompilerTypeOK, InFlight
  <2>2. /\ held'[c].key = held[c].key /\ held'[c].body = held[c].body
        /\ held'[c].torn = held[c].torn
    BY <1>2, <1>12, <2>1 DEF AttachDrift, Bundle
  <2>3. pc'[c] = "store"
    BY <1>2, <1>12 DEF AttachDrift
  <2>4. RequestMatches(c)'
    BY <1>3, <2>1, <2>2, <2>3 DEF RequestMatches, Matches, Reading
  <2> QED BY <1>1, <1>2, <1>4, <1>5, <1>12, <2>4 DEF AttachDrift, UntornInv
<1>13. CASE PutBundle(c)
  <2>1. pc[c] \in InFlight /\ RequestMatches(c) /\ pc'[c] = "remember"
    BY <1>2, <1>3, <1>13 DEF PutBundle, InFlight
  <2>2. UntornBundleMatchesItsKey'
    BY <1>3, <1>13, <2>1
       DEF PutBundle, UntornBundleMatchesItsKey, RequestMatches, Matches
  <2>3. RequestMatches(c)'
    BY <1>13, <2>1 DEF PutBundle, RequestMatches, Matches, Reading
  <2> QED BY <1>1, <1>2, <1>5, <1>13, <2>2, <2>3 DEF PutBundle, UntornInv
<1>14. CASE Remember(c)
  <2>1. pc[c] \in InFlight /\ RequestMatches(c)
    BY <1>3, <1>14 DEF Remember, InFlight
  <2>2. lru' \subseteq lru \cup {held[c]} /\ rows' = rows
    BY <1>14 DEF Remember, LruPut, Lookup
  <2>3. UntornBundleMatchesItsKey'
    BY <1>3, <2>1, <2>2 DEF UntornBundleMatchesItsKey, RequestMatches, Matches
  <2>4. pc'[c] \notin InFlight
    BY <1>2, <1>14 DEF Remember, InFlight, Reading
  <2> QED BY <1>1, <1>2, <1>5, <1>14, <2>3, <2>4 DEF Remember, UntornInv
<1>15. CASE CompileFails(c)
  <2>1. pc'[c] \notin InFlight
    BY <1>2, <1>15 DEF CompileFails, InFlight, Reading
  <2> QED BY <1>1, <1>2, <1>4, <1>5, <1>15, <2>1 DEF CompileFails, UntornInv
<1> QED
  BY <1>6, <1>7, <1>8, <1>10, <1>11, <1>12, <1>13, <1>14, <1>15 DEF Compile

LEMMA UntornSync ==
    ASSUME UntornInv, SyncRun \/ Restart
    PROVE  UntornInv'
<1> USE DEF cacheVars, clientVars
<1>1. CompilerTypeOK'
  BY SyncTypes DEF UntornInv
<1>2. UntornBundleMatchesItsKey
      /\ \A c \in Clients : pc[c] \in InFlight =>
            RequestMatches(c) /\ held[c] \in Bundle(DriftTables \cup {NoDrift})
  BY DEF UntornInv, CompilerTypeOK
<1>3. ASSUME rows' \subseteq rows, lru' \subseteq lru PROVE UntornBundleMatchesItsKey'
  BY <1>2, <1>3 DEF UntornBundleMatchesItsKey
<1>4. ASSUME UNCHANGED <<docs, clientVars>>, rows' \subseteq rows, lru' \subseteq lru
      PROVE  UntornInv'
  <2>1. ASSUME NEW c \in Clients, pc'[c] \in InFlight PROVE RequestMatches(c)'
    BY <1>2, <1>4, <2>1 DEF RequestMatches, Matches, Fingerprint
  <2> QED BY <1>1, <1>3, <1>4, <2>1 DEF UntornInv
<1>5. ASSUME NEW d \in Docs, UpsertDocument(d) \/ DeleteDocument(d) PROVE UntornInv'
  <2>1. Tear /\ UNCHANGED <<cacheVars, pc>>
    BY <1>5 DEF UpsertDocument, DeleteDocument
  <2>2. ASSUME NEW c \in Clients, pc'[c] \in InFlight PROVE RequestMatches(c)'
    <3>1. CASE pc[c] \in Reading
      <4>1. held[c] \in Bundle(DriftTables \cup {NoDrift})
        BY <1>2, <2>1, <2>2
      <4>2. held'[c] = [held[c] EXCEPT !.torn = TRUE]
        BY <2>1, <3>1 DEF Tear
      <4>3. [held[c] EXCEPT !.torn = TRUE].torn = TRUE
        BY <4>1 DEF Bundle
      <4> QED BY <4>2, <4>3 DEF RequestMatches
    <3>2. CASE pc[c] \notin Reading
      <4>1. held'[c] = held[c]
        BY <2>1, <3>2 DEF Tear
      <4> QED BY <1>2, <2>1, <2>2, <3>2, <4>1 DEF RequestMatches, Matches
    <3> QED BY <3>1, <3>2
  <2> QED BY <1>1, <1>3, <2>1, <2>2 DEF UntornInv
<1>6. CASE StartRun
  BY <1>4, <1>6 DEF StartRun
<1>7. CASE SetIndexFingerprint
  BY <1>4, <1>7 DEF SetIndexFingerprint
<1>8. CASE PruneBundles
  BY <1>4, <1>8 DEF PruneBundles
<1>9. CASE DriftUnchanged
  BY <1>4, <1>9 DEF DriftUnchanged
<1>10. CASE ReplaceDrift
  <2>1. ASSUME NEW c \in Clients, pc'[c] \in InFlight PROVE RequestMatches(c)'
    <3>1. pc[c] \in InFlight /\ held[c] \in Bundle(DriftTables \cup {NoDrift})
      BY <1>2, <1>10, <2>1 DEF ReplaceDrift
    <3>2. held'[c] = [held[c] EXCEPT !.late = TRUE]
      BY <1>10, <3>1 DEF ReplaceDrift
    <3>3. [held[c] EXCEPT !.late = TRUE].key = held[c].key
      BY <3>1 DEF Bundle
    <3>4. [held[c] EXCEPT !.late = TRUE].body = held[c].body
      BY <3>1 DEF Bundle
    <3>5. [held[c] EXCEPT !.late = TRUE].torn = held[c].torn
      BY <3>1 DEF Bundle
    <3>6. pc' = pc /\ docs' = docs
      BY <1>10 DEF ReplaceDrift
    <3>7. /\ held'[c].key = held[c].key /\ held'[c].body = held[c].body
          /\ held'[c].torn = held[c].torn
      BY <3>2, <3>3, <3>4, <3>5
    <3> QED BY <1>2, <3>1, <3>6, <3>7 DEF RequestMatches, Matches, Fingerprint
  <2> QED BY <1>1, <1>3, <1>10, <2>1 DEF ReplaceDrift, UntornInv
<1>11. CASE InvalidateMemory
  BY <1>4, <1>11 DEF InvalidateMemory
<1>12. CASE DeleteAllBundles
  BY <1>4, <1>12 DEF DeleteAllBundles
<1>13. CASE RunFails
  BY <1>4, <1>13 DEF RunFails
<1>14. CASE InvalidateFails
  BY <1>4, <1>14 DEF InvalidateFails
<1>15. CASE Restart
  <2>1. \A c \in Clients : pc'[c] \notin InFlight
    BY <1>15 DEF Restart, InFlight, Reading
  <2> QED BY <1>1, <1>3, <1>15, <2>1 DEF Restart, UntornInv
<1> QED
  BY <1>5, <1>6, <1>7, <1>8, <1>9, <1>10, <1>11, <1>12, <1>13, <1>14, <1>15 DEF SyncRun

(* A bundle compiled with no index write overlapping it shows exactly the  *)
(* contents its fingerprint was computed from, for as long as either cache *)
(* holds it, whatever the history: also when documents are reverted.       *)
THEOREM UntornBundles == Spec => []UntornBundleMatchesItsKey
<1>1. Init => UntornInv
  <2> SUFFICES ASSUME Init PROVE UntornInv
    OBVIOUS
  <2>1. CompilerTypeOK
    BY InitTypes
  <2>2. UntornBundleMatchesItsKey
    BY DEF Init, UntornBundleMatchesItsKey
  <2>3. \A c \in Clients : pc[c] \notin InFlight
    BY DEF Init, InFlight, Reading
  <2> QED BY <2>1, <2>2, <2>3 DEF UntornInv
<1>2. UntornInv /\ [Next]_vars => UntornInv'
  <2> SUFFICES ASSUME UntornInv, [Next]_vars PROVE UntornInv'
    OBVIOUS
  <2>1. CASE UNCHANGED vars
    <3>1. CompilerTypeOK' /\ UntornBundleMatchesItsKey'
      BY <2>1 DEF vars, UntornInv, CompilerTypeOK, UntornBundleMatchesItsKey
    <3>2. ASSUME NEW c \in Clients, pc'[c] \in InFlight PROVE RequestMatches(c)'
      BY <2>1, <3>2 DEF vars, UntornInv, RequestMatches, Matches, Fingerprint
    <3> QED BY <3>1, <3>2 DEF UntornInv
  <2> QED BY <2>1, UntornRequests, UntornSync DEF Next
<1>3. UntornInv => UntornBundleMatchesItsKey
  BY DEF UntornInv
<1> QED BY <1>1, <1>2, <1>3, PTL DEF Spec

-----------------------------------------------------------------------------
(* Drift in cached bundles.  A request in flight beside an invalidation is *)
(* marked late, so what it holds when it is about to cache it is current   *)
(* or late, or a row that an invalidation cut short has left.              *)

HeldDrift(c) ==
    /\ Invalidating => held[c].late
    /\ pc[c] = "store" => held[c].drift = drift \/ held[c].late
    /\ pc[c] = "remember" => held[c].drift = drift \/ held[c].late \/ cutShort

DriftInv ==
    /\ CompilerTypeOK
    /\ StaleDriftNeedsOverlap
    /\ runPc = "clearRows" => \A b \in lru : b.drift = drift \/ b.late
    /\ \A c \in Clients : pc[c] \in InFlight => HeldDrift(c)

LEMMA DriftRequests ==
    ASSUME DriftInv, NEW c \in Clients, Compile(c)
    PROVE  DriftInv'
<1> USE DEF runVars, cacheVars, GoTo, Return
<1>1. CompilerTypeOK'
  BY RequestTypes DEF DriftInv
<1>2. CompilerTypeOK /\ held \in [Clients -> Bundle(DriftTables \cup {NoDrift}) \cup {NoBundle}]
             /\ pc \in [Clients -> InFlight \cup {"idle"}]
  BY DEF DriftInv, CompilerTypeOK
<1>3. /\ StaleDriftNeedsOverlap
      /\ runPc = "clearRows" => \A b \in lru : b.drift = drift \/ b.late
      /\ \A x \in Clients : pc[x] \in InFlight => HeldDrift(x)
  BY DEF DriftInv
<1>4. UNCHANGED <<drift, cutShort, runPc>>
  BY DEF Compile, GetIndexFingerprint, LruGet, GetBundleByKey, SearchFTS, HydrateRest,
         AttachDrift, PutBundle, Remember, CompileFails
<1>5. ASSUME \A x \in Clients \ {c} : pc'[x] = pc[x] /\ held'[x] = held[x],
             pc'[c] \in InFlight => HeldDrift(c)'
      PROVE  \A x \in Clients : pc'[x] \in InFlight => HeldDrift(x)'
  BY <1>3, <1>4, <1>5 DEF HeldDrift, Invalidating
<1>6. ASSUME rows' \subseteq rows, lru' \subseteq lru
      PROVE  StaleDriftNeedsOverlap' /\ (runPc = "clearRows" => \A b \in lru : b.drift = drift \/ b.late)'
  BY <1>3, <1>4, <1>6 DEF StaleDriftNeedsOverlap, Invalidating
<1>7. ASSUME NEW q \in Requests, GetIndexFingerprint(c, q) PROVE DriftInv'
  <2>1. held'[c].late = Invalidating /\ pc'[c] = "memory"
    BY <1>2, <1>7 DEF GetIndexFingerprint
  <2>2. HeldDrift(c)'
    BY <1>4, <2>1 DEF HeldDrift, Invalidating
  <2> QED BY <1>1, <1>2, <1>5, <1>6, <1>7, <2>2 DEF GetIndexFingerprint, DriftInv
<1>8. CASE LruGet(c)
  <2>1. pc'[c] \in InFlight => HeldDrift(c)'
    BY <1>2, <1>3, <1>4, <1>8 DEF LruGet, HeldDrift, InFlight, Reading, Invalidating
  <2> QED BY <1>1, <1>2, <1>5, <1>6, <1>8, <2>1 DEF LruGet, DriftInv
<1>9. CASE GetBundleByKey(c)
  <2>1. HeldDrift(c) /\ pc[c] = "row"
    BY <1>3, <1>9 DEF GetBundleByKey, InFlight, Reading
  <2>2. HeldDrift(c)'
    <3>1. CASE Lookup(rows, Key(c)) # {}
      <4>1. PICK b \in Lookup(rows, Key(c)) :
               held' = [held EXCEPT ![c] = [b EXCEPT !.late = @ \/ held[c].late]]
        BY <1>9, <3>1 DEF GetBundleByKey
      <4>2. b \in Bundle(DriftTables) /\ b \in rows
        BY <1>2, <4>1 DEF Lookup, CompilerTypeOK
      <4>3. /\ held'[c].drift = b.drift
            /\ held'[c].late = (b.late \/ held[c].late)
        BY <1>2, <4>1, <4>2 DEF Bundle
      <4>4. pc'[c] = "remember"
        BY <1>2, <1>9, <3>1 DEF GetBundleByKey
      <4> QED
        BY <1>3, <1>4, <2>1, <4>2, <4>3, <4>4
           DEF HeldDrift, StaleDriftNeedsOverlap, Invalidating
    <3>2. CASE Lookup(rows, Key(c)) = {}
      BY <1>2, <1>4, <1>9, <2>1, <3>2 DEF GetBundleByKey, HeldDrift, Invalidating
    <3> QED BY <3>1, <3>2
  <2> QED BY <1>1, <1>2, <1>5, <1>6, <1>9, <2>2 DEF GetBundleByKey, DriftInv
<1>10. ASSUME NEW ds \in SUBSET Docs, Collect(c, ds), pc[c] \in Reading,
              UNCHANGED <<runVars, cacheVars, asof>>,
              GoTo(c, "hydrate") \/ GoTo(c, "attach")
       PROVE  DriftInv'
  <2>1. pc[c] \in InFlight /\ HeldDrift(c)
    BY <1>3, <1>10 DEF InFlight
  <2>2. held[c] \in Bundle(DriftTables \cup {NoDrift})
    BY <1>2, <2>1 DEF CompilerTypeOK
  <2>3. held'[c].late = held[c].late
    BY <1>2, <1>10, <2>2 DEF Collect, Bundle
  <2>4. HeldDrift(c)'
    BY <1>2, <1>4, <1>10, <2>1, <2>3 DEF HeldDrift, Invalidating
  <2> QED BY <1>1, <1>2, <1>5, <1>6, <1>10, <2>4 DEF Collect, DriftInv
<1>11. CASE SearchFTS(c)
  BY <1>10, <1>11 DEF SearchFTS, Reading
<1>12. CASE HydrateRest(c)
  BY <1>10, <1>12 DEF HydrateRest, Reading
<1>13. CASE AttachDrift(c)
  <2>1. held[c] \in Bundle(DriftTables \cup {NoDrift}) /\ pc[c] \in InFlight
    BY <1>2, <1>13 DEF AttachDrift, CompilerTypeOK, InFlight
  <2>2. held'[c].drift = drift /\ held'[c].late = held[c].late /\ pc'[c] = "store"
    BY <1>2, <1>13, <2>1 DEF AttachDrift, Bundle
  <2>3. HeldDrift(c)'
    BY <1>3, <1>4, <2>1, <2>2 DEF HeldDrift, Invalidating
  <2> QED BY <1>1, <1>2, <1>5, <1>6, <1>13, <2>3 DEF AttachDrift, DriftInv
<1>14. CASE PutBundle(c)
  <2>1. pc[c] = "store" /\ HeldDrift(c) /\ pc'[c] = "remember" /\ held' = held
    BY <1>2, <1>3, <1>14 DEF PutBundle, InFlight
  <2>2. rows' \subseteq rows \cup {held[c]} /\ lru' = lru
    BY <1>14 DEF PutBundle
  <2>3. StaleDriftNeedsOverlap' /\ (runPc = "clearRows" => \A b \in lru : b.drift = drift \/ b.late)'
    BY <1>3, <1>4, <2>1, <2>2 DEF StaleDriftNeedsOverlap, HeldDrift, Invalidating
  <2>4. HeldDrift(c)'
    BY <1>4, <2>1 DEF HeldDrift, Invalidating
  <2> QED BY <1>1, <1>2, <1>5, <1>14, <2>3, <2>4 DEF PutBundle, DriftInv
<1>15. CASE Remember(c)
  <2>1. pc[c] = "remember" /\ HeldDrift(c)
    BY <1>3, <1>15 DEF Remember, InFlight
  <2>2. lru' \subseteq lru \cup {held[c]} /\ rows' = rows
    BY <1>15 DEF Remember, LruPut, Lookup
  <2>3. StaleDriftNeedsOverlap' /\ (runPc = "clearRows" => \A b \in lru : b.drift = drift \/ b.late)'
    BY <1>3, <1>4, <2>1, <2>2 DEF StaleDriftNeedsOverlap, HeldDrift, Invalidating
  <2>4. pc'[c] \notin InFlight
    BY <1>2, <1>15 DEF Remember, InFlight, Reading
  <2> QED BY <1>1, <1>2, <1>5, <1>15, <2>3, <2>4 DEF Remember, DriftInv
<1>16. CASE CompileFails(c)
  <2>1. pc'[c] \notin InFlight
    BY <1>2, <1>16 DEF CompileFails, InFlight, Reading
  <2> QED BY <1>1, <1>2, <1>5, <1>6, <1>16, <2>1 DEF CompileFails, DriftInv
<1> QED
  BY <1>7, <1>8, <1>9, <1>11, <1>12, <1>13, <1>14, <1>15, <1>16 DEF Compile

LEMMA DriftSync ==
    ASSUME DriftInv, SyncRun \/ Restart
    PROVE  DriftInv'
<1> USE DEF cacheVars, clientVars
<1>1. CompilerTypeOK'
  BY SyncTypes DEF DriftInv
<1>2. /\ StaleDriftNeedsOverlap
      /\ runPc = "clearRows" => \A b \in lru : b.drift = drift \/ b.late
      /\ \A c \in Clients : pc[c] \in InFlight =>
            HeldDrift(c) /\ held[c] \in Bundle(DriftTables \cup {NoDrift})
  BY DEF DriftInv, CompilerTypeOK
<1>3. ASSUME UNCHANGED <<drift, cutShort, lru, clientVars>>, rows' \subseteq rows,
             ~Invalidating, ~Invalidating'
      PROVE  DriftInv'
  <2>1. \A c \in Clients : pc'[c] \in InFlight => HeldDrift(c)'
    BY <1>2, <1>3 DEF HeldDrift
  <2> QED BY <1>1, <1>2, <1>3, <2>1 DEF DriftInv, StaleDriftNeedsOverlap, Invalidating
<1>4. ASSUME NEW d \in Docs, UpsertDocument(d) \/ DeleteDocument(d) PROVE DriftInv'
  <2>1. Tear /\ UNCHANGED <<cacheVars, pc, drift, cutShort, runPc>> /\ runPc = "index"
    BY <1>4 DEF UpsertDocument, DeleteDocument
  <2>2. ASSUME NEW c \in Clients, pc'[c] \in InFlight PROVE HeldDrift(c)'
    <3>1. held[c] \in Bundle(DriftTables \cup {NoDrift}) /\ HeldDrift(c)
      BY <1>2, <2>1, <2>2
    <3>2. held'[c].drift = held[c].drift /\ held'[c].late = held[c].late
      BY <2>1, <3>1 DEF Tear, Bundle
    <3> QED BY <2>1, <3>1, <3>2 DEF HeldDrift, Invalidating
  <2> QED BY <1>1, <1>2, <2>1, <2>2 DEF DriftInv, StaleDriftNeedsOverlap, Invalidating
<1>5. CASE StartRun
  BY <1>3, <1>5 DEF StartRun, Invalidating
<1>6. CASE SetIndexFingerprint
  BY <1>3, <1>6 DEF SetIndexFingerprint, Invalidating
<1>7. CASE PruneBundles
  BY <1>3, <1>7 DEF PruneBundles, Invalidating
<1>8. CASE DriftUnchanged
  BY <1>3, <1>8 DEF DriftUnchanged, Invalidating
<1>9. CASE RunFails
  BY <1>3, <1>9 DEF RunFails, Invalidating
<1>10. CASE ReplaceDrift
  <2>1. runPc' = "clearMemory"
    BY <1>10 DEF ReplaceDrift
  <2>2. ASSUME NEW c \in Clients, pc'[c] \in InFlight PROVE HeldDrift(c)'
    <3>1. pc[c] \in InFlight /\ held[c] \in Bundle(DriftTables \cup {NoDrift})
      BY <1>2, <1>10, <2>2 DEF ReplaceDrift
    <3>2. held'[c] = [held[c] EXCEPT !.late = TRUE]
      BY <1>10, <3>1 DEF ReplaceDrift
    <3>3. [held[c] EXCEPT !.late = TRUE].late
      BY <3>1 DEF Bundle
    <3> QED BY <3>2, <3>3 DEF HeldDrift
  <2> QED BY <1>1, <2>1, <2>2 DEF DriftInv, StaleDriftNeedsOverlap, Invalidating
<1>11. CASE InvalidateMemory
  <2>1. runPc = "clearMemory" /\ runPc' = "clearRows" /\ lru' = {}
        /\ UNCHANGED <<drift, cutShort, rows, clientVars>>
    BY <1>11 DEF InvalidateMemory
  <2>2. \A c \in Clients : pc'[c] \in InFlight => HeldDrift(c)'
    BY <1>2, <2>1 DEF HeldDrift, Invalidating
  <2> QED BY <1>1, <2>1, <2>2 DEF DriftInv, StaleDriftNeedsOverlap, Invalidating
<1>12. CASE DeleteAllBundles
  <2>1. runPc = "clearRows" /\ runPc' = "idle" /\ rows' = {}
        /\ UNCHANGED <<drift, lru, clientVars>>
    BY <1>12 DEF DeleteAllBundles
  <2>2. \A c \in Clients : pc'[c] \in InFlight => HeldDrift(c)'
    BY <1>2, <2>1 DEF HeldDrift, Invalidating
  <2> QED BY <1>1, <1>2, <2>1, <2>2 DEF DriftInv, StaleDriftNeedsOverlap, Invalidating
<1>13. CASE InvalidateFails
  <2>1. runPc = "clearRows" /\ runPc' = "idle" /\ cutShort'
        /\ UNCHANGED <<drift, cacheVars, clientVars>>
    BY <1>13 DEF InvalidateFails
  <2>2. \A c \in Clients : pc'[c] \in InFlight => HeldDrift(c)'
    BY <1>2, <2>1 DEF HeldDrift, Invalidating
  <2> QED BY <1>1, <2>1, <2>2 DEF DriftInv, StaleDriftNeedsOverlap
<1>14. CASE Restart
  <2>1. \A c \in Clients : pc'[c] \notin InFlight
    BY <1>14 DEF Restart, InFlight, Reading
  <2> QED BY <1>1, <1>2, <1>14, <2>1 DEF Restart, DriftInv, StaleDriftNeedsOverlap
<1> QED
  BY <1>4, <1>5, <1>6, <1>7, <1>8, <1>9, <1>10, <1>11, <1>12, <1>13, <1>14 DEF SyncRun

(* A cached bundle shows the drift of the table, unless its request        *)
(* overlapped the invalidation or the last invalidation was cut short      *)
(* (checkDrift, Invalidate).                                               *)
THEOREM StaleDriftExplained == Spec => []StaleDriftNeedsOverlap
<1>1. Init => DriftInv
  <2> SUFFICES ASSUME Init PROVE DriftInv
    OBVIOUS
  <2>1. CompilerTypeOK
    BY InitTypes
  <2>2. StaleDriftNeedsOverlap /\ runPc = "idle"
    BY DEF Init, StaleDriftNeedsOverlap
  <2>3. \A c \in Clients : pc[c] \notin InFlight
    BY DEF Init, InFlight, Reading
  <2> QED BY <2>1, <2>2, <2>3 DEF DriftInv
<1>2. DriftInv /\ [Next]_vars => DriftInv'
  <2> SUFFICES ASSUME DriftInv, [Next]_vars PROVE DriftInv'
    OBVIOUS
  <2>1. CASE UNCHANGED vars
    <3>1. CompilerTypeOK' /\ StaleDriftNeedsOverlap'
          /\ (runPc = "clearRows" => \A b \in lru : b.drift = drift \/ b.late)'
      BY <2>1 DEF vars, DriftInv, CompilerTypeOK, StaleDriftNeedsOverlap, Invalidating
    <3>2. ASSUME NEW c \in Clients, pc'[c] \in InFlight PROVE HeldDrift(c)'
      BY <2>1, <3>2 DEF vars, DriftInv, HeldDrift, Invalidating
    <3> QED BY <3>1, <3>2 DEF DriftInv
  <2> QED BY <2>1, DriftRequests, DriftSync DEF Next
<1>3. DriftInv => StaleDriftNeedsOverlap
  BY DEF DriftInv
<1> QED BY <1>1, <1>2, <1>3, PTL DEF Spec

-----------------------------------------------------------------------------
(* The process-memory cache.                                               *)

Distinct(s) == \A i, j \in DOMAIN s : s[i] = s[j] => i = j

(* Touch permutes a list of distinct keys.                                 *)
LEMMA TouchPermutes ==
    ASSUME NEW K, NEW s \in Seq(K), NEW k \in K, Distinct(s)
    PROVE  /\ Len(Touch(s, k)) = Len(s)
           /\ Distinct(Touch(s, k))
           /\ \A i \in DOMAIN s : \E j \in DOMAIN Touch(s, k) : Touch(s, k)[j] = s[i]
           /\ \A j \in DOMAIN Touch(s, k) : \E i \in DOMAIN s : s[i] = Touch(s, k)[j]
<1> DEFINE t == Touch(s, k)
           n == Len(s)
<1>1. CASE \E i \in DOMAIN s : s[i] = k
  <2> DEFINE first == CHOOSE i \in DOMAIN s :
                          s[i] = k /\ \A j \in DOMAIN s : s[j] = k => i <= j
  <2>1. PICK i \in DOMAIN s : s[i] = k
    BY <1>1
  <2>2. n \in Nat /\ n > 0 /\ DOMAIN s = 1 .. n
    BY <2>1
  <2>3. \A j \in DOMAIN s : s[j] = k => i <= j
    BY <2>1, <2>2 DEF Distinct
  <2>4. first \in 1 .. n /\ s[first] = k
    BY <2>1, <2>2, <2>3
  <2> HIDE DEF first
  <2>5. Without(s, first) \in Seq(K) /\ Len(Without(s, first)) = n - 1
    <3>1. \A j \in 1 .. n - 1 : (IF j < first THEN s[j] ELSE s[j + 1]) \in K
      BY <2>2, <2>4
    <3>2. Without(s, first) \in [1 .. n - 1 -> K]
      BY <3>1 DEF Without
    <3>3. n - 1 \in Nat
      BY <2>2
    <3> HIDE DEF n
    <3> QED BY <3>2, <3>3
  <2>6. \A j \in 1 .. n - 1 :
           Without(s, first)[j] = IF j < first THEN s[j] ELSE s[j + 1]
    BY DEF Without
  <2>7. t = Append(Without(s, first), k)
    BY <1>1 DEF Touch, first
  <2>8. DOMAIN t = 1 .. n /\ Len(t) = n /\ t[n] = s[first]
    <3> DEFINE w == Without(s, first)
    <3>1. w \in Seq(K) /\ Len(w) + 1 = n
      BY <2>2, <2>5
    <3> HIDE DEF w
    <3>2. Len(Append(w, k)) = n /\ DOMAIN Append(w, k) = 1 .. n /\ Append(w, k)[n] = k
      BY <3>1
    <3> QED BY <2>4, <2>7, <3>2 DEF w
  <2>9. \A j \in 1 .. n - 1 : t[j] = IF j < first THEN s[j] ELSE s[j + 1]
    BY <2>2, <2>5, <2>6, <2>7
  <2> HIDE DEF t, n
  <2>10. Distinct(t)
    <3> DEFINE origin(j) == IF j = n THEN first ELSE IF j < first THEN j ELSE j + 1
    <3>1. ASSUME NEW j \in 1 .. n PROVE origin(j) \in 1 .. n /\ t[j] = s[origin(j)]
      BY <2>2, <2>4, <2>8, <2>9
    <3>2. ASSUME NEW i0 \in 1 .. n, NEW j \in 1 .. n, origin(i0) = origin(j) PROVE i0 = j
      BY <2>2, <2>4, <3>2
    <3> HIDE DEF origin
    <3>3. \A p, q \in 1 .. n : s[p] = s[q] => p = q
      BY <2>2 DEF Distinct
    <3>4. ASSUME NEW i0 \in 1 .. n, NEW j \in 1 .. n, t[i0] = t[j] PROVE i0 = j
      <4>1. s[origin(i0)] = s[origin(j)]
        BY <3>1, <3>4
      <4>2. origin(i0) = origin(j)
        BY <3>1, <3>3, <4>1
      <4> QED BY <3>2, <4>2
    <3> QED BY <2>8, <3>4 DEF Distinct
  <2>11. ASSUME NEW m \in 1 .. n PROVE \E j \in 1 .. n : t[j] = s[m]
    <3>1. CASE m < first
      BY <2>2, <2>4, <2>9, <3>1
    <3>2. CASE m = first
      BY <2>2, <2>8, <3>2
    <3>3. CASE m > first
      <4>1. m - 1 \in 1 .. n - 1 /\ ~(m - 1 < first) /\ (m - 1) + 1 = m
        BY <2>2, <2>4, <3>3
      <4>2. t[m - 1] = s[m]
        BY <2>9, <4>1
      <4>3. m - 1 \in 1 .. n
        BY <2>2, <4>1
      <4> QED BY <4>2, <4>3
    <3> QED BY <2>2, <2>4, <3>1, <3>2, <3>3
  <2>12. ASSUME NEW m \in 1 .. n PROVE \E i0 \in 1 .. n : s[i0] = t[m]
    BY <2>2, <2>4, <2>8, <2>9
  <2> QED BY <2>2, <2>8, <2>10, <2>11, <2>12 DEF t, n
<1>2. CASE ~ \E i \in DOMAIN s : s[i] = k
  BY <1>2 DEF Touch
<1> QED BY <1>1, <1>2

LruInv == CompilerTypeOK /\ LruWellFormed

(* A hit, or a put of a known key, reorders the list and keeps its keys.   *)
LEMMA TouchedWellFormed ==
    ASSUME LruInv, NEW k \in Keys, order' = Touch(order, k),
           {b.key : b \in lru'} = {b.key : b \in lru},
           \A a, b \in lru' : a.key = b.key => a = b
    PROVE  LruWellFormed'
<1>1. order \in Seq(Keys) /\ Distinct(order) /\ Len(order) <= LruSize
  BY DEF LruInv, CompilerTypeOK, LruWellFormed, Distinct
<1>2. /\ Len(order') = Len(order)
      /\ Distinct(order')
      /\ \A i \in DOMAIN order : \E j \in DOMAIN order' : order'[j] = order[i]
      /\ \A j \in DOMAIN order' : \E i \in DOMAIN order : order[i] = order'[j]
  BY <1>1, TouchPermutes
<1>3. /\ \A b \in lru : \E i \in DOMAIN order : order[i] = b.key
      /\ \A i \in DOMAIN order : \E b \in lru : b.key = order[i]
  BY DEF LruInv, LruWellFormed
<1>4. ASSUME NEW b \in lru' PROVE \E i \in DOMAIN order' : order'[i] = b.key
  <2>1. b.key \in {e.key : e \in lru'}
    BY <1>4
  <2>2. PICK a \in lru : a.key = b.key
    BY <2>1
  <2>3. PICK i \in DOMAIN order : order[i] = a.key
    BY <1>3
  <2>4. PICK j \in DOMAIN order' : order'[j] = order[i]
    BY <1>2
  <2> QED BY <2>2, <2>3, <2>4
<1>5. ASSUME NEW j \in DOMAIN order' PROVE \E b \in lru' : b.key = order'[j]
  <2>1. PICK i \in DOMAIN order : order[i] = order'[j]
    BY <1>2
  <2>2. PICK a \in lru : a.key = order[i]
    BY <1>3
  <2>3. a.key \in {e.key : e \in lru}
    BY <2>2
  <2>4. PICK b \in lru' : b.key = a.key
    BY <2>3
  <2> QED BY <2>1, <2>2, <2>4
<1> QED BY <1>1, <1>2, <1>4, <1>5 DEF LruWellFormed, Distinct

LEMMA PutWellFormed ==
    ASSUME LruInv, NEW b \in Bundle(DriftTables), NEW k \in Keys, b.key = k, LruPut(k, b)
    PROVE  LruWellFormed'
<1> USE DEF Lookup
<1>1. /\ order \in Seq(Keys) /\ Len(order) <= LruSize
      /\ \A e \in lru : \E i \in DOMAIN order : order[i] = e.key
      /\ \A i \in DOMAIN order : \E e \in lru : e.key = order[i]
      /\ \A i, j \in DOMAIN order : order[i] = order[j] => i = j
      /\ \A a, e \in lru : a.key = e.key => a = e
  BY DEF LruInv, CompilerTypeOK, LruWellFormed
<1>2. CASE Lookup(lru, k) # {}
  <2>1. order' = Touch(order, k) /\ lru' = (lru \ Lookup(lru, k)) \cup {b}
    BY <1>2 DEF LruPut
  <2>2. {e.key : e \in lru'} = {e.key : e \in lru}
    BY <1>2, <2>1
  <2>3. \A a, e \in lru' : a.key = e.key => a = e
    BY <1>1, <2>1
  <2> QED BY <2>1, <2>2, <2>3, TouchedWellFormed
<1>3. CASE Lookup(lru, k) = {}
  <2> DEFINE n    == Len(order)
             all  == Append(order, k)
             over == IF Len(all) > LruSize THEN Len(all) - LruSize ELSE 0
  <2>1. /\ order' = SubSeq(all, over + 1, Len(all))
        /\ lru' = {e \in lru \cup {b} : \A i \in 1 .. over : all[i] # e.key}
    BY <1>3 DEF LruPut
  <2>2. /\ n \in Nat /\ LruSize \in Nat /\ LruSize > 0 /\ DOMAIN order = 1 .. n
        /\ Len(all) = n + 1 /\ n <= LruSize /\ all \in Seq(Keys)
        /\ \A i \in 1 .. n : all[i] = order[i]
        /\ all[n + 1] = k
    BY <1>1, BoundsAssumption
  <2> HIDE DEF n, all
  <2>3. over \in Nat /\ over <= n /\ n + 1 - over <= LruSize
    BY <2>2
  <2> HIDE DEF over
  <2>4. /\ Len(order') = n + 1 - over /\ DOMAIN order' = 1 .. n + 1 - over
        /\ \A i \in 1 .. n + 1 - over : order'[i] = all[over + i]
    <3>1. order' = [i \in 1 .. (1 + Len(all)) - (over + 1) |-> all[(i + (over + 1)) - 1]]
      BY <2>1, <2>2, <2>3
    <3>2. (1 + Len(all)) - (over + 1) = n + 1 - over /\ n + 1 - over \in Nat
      BY <2>2, <2>3
    <3>3. \A i \in 1 .. n + 1 - over : (i + (over + 1)) - 1 = over + i
      BY <2>2, <2>3
    <3>4. order' = [i \in 1 .. n + 1 - over |-> all[over + i]]
      BY <3>1, <3>2, <3>3
    <3>5. \A i \in 1 .. n + 1 - over : all[over + i] \in Keys
      BY <2>2, <2>3
    <3>6. order' \in [1 .. n + 1 - over -> Keys]
      BY <3>4, <3>5
    <3>7. order' \in Seq(Keys) /\ DOMAIN order' = 1 .. n + 1 - over
      BY <3>2, <3>6
    <3>8. Len(order') = n + 1 - over
      BY <3>2, <3>7
    <3> QED BY <3>4, <3>7, <3>8
  <2>5. \A i \in 1 .. n : order[i] # k
    BY <1>1, <1>3, <2>2
  <2>6. ASSUME NEW i \in 1 .. n + 1, NEW j \in 1 .. n + 1, all[i] = all[j] PROVE i = j
    BY <1>1, <2>2, <2>5, <2>6
  <2>7. ASSUME NEW i \in 1 .. n + 1 PROVE \E e \in lru \cup {b} : e.key = all[i]
    <3>1. CASE i = n + 1
      BY <2>2, <3>1
    <3>2. CASE i \in 1 .. n
      <4>1. PICK e \in lru : e.key = order[i]
        BY <1>1, <2>2, <3>2
      <4> QED BY <2>2, <3>2, <4>1
    <3> QED BY <2>2, <3>1, <3>2
  <2>8. ASSUME NEW e \in lru \cup {b} PROVE \E i \in 1 .. n + 1 : all[i] = e.key
    BY <1>1, <2>2
  <2>9. ASSUME NEW e \in lru' PROVE \E i \in DOMAIN order' : order'[i] = e.key
    <3>1. PICK i \in 1 .. n + 1 : all[i] = e.key
      BY <2>1, <2>8
    <3>2. i \notin 1 .. over
      BY <2>1, <3>1
    <3>3. i - over \in 1 .. n + 1 - over /\ over + (i - over) = i
      BY <2>2, <2>3, <3>2
    <3> QED BY <2>4, <3>1, <3>3
  <2>10. ASSUME NEW j \in DOMAIN order' PROVE \E e \in lru' : e.key = order'[j]
    <3>1. over + j \in 1 .. n + 1 /\ over + j \notin 1 .. over /\ order'[j] = all[over + j]
      BY <2>2, <2>3, <2>4
    <3>2. PICK e \in lru \cup {b} : e.key = all[over + j]
      BY <2>7, <3>1
    <3>3. \A i \in 1 .. over : all[i] # e.key
      <4> SUFFICES ASSUME NEW i \in 1 .. over, all[i] = e.key PROVE FALSE
        OBVIOUS
      <4>1. i \in 1 .. n + 1
        BY <2>2, <2>3
      <4>2. i = over + j
        BY <2>6, <3>1, <3>2, <4>1
      <4> QED BY <3>1, <4>2
    <3> QED BY <2>1, <3>1, <3>2, <3>3
  <2>11. ASSUME NEW i \in DOMAIN order', NEW j \in DOMAIN order', order'[i] = order'[j]
         PROVE  i = j
    <3>1. over + i \in 1 .. n + 1 /\ over + j \in 1 .. n + 1 /\ all[over + i] = all[over + j]
      BY <2>2, <2>3, <2>4, <2>11
    <3>2. over + i = over + j
      BY <2>6, <3>1
    <3> QED BY <2>2, <2>3, <2>4, <3>2
  <2>12. \A a, e \in lru' : a.key = e.key => a = e
    BY <1>1, <1>3, <2>1
  <2>13. Len(order') <= LruSize
    BY <2>3, <2>4
  <2> QED BY <2>9, <2>10, <2>11, <2>12, <2>13 DEF LruWellFormed
<1> QED BY <1>2, <1>3

LEMMA LruSteps ==
    ASSUME LruInv, [Next]_vars
    PROVE  LruWellFormed'
<1>1. ASSUME UNCHANGED <<lru, order>> PROVE LruWellFormed'
  BY <1>1 DEF LruInv, LruWellFormed
<1>2. ASSUME NEW c \in Clients, Compile(c) PROVE LruWellFormed'
  <2>1. CASE LruGet(c)
    <3>1. CASE Lookup(lru, Key(c)) # {}
      <4>1. Key(c) \in Keys
        BY <2>1 DEF LruGet, LruInv, CompilerTypeOK, Key, Bundle, InFlight, Reading
      <4>2. order' = Touch(order, Key(c)) /\ lru' = lru
        BY <2>1, <3>1 DEF LruGet
      <4>3. \A a, b \in lru : a.key = b.key => a = b
        BY DEF LruInv, LruWellFormed
      <4> QED BY <4>1, <4>2, <4>3, TouchedWellFormed
    <3>2. CASE Lookup(lru, Key(c)) = {}
      BY <1>1, <2>1, <3>2 DEF LruGet
    <3> QED BY <3>1, <3>2
  <2>2. CASE Remember(c)
    <3>1. held[c] \in Bundle(DriftTables) /\ Key(c) = held[c].key /\ LruPut(Key(c), held[c])
      BY <2>2 DEF Remember, LruInv, CompilerTypeOK, Key
    <3>2. Key(c) \in Keys
      BY <3>1 DEF Bundle
    <3> QED BY <3>1, <3>2, PutWellFormed
  <2>3. CASE ~LruGet(c) /\ ~Remember(c)
    BY <1>1, <1>2, <2>3
       DEF Compile, GetIndexFingerprint, GetBundleByKey, SearchFTS, HydrateRest,
           AttachDrift, PutBundle, CompileFails, cacheVars
  <2> QED BY <2>1, <2>2, <2>3
<1>3. CASE InvalidateMemory \/ Restart
  <2>1. lru' = {} /\ order' = <<>>
    BY <1>3 DEF InvalidateMemory, Restart
  <2>2. Len(<<>>) <= LruSize /\ DOMAIN order' = {}
    BY <2>1, BoundsAssumption
  <2> QED BY <2>1, <2>2 DEF LruWellFormed
<1>4. CASE SyncRun /\ ~InvalidateMemory
  BY <1>1, <1>4
     DEF SyncRun, StartRun, UpsertDocument, DeleteDocument, SetIndexFingerprint,
         PruneBundles, DriftUnchanged, ReplaceDrift, DeleteAllBundles, RunFails,
         InvalidateFails, cacheVars
<1>5. CASE UNCHANGED vars
  BY <1>1, <1>5 DEF vars
<1> QED BY <1>2, <1>3, <1>4, <1>5 DEF Next

(* The map and the order list of the LRU always name the same keys, each   *)
(* once, and never more than LruSize of them.                              *)
THEOREM LruCorrect == Spec => []LruWellFormed
<1>1. Init => LruInv
  <2> SUFFICES ASSUME Init PROVE LruWellFormed
    BY InitTypes DEF LruInv
  <2>1. lru = {} /\ order = <<>> /\ DOMAIN order = {} /\ Len(order) <= LruSize
    BY BoundsAssumption DEF Init
  <2> QED BY <2>1 DEF LruWellFormed
<1>2. LruInv /\ [Next]_vars => LruInv'
  <2> SUFFICES ASSUME LruInv, [Next]_vars PROVE LruInv'
    OBVIOUS
  <2>1. CompilerTypeOK'
    <3>1. CASE UNCHANGED vars
      BY <3>1 DEF vars, LruInv, CompilerTypeOK
    <3> QED BY <3>1, RequestTypes, SyncTypes DEF Next, LruInv
  <2> QED BY <2>1, LruSteps DEF LruInv
<1>3. LruInv => LruWellFormed
  BY DEF LruInv
<1> QED BY <1>1, <1>2, <1>3, PTL DEF Spec
=============================================================================
