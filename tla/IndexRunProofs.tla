----------------------------- MODULE IndexRunProofs -----------------------------
(***************************************************************************)
(* What the tables hold and what is published, for any number of documents,*)
(* revisions and faults, whichever files parse and whatever they link to.  *)
(***************************************************************************)
EXTENDS IndexRun, CollectionsProofs, TLAPS

(* The next document in path order is one of the documents.                *)
LEMMA FirstIsAMember ==
    ASSUME NEW S \in SUBSET Docs, S # {}
    PROVE  First(S) \in S
<1>1. S \in SUBSET Nat
  BY SizeAssumption DEF Docs
<1>2. \E d \in S : \A e \in S : d <= e
  BY <1>1, LeastElement
<1> QED BY <1>2 DEF First

-----------------------------------------------------------------------------
(* The inductive invariant.  It has to say what the tables hold while a run*)
(* is half way, and what a run that stopped there leaves behind.           *)

AfterLinks == {"vectors", "embed", "publish", "record", "reload"}

(* What is stored is never newer than the checkout.                        *)
RowsNotNewer == \A d \in Stored : rows[d] <= tree[d]

(* The files a run is done with are stored as they are in the checkout.    *)
DoneWith(S) == \A d \in S : rows[d] = tree[d] /\ d \notin old

Loading ==
    /\ runPc = "idle" => indexed = {}
    /\ runPc = "load" => /\ todo \subseteq Files
                         /\ indexed \subseteq Files
                         /\ DoneWith(Files \ todo)
    /\ runPc = "unlink" => /\ todo \cap Stored = {}
                           /\ indexed \subseteq Files
                           /\ DoneWith(Files)

(* Once loaded, the tables are the checkout; then it is published.         *)
WholeCheckout ==
    /\ runPc \in {"links"} \cup AfterLinks => rows = Snapshot(tree) /\ old = {}
    /\ runPc = "record" => pub = rows

(* A document's link rows are those of the revision stored, unless an older*)
(* version stored it.                                                      *)
LinksOfRows == \A d \in Stored \ old : links[d] = LinksTo[d][rows[d]]

LinksResolved ==
    runPc \in AfterLinks /\ (indexed # {} \/ deleted) =>
        \A d \in Stored : resolved[d] = links[d] \cap Stored

IndexInv ==
    /\ IndexTypeOK
    /\ RowsNotNewer
    /\ Loading
    /\ WholeCheckout
    /\ LinksOfRows
    /\ LinksResolved

(* The flags of a run.                                                     *)
LEMMA Flags ==
    ASSUME IndexTypeOK, [Next]_vars
    PROVE  /\ booted' \in BOOLEAN /\ force' \in BOOLEAN
           /\ deleted' \in BOOLEAN /\ embedded' \in BOOLEAN
<1>0. booted \in BOOLEAN /\ force \in BOOLEAN /\ deleted \in BOOLEAN /\ embedded \in BOOLEAN
  BY Zenon DEF IndexTypeOK
<1>1. CASE StartRun
  BY <1>0, <1>1, Zenon DEF StartRun
<1>2. CASE RunStep
  <2>1. CASE ParseFails
    BY <1>0, <2>1, Zenon DEF ParseFails, Abort, ForgetLocals
  <2>2. CASE LoadUnchanged \/ UpsertDocument \/ DeleteRow \/ DeleteLinks
    BY <1>0, <2>2, Zenon DEF LoadUnchanged, UpsertDocument, DeleteRow, DeleteLinks
  <2>3. CASE ResolveAges \/ ResolveLinks \/ PruneVectors \/ NoneToEmbed
    BY <1>0, <2>3, Zenon DEF ResolveAges, ResolveLinks, PruneVectors, NoneToEmbed, locals
  <2>4. CASE PutVectors
    BY <1>0, <2>4, Zenon DEF PutVectors
  <2>5. CASE SetIndexFingerprint \/ SetSyncState \/ Reload
    BY <1>0, <2>5, Zenon DEF SetIndexFingerprint, SetSyncState, Reload, locals, ForgetLocals
  <2>6. QED
    BY <1>2, <2>1, <2>2, <2>3, <2>4, <2>5 DEF RunStep
<1>3. CASE RunFails
  BY <1>0, <1>3, Zenon DEF RunFails, Abort, ForgetLocals
<1>4. CASE Crash
  BY <1>0, <1>4, Zenon DEF Crash, ForgetLocals
<1>5. CASE UNCHANGED vars
  BY <1>0, <1>5, Zenon DEF vars, locals
<1>6. QED
  BY <1>1, <1>2, <1>3, <1>4, <1>5 DEF Next

(* Reloading the index in memory from well typed vectors.                  *)
LEMMA LoadedType ==
    ASSUME NEW v \in Columns
    PROVE  Loaded(v) \in Columns
<1> QED
  BY DEF Loaded, Columns

-----------------------------------------------------------------------------
LEMMA InitIndex == Init => IndexInv
<1> SUFFICES ASSUME Init PROVE IndexInv
  OBVIOUS
<1> USE SizeAssumption, FilesAssumption, NoRowAssumption
<1>1. 0 \in Revs /\ tree = [d \in Docs |-> 0]
  BY DEF Init, Revs
<1>2. Empty \in Columns /\ Snapshot(tree) \in Columns /\ tree \in Columns
  BY <1>1 DEF Empty, Snapshot, Columns
<1>3. \A d \in Docs : tree[d] # NoRow
  BY <1>1
<1>4. \/ rows = Empty /\ old = {} /\ Stored = {}
      \/ rows = Snapshot(tree) /\ old = Files /\ Stored = Files
  BY <1>3 DEF Init, Empty, Stored, Snapshot, Files
<1>5. IndexTypeOK
  <2>1. booted \in BOOLEAN /\ force \in BOOLEAN /\ deleted \in BOOLEAN /\ embedded \in BOOLEAN
    BY Zenon DEF Init
  <2>2. \A d \in Docs : age[d] = NoRow /\ links[d] = {} /\ resolved[d] = {}
    BY DEF Init, Empty
  <2>3. {rows, pub, synced} \subseteq Columns /\ {age, vec, mem} \subseteq Columns
    BY <1>2 DEF Init
  <2>4. faults \in 0 .. MaxFaults
    BY DEF Init
  <2>5. {links, resolved} \subseteq [Docs -> SUBSET Docs] /\ tree \in [Docs -> Revs]
    BY <1>1 DEF Init
  <2>6. old \subseteq Stored
    BY <1>4
  <2>7. QED
    BY <2>1, <2>2, <2>3, <2>4, <2>5, <2>6 DEF Init, IndexTypeOK
<1>6. RowsNotNewer
  <2>1. \A d \in Stored : rows[d] = 0
    BY <1>1, <1>4 DEF Snapshot, Files, Stored
  <2>2. QED
    BY <1>1, <2>1 DEF RowsNotNewer, Stored
<1>7. Loading /\ WholeCheckout /\ LinksResolved
  BY DEF Init, Loading, WholeCheckout, LinksResolved, AfterLinks
<1>8. LinksOfRows
  BY <1>4 DEF LinksOfRows
<1>9. QED
  BY <1>5, <1>6, <1>7, <1>8 DEF IndexInv

LEMMA StartRunStep ==
    ASSUME IndexInv, StartRun PROVE IndexInv'
<1> USE SizeAssumption, FilesAssumption, NoRowAssumption
<1>1. IndexTypeOK /\ RowsNotNewer /\ LinksOfRows /\ indexed = {}
  BY DEF IndexInv, Loading, StartRun
<1>2. tree' \in [Docs -> Revs] /\ \A d \in Docs : tree'[d] >= tree[d]
  BY DEF StartRun
<1>3. UNCHANGED <<tables, mem, faults, indexed>> /\ runPc' = "load" /\ todo' = Files'
  BY DEF StartRun, Files
<1>4. Stored' = Stored
  BY <1>3 DEF Stored, tables
<1>5. IndexTypeOK'
  <2>1. booted' \in BOOLEAN /\ force' \in BOOLEAN /\ deleted' \in BOOLEAN /\ embedded' \in BOOLEAN
    BY <1>1, Flags DEF Next
  <2>2. todo' \subseteq Docs
    BY <1>3 DEF Files
  <2>3. QED
    BY <1>1, <1>2, <1>3, <1>4, <2>1, <2>2 DEF IndexTypeOK, tables
<1>6. RowsNotNewer'
  <2> SUFFICES ASSUME NEW d \in Stored PROVE rows[d] <= tree'[d]
    BY <1>3, <1>4 DEF RowsNotNewer, tables
  <2>1. d \in Docs /\ rows[d] \in Revs /\ tree[d] \in Revs /\ tree'[d] \in Revs
    BY <1>1, <1>2 DEF Stored, IndexTypeOK, Columns
  <2>2. QED
    BY <1>1, <1>2, <2>1 DEF RowsNotNewer, Revs
<1>7. Loading' /\ WholeCheckout' /\ LinksResolved'
  BY <1>1, <1>3 DEF Loading, DoneWith, WholeCheckout, LinksResolved, AfterLinks
<1>8. LinksOfRows'
  BY <1>1, <1>3, <1>4 DEF LinksOfRows, tables
<1>9. QED
  BY <1>5, <1>6, <1>7, <1>8 DEF IndexInv

(* A file that is skipped is stored as it is.                              *)
LEMMA LoadUnchangedStep ==
    ASSUME IndexInv, LoadUnchanged PROVE IndexInv'
<1>1. IndexTypeOK /\ RowsNotNewer /\ LinksOfRows /\ Loading
  BY DEF IndexInv
<1>2. PICK d \in todo : /\ rows[d] = tree[d] /\ d \notin old
                        /\ todo' = todo \ {d}
  BY <1>1, FirstIsAMember DEF LoadUnchanged, IndexTypeOK
<1>3. UNCHANGED <<tables, tree, mem, booted, runPc, force, indexed, deleted, embedded, faults>>
      /\ runPc = "load"
  BY DEF LoadUnchanged
<1>4. Stored' = Stored /\ Files' = Files
  BY <1>3 DEF Stored, Files, tables
<1>5. IndexTypeOK'
  BY <1>1, <1>2, <1>3, <1>4 DEF IndexTypeOK, tables
<1>6. Loading'
  BY <1>1, <1>2, <1>3, <1>4 DEF Loading, DoneWith, tables
<1>7. RowsNotNewer' /\ LinksOfRows'
  BY <1>1, <1>3, <1>4 DEF RowsNotNewer, LinksOfRows, tables
<1>8. WholeCheckout' /\ LinksResolved'
  BY <1>3 DEF WholeCheckout, LinksResolved, AfterLinks
<1>9. QED
  BY <1>5, <1>6, <1>7, <1>8 DEF IndexInv

(* A document that is stored holds its file, and its links are its own.    *)
LEMMA UpsertStep ==
    ASSUME IndexInv, UpsertDocument PROVE IndexInv'
<1> USE SizeAssumption, FilesAssumption, NoRowAssumption
<1>1. IndexTypeOK /\ RowsNotNewer /\ LinksOfRows /\ Loading
  BY DEF IndexInv
<1>2. PICK d \in todo : /\ rows' = [rows EXCEPT ![d] = tree[d]]
                        /\ links' = [links EXCEPT ![d] = LinksTo[d][tree[d]]]
                        /\ resolved' = [resolved EXCEPT ![d] = {}]
                        /\ old' = old \ {d}
                        /\ indexed' = indexed \cup {d}
                        /\ todo' = todo \ {d}
  BY <1>1, FirstIsAMember DEF UpsertDocument, IndexTypeOK
<1>3. UNCHANGED <<age, vec, pub, synced, tree, mem, booted, runPc, force, deleted, embedded, faults>>
      /\ runPc = "load"
  BY DEF UpsertDocument
<1>4. d \in Docs /\ d \in Files /\ tree[d] \in Revs /\ tree[d] # NoRow
  BY <1>1, <1>3 DEF Loading, IndexTypeOK
<1>5. rows \in Columns /\ rows' \in Columns
  BY <1>1, <1>2, <1>4 DEF IndexTypeOK, Columns
<1>6. /\ rows'[d] = tree[d]
      /\ \A e \in Docs : e # d => rows'[e] = rows[e]
  BY <1>2, <1>4, <1>5 DEF Columns
<1>7. Stored' = Stored \cup {d} /\ Files' = Files
  BY <1>3, <1>4, <1>6 DEF Stored, Files
<1>8. IndexTypeOK'
  <2>1. \A e \in Docs : age[e] # NoRow => e \in Stored' /\ age[e] <= rows'[e]
    <3> SUFFICES ASSUME NEW e \in Docs, age[e] # NoRow
                 PROVE  e \in Stored' /\ age[e] <= rows'[e]
      OBVIOUS
    <3>1. e \in Stored /\ age[e] <= rows[e]
      BY <1>1 DEF IndexTypeOK
    <3>2. CASE e # d
      BY <1>6, <1>7, <3>1, <3>2
    <3>3. CASE e = d
      <4>1. age[d] \in Revs /\ rows[d] \in Revs /\ rows[d] <= tree[d]
        BY <1>1, <3>1, <3>3 DEF IndexTypeOK, Columns, RowsNotNewer, Stored
      <4>2. QED
        BY <1>4, <1>6, <1>7, <3>1, <3>3, <4>1 DEF Revs
    <3>4. QED
      BY <3>2, <3>3
  <2>2. LinksTo[d][tree[d]] \in SUBSET Docs
    BY <1>4
  <2>3. {links', resolved'} \subseteq [Docs -> SUBSET Docs]
    BY <1>1, <1>2, <2>2 DEF IndexTypeOK
  <2>4. \A e \in Docs : resolved'[e] \subseteq links'[e]
    <3> SUFFICES ASSUME NEW e \in Docs PROVE resolved'[e] \subseteq links'[e]
      OBVIOUS
    <3>1. resolved[e] \subseteq links[e]
      BY <1>1 DEF IndexTypeOK
    <3>2. resolved'[e] = {} \/ (resolved'[e] = resolved[e] /\ links'[e] = links[e])
      BY <1>1, <1>2, <3>1 DEF IndexTypeOK
    <3>3. QED
      BY <3>1, <3>2
  <2>5. QED
    BY <1>1, <1>2, <1>3, <1>4, <1>5, <1>7, <2>1, <2>3, <2>4 DEF IndexTypeOK
<1>9. RowsNotNewer'
  <2> SUFFICES ASSUME NEW e \in Stored' PROVE rows'[e] <= tree[e]
    BY <1>3 DEF RowsNotNewer
  <2>1. CASE e = d
    BY <1>4, <1>6, <2>1 DEF Revs
  <2>2. CASE e # d
    BY <1>1, <1>6, <1>7, <2>2 DEF RowsNotNewer, Stored
  <2> QED BY <2>1, <2>2
<1>10. Loading'
  BY <1>1, <1>2, <1>3, <1>4, <1>6, <1>7 DEF Loading, DoneWith, Files
<1>11. LinksOfRows'
  <2> SUFFICES ASSUME NEW e \in Stored' \ old' PROVE links'[e] = LinksTo[e][rows'[e]]
    BY DEF LinksOfRows
  <2>1. CASE e = d
    BY <1>1, <1>2, <1>4, <1>6, <2>1 DEF IndexTypeOK
  <2>2. CASE e # d
    BY <1>1, <1>2, <1>6, <1>7, <2>2 DEF IndexTypeOK, LinksOfRows, Stored
  <2>3. QED
    BY <2>1, <2>2
<1>12. WholeCheckout' /\ LinksResolved'
  BY <1>3 DEF WholeCheckout, LinksResolved, AfterLinks
<1>13. QED
  BY <1>8, <1>9, <1>10, <1>11, <1>12 DEF IndexInv

(* A row that is deleted has no file, and takes its age with it.           *)
LEMMA DeleteRowStep ==
    ASSUME IndexInv, DeleteRow PROVE IndexInv'
<1> USE SizeAssumption, FilesAssumption, NoRowAssumption
<1>1. IndexTypeOK /\ RowsNotNewer /\ LinksOfRows /\ Loading
  BY DEF IndexInv
<1>2. Stale \in SUBSET Docs /\ Stale # {}
  BY DEF DeleteRow, Stale, Stored
<1>3. PICK d \in Stale : /\ rows' = [rows EXCEPT ![d] = NoRow]
                         /\ age' = [age EXCEPT ![d] = NoRow]
                         /\ old' = old \ {d}
                         /\ todo' = {d}
  BY <1>2, FirstIsAMember DEF DeleteRow
<1>4. UNCHANGED <<links, resolved, vec, pub, synced, tree, mem, booted, force, indexed, deleted,
                  embedded, faults>>
      /\ runPc = "load" /\ runPc' = "unlink" /\ todo = {}
  BY DEF DeleteRow
<1>5. d \in Docs /\ d \notin Files
  BY <1>2 DEF Stale
<1>6. rows \in Columns /\ rows' \in Columns /\ age \in Columns /\ age' \in Columns
  BY <1>1, <1>3 DEF IndexTypeOK, Columns
<1>7. /\ rows'[d] = NoRow /\ age'[d] = NoRow
      /\ \A e \in Docs : e # d => rows'[e] = rows[e] /\ age'[e] = age[e]
  BY <1>3, <1>5, <1>6 DEF Columns
<1>8. Stored' = Stored \ {d} /\ Files' = Files
  BY <1>4, <1>5, <1>7 DEF Stored, Files
<1>9. IndexTypeOK'
  <2>1. \A e \in Docs : age'[e] # NoRow => e \in Stored' /\ age'[e] <= rows'[e]
    BY <1>1, <1>7, <1>8 DEF IndexTypeOK
  <2>2. QED
    BY <1>1, <1>3, <1>4, <1>5, <1>6, <1>8, <2>1 DEF IndexTypeOK
<1>10. RowsNotNewer'
  BY <1>1, <1>4, <1>7, <1>8 DEF RowsNotNewer, Stored
<1>11. Loading'
  BY <1>1, <1>3, <1>4, <1>5, <1>7, <1>8 DEF Loading, DoneWith, Files
<1>12. LinksOfRows'
  BY <1>1, <1>3, <1>4, <1>7, <1>8 DEF LinksOfRows, Stored
<1>13. WholeCheckout' /\ LinksResolved'
  BY <1>4 DEF WholeCheckout, LinksResolved, AfterLinks
<1>14. QED
  BY <1>9, <1>10, <1>11, <1>12, <1>13 DEF IndexInv

(* The links that go belong to no stored document.                         *)
LEMMA DeleteLinksStep ==
    ASSUME IndexInv, DeleteLinks PROVE IndexInv'
<1>1. IndexTypeOK /\ RowsNotNewer /\ LinksOfRows /\ Loading
  BY DEF IndexInv
<1>2. UNCHANGED <<rows, old, age, vec, pub, synced, tree, mem, booted, force, indexed, embedded, faults>>
      /\ runPc = "unlink" /\ runPc' = "load" /\ todo' = {} /\ deleted' = TRUE
  BY DEF DeleteLinks
<1>3. links' = [d \in Docs |-> IF d \in todo THEN {} ELSE links[d]]
      /\ resolved' = [d \in Docs |-> IF d \in todo THEN {} ELSE resolved[d]]
  BY DEF DeleteLinks
<1>4. Stored' = Stored /\ Files' = Files
  BY <1>2 DEF Stored, Files
<1>5. IndexTypeOK'
  <2>1. {links', resolved'} \subseteq [Docs -> SUBSET Docs]
    BY <1>1, <1>3 DEF IndexTypeOK
  <2>2. \A d \in Docs : resolved'[d] \subseteq links'[d]
    BY <1>1, <1>3 DEF IndexTypeOK
  <2>3. QED
    BY <1>1, <1>2, <1>4, <2>1, <2>2 DEF IndexTypeOK
<1>6. Loading'
  BY <1>1, <1>2, <1>4 DEF Loading, DoneWith
<1>7. RowsNotNewer'
  BY <1>1, <1>2, <1>4 DEF RowsNotNewer
<1>8. LinksOfRows'
  <2>1. \A d \in Stored : d \in Docs /\ d \notin todo
    BY <1>1, <1>2 DEF Loading, Stored
  <2>2. QED
    BY <1>1, <1>2, <1>3, <1>4, <2>1 DEF LinksOfRows
<1>9. WholeCheckout' /\ LinksResolved'
  BY <1>2 DEF WholeCheckout, LinksResolved, AfterLinks
<1>10. QED
  BY <1>5, <1>6, <1>7, <1>8, <1>9 DEF IndexInv

(* With nothing left to load or to delete, the tables are the checkout.    *)
LEMMA ResolveAgesStep ==
    ASSUME IndexInv, ResolveAges PROVE IndexInv'
<1> USE SizeAssumption, FilesAssumption, NoRowAssumption
<1>1. IndexTypeOK /\ RowsNotNewer /\ LinksOfRows /\ Loading
  BY DEF IndexInv
<1>2. UNCHANGED <<rows, old, links, resolved, vec, pub, synced, locals, tree, mem, booted, faults>>
      /\ runPc = "load" /\ runPc' = "links" /\ todo = {} /\ Stale = {}
  BY DEF ResolveAges
<1>3. Stored' = Stored
  BY <1>2 DEF Stored
<1>4. rows \in Columns /\ tree \in [Docs -> Revs]
  BY <1>1 DEF IndexTypeOK
<1>5. DoneWith(Files) /\ indexed \subseteq Files
  BY <1>1, <1>2 DEF Loading, DoneWith
<1>6. Stored = Files
  BY <1>2, <1>4, <1>5 DEF Stale, Stored, Files, DoneWith
<1>7. rows = Snapshot(tree)
  <2>1. \A d \in Docs : rows[d] = IF <<d, tree[d]>> \in Gone THEN NoRow ELSE tree[d]
    BY <1>5, <1>6 DEF Stored, Files, DoneWith
  <2>2. QED
    BY <1>4, <2>1 DEF Snapshot, Columns
<1>8. old = {}
  BY <1>1, <1>5, <1>6 DEF IndexTypeOK, DoneWith
<1>9. IndexTypeOK'
  <2>1. age' = [d \in Docs |-> IF d \in indexed \/ (d \in Stored /\ age[d] = NoRow)
                              THEN tree[d] ELSE age[d]]
    BY DEF ResolveAges
  <2>2. age' \in Columns
    BY <1>1, <1>4, <2>1 DEF IndexTypeOK, Columns
  <2>3. \A d \in Docs : age'[d] # NoRow => d \in Stored' /\ age'[d] <= rows'[d]
    <3> SUFFICES ASSUME NEW d \in Docs, age'[d] # NoRow
                 PROVE  d \in Stored /\ age'[d] <= rows[d]
      BY <1>2, <1>3
    <3>1. CASE d \in indexed \/ (d \in Stored /\ age[d] = NoRow)
      <4>1. d \in Stored /\ age'[d] = rows[d] /\ rows[d] \in Revs
        BY <1>4, <1>5, <1>6, <2>1, <3>1 DEF DoneWith
      <4>2. QED
        BY <4>1 DEF Revs
    <3>2. CASE ~(d \in indexed \/ (d \in Stored /\ age[d] = NoRow))
      BY <1>1, <2>1, <3>2 DEF IndexTypeOK
    <3>3. QED
      BY <3>1, <3>2
  <2>4. QED
    BY <1>1, <1>2, <1>3, <2>2, <2>3 DEF IndexTypeOK, locals
<1>10. RowsNotNewer' /\ LinksOfRows'
  BY <1>1, <1>2, <1>3 DEF RowsNotNewer, LinksOfRows
<1>11. WholeCheckout'
  BY <1>2, <1>7, <1>8 DEF WholeCheckout, Snapshot
<1>12. Loading' /\ LinksResolved'
  BY <1>2 DEF Loading, LinksResolved, AfterLinks
<1>13. QED
  BY <1>9, <1>10, <1>11, <1>12 DEF IndexInv

LEMMA ResolveLinksStep ==
    ASSUME IndexInv, ResolveLinks PROVE IndexInv'
<1>1. IndexTypeOK /\ RowsNotNewer /\ LinksOfRows /\ WholeCheckout
  BY DEF IndexInv
<1>2. UNCHANGED <<rows, old, age, links, vec, pub, synced, locals, tree, mem, booted, faults>>
      /\ runPc = "links" /\ runPc' \in {"vectors", "publish"}
  BY DEF ResolveLinks
<1>3. resolved' = IF indexed # {} \/ deleted
                  THEN [d \in Docs |-> links[d] \cap Stored]
                  ELSE resolved
  BY DEF ResolveLinks
<1>4. Stored' = Stored
  BY <1>2 DEF Stored
<1>5. IndexTypeOK'
  <2>1. {links', resolved'} \subseteq [Docs -> SUBSET Docs]
    BY <1>1, <1>2, <1>3 DEF IndexTypeOK
  <2>2. \A d \in Docs : resolved'[d] \subseteq links'[d]
    BY <1>1, <1>2, <1>3 DEF IndexTypeOK
  <2>3. QED
    BY <1>1, <1>2, <1>4, <2>1, <2>2 DEF IndexTypeOK, locals
<1>6. RowsNotNewer' /\ LinksOfRows'
  BY <1>1, <1>2, <1>4 DEF RowsNotNewer, LinksOfRows
<1>7. WholeCheckout'
  BY <1>1, <1>2 DEF WholeCheckout, AfterLinks, Snapshot
<1>8. LinksResolved'
  BY <1>2, <1>3, <1>4 DEF LinksResolved, locals, Stored
<1>9. Loading'
  BY <1>2 DEF Loading
<1>10. QED
  BY <1>5, <1>6, <1>7, <1>8, <1>9 DEF IndexInv

(* Embedding and publishing leave documents and links alone.               *)
LEMMA VectorSteps ==
    ASSUME IndexInv, PruneVectors \/ PutVectors \/ NoneToEmbed PROVE IndexInv'
<1>1. IndexTypeOK /\ RowsNotNewer /\ LinksOfRows /\ WholeCheckout /\ LinksResolved
  BY DEF IndexInv
<1>2. UNCHANGED <<rows, old, age, links, resolved, pub, synced, tree, booted, todo, indexed, deleted, faults>>
  BY DEF PruneVectors, PutVectors, NoneToEmbed, tables, locals
<1>3. runPc \in {"vectors", "embed"} /\ runPc' \in {"embed", "publish"}
  BY DEF PruneVectors, PutVectors, NoneToEmbed
<1>4. Stored' = Stored
  BY <1>2 DEF Stored
<1>5. vec' \in Columns /\ mem' \in Columns
  <2>1. CASE PruneVectors
    BY <1>1, <2>1 DEF PruneVectors, IndexTypeOK, Columns
  <2>2. CASE PutVectors
    <3>1. vec' \in Columns
      BY <1>1, <2>2 DEF PutVectors, IndexTypeOK, Columns
    <3>2. mem' \in {mem, Loaded(vec')}
      BY <2>2 DEF PutVectors
    <3>3. QED
      BY <1>1, <3>1, <3>2, LoadedType DEF IndexTypeOK
  <2>3. CASE NoneToEmbed
    BY <1>1, <2>3 DEF NoneToEmbed, IndexTypeOK, tables
  <2>4. QED
    BY <2>1, <2>2, <2>3
<1>6. IndexTypeOK'
  <2>1. booted' \in BOOLEAN /\ force' \in BOOLEAN /\ deleted' \in BOOLEAN /\ embedded' \in BOOLEAN
    BY <1>1, Flags DEF Next, RunStep
  <2>2. QED
    BY <1>1, <1>2, <1>3, <1>4, <1>5, <2>1 DEF IndexTypeOK
<1>7. RowsNotNewer' /\ LinksOfRows'
  BY <1>1, <1>2, <1>4 DEF RowsNotNewer, LinksOfRows
<1>8. WholeCheckout' /\ LinksResolved' /\ Loading'
  BY <1>1, <1>2, <1>3, <1>4 DEF WholeCheckout, LinksResolved, AfterLinks, Loading, Snapshot
<1>9. QED
  BY <1>6, <1>7, <1>8 DEF IndexInv

LEMMA PublishSteps ==
    ASSUME IndexInv, SetIndexFingerprint \/ SetSyncState PROVE IndexInv'
<1>1. IndexTypeOK /\ RowsNotNewer /\ LinksOfRows /\ WholeCheckout /\ LinksResolved
  BY DEF IndexInv
<1>2. UNCHANGED <<rows, old, age, links, resolved, vec, locals, tree, mem, booted, faults>>
  BY DEF SetIndexFingerprint, SetSyncState
<1>3. runPc \in {"publish", "record"} /\ runPc' \in {"record", "reload"}
      /\ (runPc' = "record" => pub' = rows)
  BY DEF SetIndexFingerprint, SetSyncState
<1>4. Stored' = Stored
  BY <1>2 DEF Stored
<1>5. IndexTypeOK'
  <2>1. tree \in Columns
    BY <1>1 DEF IndexTypeOK, Columns
  <2>2. pub' \in Columns /\ synced' \in Columns
    BY <1>1, <2>1 DEF SetIndexFingerprint, SetSyncState, IndexTypeOK
  <2>3. QED
    BY <1>1, <1>2, <1>3, <1>4, <2>2 DEF IndexTypeOK, locals
<1>6. RowsNotNewer' /\ LinksOfRows'
  BY <1>1, <1>2, <1>4 DEF RowsNotNewer, LinksOfRows
<1>7. WholeCheckout' /\ LinksResolved' /\ Loading'
  BY <1>1, <1>2, <1>3, <1>4 DEF WholeCheckout, LinksResolved, AfterLinks, Loading, Snapshot, locals
<1>8. QED
  BY <1>5, <1>6, <1>7 DEF IndexInv

(* However a run ends, what it wrote stays as it stands.                   *)
LEMMA EndSteps ==
    ASSUME IndexInv, Reload \/ ParseFails \/ RunFails \/ Crash PROVE IndexInv'
<1> USE SizeAssumption
<1>1. IndexTypeOK /\ RowsNotNewer /\ LinksOfRows
  BY DEF IndexInv
<1>2. UNCHANGED <<tables, tree>> /\ runPc' = "idle" /\ todo' = {} /\ indexed' = {}
  BY DEF Reload, ParseFails, RunFails, Crash, Abort, ForgetLocals
<1>3. Stored' = Stored
  BY <1>2 DEF Stored, tables
<1>4. vec \in Columns /\ Loaded(vec) \in Columns /\ mem \in Columns
  BY <1>1, LoadedType DEF IndexTypeOK
<1>5. mem' \in Columns
  BY <1>4 DEF Reload, ParseFails, RunFails, Crash, Abort
<1>6. faults' \in 0 .. MaxFaults
  BY <1>1 DEF Reload, ParseFails, RunFails, Crash, IndexTypeOK
<1>7. IndexTypeOK'
  <2>1. booted' \in BOOLEAN /\ force' \in BOOLEAN /\ deleted' \in BOOLEAN /\ embedded' \in BOOLEAN
    BY <1>1, Flags DEF Next, RunStep
  <2>2. QED
    BY <1>1, <1>2, <1>3, <1>5, <1>6, <2>1 DEF IndexTypeOK, tables
<1>8. RowsNotNewer' /\ LinksOfRows'
  BY <1>1, <1>2, <1>3 DEF RowsNotNewer, LinksOfRows, tables
<1>9. WholeCheckout' /\ LinksResolved' /\ Loading'
  BY <1>2 DEF WholeCheckout, LinksResolved, AfterLinks, Loading
<1>10. QED
  BY <1>7, <1>8, <1>9 DEF IndexInv

LEMMA NextIndex ==
    ASSUME IndexInv, [Next]_vars PROVE IndexInv'
<1>1. CASE StartRun
  BY <1>1, StartRunStep
<1>2. CASE RunStep
  BY <1>2, LoadUnchangedStep, UpsertStep, DeleteRowStep, DeleteLinksStep, ResolveAgesStep,
     ResolveLinksStep, VectorSteps, PublishSteps, EndSteps DEF RunStep
<1>3. CASE RunFails \/ Crash
  BY <1>3, EndSteps
<1>4. CASE UNCHANGED vars
  <2>1. UNCHANGED <<rows, old, age, links, resolved, vec, pub, synced, todo, force, indexed, deleted,
                    embedded, tree, mem, booted, runPc, faults>>
    BY <1>4, Zenon DEF vars, tables, locals
  <2>2. Stored' = Stored /\ Files' = Files /\ Snapshot(tree)' = Snapshot(tree)
    BY <2>1 DEF Stored, Files, Snapshot
  <2>3. IndexTypeOK'
    BY <2>1, <2>2 DEF IndexInv, IndexTypeOK
  <2>4. QED
    BY <2>1, <2>2, <2>3 DEF IndexInv, RowsNotNewer, LinksOfRows, Loading, DoneWith, WholeCheckout,
                            LinksResolved
<1>5. QED
  BY <1>1, <1>2, <1>3, <1>4 DEF Next

LEMMA IndexInvariant == Spec => []IndexInv
  BY InitIndex, NextIndex, PTL DEF Spec

-----------------------------------------------------------------------------
(* Type correctness.  In particular an age is that of a stored document and*)
(* never later than its content, so it cannot hide drift, whatever runs    *)
(* failed half way (indexer.go:124, 203-231).                              *)
THEOREM IndexTypes == Spec => []IndexTypeOK
<1>1. IndexInv => IndexTypeOK
  BY DEF IndexInv
<1>2. QED
  BY <1>1, IndexInvariant, PTL

(* The link table is exact after every run that wrote or deleted anything, *)
(* whatever earlier runs left behind (links.go:69-101).                    *)
THEOREM LinksExact == Spec => []LinksExactAfterChange
<1>1. IndexInv => LinksExactAfterChange
  BY DEF IndexInv, LinksExactAfterChange, LinksResolved, LinksOfRows, WholeCheckout, AfterLinks
<1>2. QED
  BY <1>1, IndexInvariant, PTL

(* Only whole checkouts are published, and a commit is recorded only once  *)
(* its fingerprint is, however runs fail and restart (indexer.go:139-163). *)
THEOREM PublishedWhole == Spec => PublishedIsOneCheckout
<1>1. ASSUME IndexInv, Next
      PROVE  /\ pub' # pub => pub' = Snapshot(tree)
             /\ synced' # synced => pub = Snapshot(synced')
  <2>1. CASE SetIndexFingerprint
    BY <1>1, <2>1 DEF SetIndexFingerprint, IndexInv, WholeCheckout, AfterLinks
  <2>2. CASE SetSyncState
    <3>1. pub = rows /\ rows = Snapshot(tree) /\ synced' = tree /\ pub' = pub
      BY <1>1, <2>2 DEF SetSyncState, IndexInv, WholeCheckout, AfterLinks
    <3>2. QED
      BY <3>1 DEF Snapshot
  <2>3. CASE \/ StartRun \/ RunFails \/ Crash \/ LoadUnchanged \/ UpsertDocument \/ ParseFails
             \/ DeleteRow \/ DeleteLinks \/ ResolveAges \/ ResolveLinks
             \/ PruneVectors \/ PutVectors \/ NoneToEmbed \/ Reload
    <3>1. pub' = pub /\ synced' = synced
      BY <2>3 DEF StartRun, RunFails, Crash, LoadUnchanged, UpsertDocument, ParseFails, DeleteRow,
                  DeleteLinks, ResolveAges, ResolveLinks, PruneVectors, PutVectors, NoneToEmbed,
                  Reload, Abort, tables
    <3>2. QED
      BY <3>1
  <2>4. QED
    BY <1>1, <2>1, <2>2, <2>3 DEF Next, RunStep
<1>2. IndexInv /\ [Next]_vars => [/\ pub' # pub => pub' = Snapshot(tree)
                                  /\ synced' # synced => pub = Snapshot(synced')]_vars
  BY <1>1
<1>3. QED
  BY <1>2, IndexInvariant, PTL DEF Spec, PublishedIsOneCheckout

-----------------------------------------------------------------------------
(* What a run leaves when it completes.  MemoryHolds says where the vectors*)
(* of the present contents are while a run is half way: the memory's are   *)
(* the table's until something changes them, and then the run knows.       *)
Beginning == {"idle", "load", "unlink", "links", "vectors"}
NoneLeft  == \A d \in Docs \ Stored : vec[d] = NoRow

Flagged ==
    /\ runPc = "idle" => ~deleted
    /\ runPc = "load" /\ todo # {} => ~deleted
    /\ runPc \in Beginning => ~embedded
    /\ runPc \in {"vectors", "embed"} => booted

InStep ==
    /\ ~booted => vec = Empty /\ mem = Empty
    /\ runPc \in Beginning \/ (~embedded /\ ~deleted) => mem = vec
    /\ runPc # "unlink" /\ ~deleted => NoneLeft

MemoryHolds ==
    /\ Flagged
    /\ runPc = "embed" => NoneLeft
    /\ runPc \in {"publish", "record", "reload"} /\ booted => vec = rows
    /\ runPc \in {"record", "reload"} => pub = rows
    /\ runPc = "reload" => synced = tree
    /\ faults = 0 => InStep

LEMMA LoadedIs ==
    ASSUME IndexTypeOK
    PROVE  /\ vec = rows => Loaded(vec) = rows
           /\ vec = Empty => Loaded(vec) = Empty
<1>1. rows \in Columns /\ vec \in Columns
  BY DEF IndexTypeOK
<1>2. ASSUME vec = rows PROVE Loaded(vec) = rows
  <2>1. \A d \in Docs : Loaded(vec)[d] = rows[d]
    BY <1>2 DEF Loaded, Stored
  <2>2. Loaded(vec) = [d \in Docs |-> Loaded(vec)[d]] /\ rows = [d \in Docs |-> rows[d]]
    BY <1>1 DEF Loaded, Columns
  <2> QED BY <2>1, <2>2
<1>3. ASSUME vec = Empty PROVE Loaded(vec) = Empty
  BY <1>3 DEF Loaded, Empty
<1> QED BY <1>2, <1>3

LEMMA InitMemory == Init => MemoryHolds
<1> SUFFICES ASSUME Init PROVE MemoryHolds
  OBVIOUS
<1>1. runPc = "idle" /\ vec = Empty /\ mem = Empty
  BY DEF Init
<1>2. ~deleted /\ ~embedded
  BY Zenon DEF Init
<1>3. NoneLeft
  BY <1>1 DEF NoneLeft, Empty
<1> QED BY <1>1, <1>2, <1>3 DEF MemoryHolds, Flagged, InStep, Beginning

LEMMA StartMemory == ASSUME MemoryHolds, StartRun PROVE MemoryHolds'
<1>1. /\ runPc = "idle" /\ runPc' = "load"
      /\ UNCHANGED <<rows, vec, mem, booted, faults, deleted, embedded>>
  BY DEF StartRun, tables
<1>2. ~deleted /\ ~embedded /\ (faults = 0 => InStep)
  BY <1>1 DEF MemoryHolds, Flagged, Beginning
<1>3. Flagged'
  BY <1>1, <1>2 DEF Flagged, Beginning
<1>4. faults = 0 => InStep'
  BY <1>1, <1>2 DEF InStep, NoneLeft, Stored, Beginning
<1> QED BY <1>1, <1>3, <1>4 DEF MemoryHolds

LEMMA LoadMemory ==
    ASSUME IndexInv, MemoryHolds, LoadUnchanged \/ UpsertDocument
    PROVE  MemoryHolds'
<1>1. /\ runPc = "load" /\ runPc' = "load" /\ todo # {}
      /\ UNCHANGED <<vec, mem, booted, faults, deleted, embedded>>
  BY DEF LoadUnchanged, UpsertDocument, tables
<1>2. ~deleted /\ ~embedded /\ (faults = 0 => InStep)
  BY <1>1 DEF MemoryHolds, Flagged, Beginning
<1>3. Flagged'
  BY <1>1, <1>2 DEF Flagged, Beginning
<1>4. Stored \subseteq Stored'
  <2>1. CASE LoadUnchanged
    BY <2>1 DEF LoadUnchanged, tables, Stored
  <2>2. CASE UpsertDocument
    <3> DEFINE d == First(todo)
    <3>1. d \in Docs /\ tree[d] \in Revs /\ rows \in Columns
      BY <1>1, FirstIsAMember DEF IndexInv, IndexTypeOK
    <3>2. rows' = [rows EXCEPT ![d] = tree[d]]
      BY <2>2 DEF UpsertDocument
    <3> HIDE DEF d
    <3>3. \A e \in Docs : rows'[e] = IF e = d THEN tree[d] ELSE rows[e]
      BY <3>1, <3>2 DEF Columns
    <3> QED BY <3>1, <3>3, NoRowAssumption DEF Stored
  <2> QED BY <2>1, <2>2
<1>5. faults = 0 => InStep'
  BY <1>1, <1>2, <1>4 DEF InStep, NoneLeft, Beginning
<1> QED BY <1>1, <1>3, <1>5 DEF MemoryHolds

LEMMA DeleteMemory ==
    ASSUME MemoryHolds, DeleteRow \/ DeleteLinks
    PROVE  MemoryHolds'
<1>1. /\ runPc \in {"load", "unlink"} /\ UNCHANGED <<vec, mem, booted, faults, embedded>>
      /\ runPc' = "unlink" \/ (runPc' = "load" /\ todo' = {} /\ deleted')
  BY DEF DeleteRow, DeleteLinks
<1>2. ~embedded /\ (faults = 0 => InStep)
  BY <1>1 DEF MemoryHolds, Flagged, Beginning
<1>3. Flagged'
  BY <1>1, <1>2 DEF Flagged, Beginning
<1>4. faults = 0 => InStep'
  BY <1>1, <1>2 DEF InStep, Beginning
<1> QED BY <1>1, <1>3, <1>4 DEF MemoryHolds

LEMMA ResolveMemory ==
    ASSUME MemoryHolds, ResolveAges \/ ResolveLinks
    PROVE  MemoryHolds'
<1>1. /\ runPc \in {"load", "links"} /\ runPc' \in {"links", "vectors", "publish"}
      /\ runPc' = "vectors" => booted
      /\ runPc' = "publish" => ~booted
      /\ UNCHANGED <<rows, vec, mem, booted, faults, deleted, embedded>>
  BY DEF ResolveAges, ResolveLinks, locals
<1>2. ~embedded /\ (faults = 0 => InStep)
  BY <1>1 DEF MemoryHolds, Flagged, Beginning
<1>3. Flagged'
  BY <1>1, <1>2 DEF Flagged, Beginning
<1>4. faults = 0 => InStep'
  BY <1>1, <1>2 DEF InStep, NoneLeft, Stored, Beginning
<1> QED BY <1>1, <1>3, <1>4 DEF MemoryHolds

LEMMA PruneMemory == ASSUME IndexInv, MemoryHolds, PruneVectors PROVE MemoryHolds'
<1>1. /\ runPc = "vectors" /\ runPc' = "embed"
      /\ UNCHANGED <<rows, mem, booted, faults, deleted, embedded>>
      /\ vec' = [d \in Docs |-> IF d \in Stored THEN vec[d] ELSE NoRow]
  BY DEF PruneVectors, locals
<1>2. ~embedded /\ booted /\ (faults = 0 => InStep)
  BY <1>1 DEF MemoryHolds, Flagged, Beginning
<1>3. Flagged'
  BY <1>1, <1>2 DEF Flagged, Beginning
<1>4. NoneLeft'
  BY <1>1 DEF NoneLeft, Stored
<1>5. ASSUME faults = 0 PROVE InStep'
  <2>1. vec = mem /\ (~deleted => NoneLeft)
    BY <1>1, <1>2, <1>5 DEF InStep, Beginning
  <2>2. ~deleted => vec' = vec
    <3>1. vec = [d \in Docs |-> vec[d]]
      BY DEF IndexInv, IndexTypeOK, Columns
    <3> QED BY <1>1, <2>1, <3>1 DEF NoneLeft
  <2> QED BY <1>1, <1>2, <1>4, <2>1, <2>2 DEF InStep, Beginning
<1> QED BY <1>1, <1>3, <1>4, <1>5 DEF MemoryHolds

LEMMA EmbedMemory ==
    ASSUME IndexInv, MemoryHolds, PutVectors \/ NoneToEmbed
    PROVE  MemoryHolds'
<1>1. /\ runPc = "embed" /\ runPc' \in {"embed", "publish"}
      /\ UNCHANGED <<rows, booted, faults, deleted>>
  BY DEF PutVectors, NoneToEmbed, tables, locals
<1>2. booted /\ NoneLeft /\ (faults = 0 => InStep)
  BY <1>1 DEF MemoryHolds, Flagged
<1>3. Flagged'
  BY <1>1, <1>2 DEF Flagged, Beginning
<1>4. CASE PutVectors
  <2>1. PICK batch \in SUBSET Pending : vec' = [d \in Docs |-> IF d \in batch THEN rows[d] ELSE vec[d]]
    BY <1>4 DEF PutVectors
  <2>2. runPc' = "embed" /\ embedded'
    BY <1>4 DEF PutVectors
  <2>3. NoneLeft'
    BY <1>1, <1>2, <2>1 DEF NoneLeft, Stored, Pending
  <2>4. InStep'
    BY <1>1, <1>2, <2>2, <2>3 DEF InStep, Beginning
  <2> QED BY <1>3, <2>2, <2>3, <2>4 DEF MemoryHolds
<1>5. CASE NoneToEmbed
  <2>1. Pending = {} /\ runPc' = "publish" /\ UNCHANGED <<vec, mem, embedded>>
    BY <1>5 DEF NoneToEmbed, tables, locals
  <2>2. vec = rows
    <3>1. \A d \in Docs : vec[d] = rows[d]
      BY <1>2, <2>1 DEF NoneLeft, Pending, Stored
    <3>2. vec = [d \in Docs |-> vec[d]] /\ rows = [d \in Docs |-> rows[d]]
      BY DEF IndexInv, IndexTypeOK, Columns
    <3> QED BY <3>1, <3>2
  <2>3. faults = 0 => InStep'
    BY <1>1, <1>2, <2>1 DEF InStep, NoneLeft, Stored, Beginning
  <2> QED BY <1>1, <1>3, <2>1, <2>2, <2>3 DEF MemoryHolds
<1> QED BY <1>4, <1>5

LEMMA PublishMemory ==
    ASSUME MemoryHolds, SetIndexFingerprint \/ SetSyncState
    PROVE  MemoryHolds'
<1>1. /\ runPc \in {"publish", "record"} /\ runPc' \in {"record", "reload"}
      /\ runPc' = "record" => pub' = rows
      /\ runPc' = "reload" => runPc = "record" /\ pub' = pub /\ synced' = tree
      /\ UNCHANGED <<rows, tree, vec, mem, booted, faults, deleted, embedded>>
  BY DEF SetIndexFingerprint, SetSyncState, locals
<1>2. Flagged'
  BY <1>1 DEF Flagged, Beginning
<1>3. faults = 0 => InStep'
  BY <1>1 DEF MemoryHolds, InStep, NoneLeft, Stored, Beginning
<1> QED BY <1>1, <1>2, <1>3 DEF MemoryHolds

(* A completed run reloads the vectors if it changed any.                  *)
LEMMA ReloadedMemory ==
    ASSUME IndexInv, MemoryHolds, Reload, faults = 0
    PROVE  mem' = vec /\ NoneLeft
<1>1. runPc = "reload" /\ mem' = IF embedded \/ deleted THEN Loaded(vec) ELSE mem
  BY DEF Reload
<1>2. InStep /\ IndexTypeOK
  BY DEF MemoryHolds, IndexInv
<1>3. CASE booted
  <2>1. vec = rows
    BY <1>1, <1>3 DEF MemoryHolds
  <2>2. Loaded(vec) = vec
    BY <1>2, <2>1, LoadedIs
  <2>3. mem' = vec
    BY <1>1, <1>2, <2>2, Zenon DEF InStep
  <2> QED BY <2>1, <2>3 DEF NoneLeft, Stored
<1>4. CASE ~booted
  <2>1. vec = Empty /\ mem = Empty
    BY <1>2, <1>4 DEF InStep
  <2>2. Loaded(vec) = vec
    BY <1>2, <2>1, LoadedIs
  <2> QED BY <1>1, <2>1, <2>2, Zenon DEF NoneLeft, Empty
<1> QED BY <1>3, <1>4, Zenon

LEMMA EndMemory ==
    ASSUME IndexInv, MemoryHolds, Reload \/ ParseFails \/ RunFails \/ Crash
    PROVE  MemoryHolds'
<1>1. runPc' = "idle" /\ UNCHANGED <<rows, vec>>
  BY DEF Reload, ParseFails, RunFails, Crash, Abort, tables
<1>2. ~deleted' /\ ~embedded'
  BY Zenon DEF Reload, ParseFails, RunFails, Crash, Abort, ForgetLocals
<1>3. Flagged'
  BY <1>1, <1>2 DEF Flagged
<1>4. ASSUME faults' = 0 PROVE InStep'
  <2>1. CASE Reload
    <3>1. faults = 0 /\ booted'
      BY <1>4, <2>1 DEF Reload
    <3>2. mem' = vec /\ NoneLeft
      BY <2>1, <3>1, ReloadedMemory
    <3> QED BY <1>1, <3>1, <3>2 DEF InStep, NoneLeft, Stored
  <2>2. CASE ParseFails
    <3>1. /\ faults = 0 /\ booted' = booted /\ mem' = mem /\ runPc = "load" /\ todo # {}
      BY <1>4, <2>2 DEF ParseFails, Abort
    <3>2. InStep /\ ~deleted
      BY <3>1 DEF MemoryHolds, Flagged
    <3> QED BY <1>1, <3>1, <3>2 DEF InStep, NoneLeft, Stored, Beginning
  <2>3. CASE RunFails \/ Crash
    <3>1. faults \in Nat /\ faults' = faults + 1
      BY <2>3, SizeAssumption DEF RunFails, Crash, IndexInv, IndexTypeOK
    <3> QED BY <1>4, <3>1
  <2> QED BY <2>1, <2>2, <2>3
<1> QED BY <1>1, <1>3, <1>4 DEF MemoryHolds

LEMMA NextMemory ==
    ASSUME IndexInv, MemoryHolds, [Next]_vars PROVE MemoryHolds'
<1>1. CASE StartRun
  BY <1>1, StartMemory
<1>2. CASE RunStep
  BY <1>2, LoadMemory, DeleteMemory, ResolveMemory, PruneMemory, EmbedMemory, PublishMemory,
     EndMemory DEF RunStep
<1>3. CASE RunFails \/ Crash
  BY <1>3, EndMemory
<1>4. CASE UNCHANGED vars
  <2>1. UNCHANGED <<rows, vec, pub, synced, todo, deleted, embedded, tree, mem, booted, runPc, faults>>
    BY <1>4, Zenon DEF vars, tables, locals
  <2> QED BY <2>1 DEF MemoryHolds, Flagged, InStep, NoneLeft, Stored
<1> QED BY <1>1, <1>2, <1>3, <1>4 DEF Next

LEMMA MemoryInvariant == Spec => [](IndexInv /\ MemoryHolds)
<1>1. IndexInv /\ MemoryHolds /\ [Next]_vars => (IndexInv /\ MemoryHolds)'
  BY NextIndex, NextMemory
<1> QED BY <1>1, InitIndex, InitMemory, PTL DEF Spec

(* The safety half of Converges: a run that completes in a process that    *)
(* serves leaves everything settled, whatever earlier runs left behind: the*)
(* checkout is stored, published, recorded and embedded, and before any    *)
(* fault the index in memory holds its vectors (indexer.go:92-170,         *)
(* serve.go runWith).                                                      *)
THEOREM CompletedRunSettles == Spec => [][Reload /\ booted => CaughtUp']_vars
<1>1. ASSUME IndexInv, MemoryHolds, Reload, booted PROVE CaughtUp'
  <2>1. runPc = "reload" /\ UNCHANGED <<rows, old, vec, pub, synced, tree, faults>> /\ booted'
    BY <1>1 DEF Reload, tables
  <2>2. rows = Snapshot(tree) /\ old = {}
    BY <1>1, <2>1 DEF IndexInv, WholeCheckout, AfterLinks
  <2>3. pub = rows /\ synced = tree /\ vec = rows
    BY <1>1, <2>1 DEF MemoryHolds
  <2>4. faults = 0 => mem' = vec
    BY <1>1, ReloadedMemory
  <2>5. Snapshot(tree)' = Snapshot(tree)
    BY <2>1 DEF Snapshot
  <2> QED BY <2>1, <2>2, <2>3, <2>4, <2>5 DEF CaughtUp
<1>2. IndexInv /\ MemoryHolds /\ [Next]_vars => [Reload /\ booted => CaughtUp']_vars
  BY <1>1
<1> QED BY <1>2, MemoryInvariant, PTL DEF Spec
=============================================================================
