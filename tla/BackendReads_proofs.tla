------------------------- MODULE BackendReads_proofs -------------------------
(***************************************************************************)
(* What the read endpoints show, for any number of handlers, workers and   *)
(* requests: the proofs that are handed out, and a walk through a list     *)
(* with pages of any size.                                                 *)
(***************************************************************************)
EXTENDS BackendReads, Backend_proofs, MerkleTree_proofs

-----------------------------------------------------------------------------
(* Proofs *)

\* Every root is the root of finitely many reports.
FiniteRoots ==
  /\ \A w \in Workers : IsFiniteSet(batch[w])
  /\ \A S \in StoredRoots : IsFiniteSet(S)
  /\ \A r \in Requests : IsFiniteSet(chainRoot[r])

LEMMA FiniteNext ==
  ASSUME Inv, OnlyEmptyRootsQueued, FiniteRoots, [Next]_vars
  PROVE  FiniteRoots'
<1>1. \A S : S \subseteq executorCollection => IsFiniteSet(S)
  BY FS_Subset DEF Inv, TypeOK, StoreTypeOK
<1>2. ASSUME NEW w \in Workers PROVE IsFiniteSet(batch'[w])
  BY <1>1, BatchNext DEF FiniteRoots
<1>3. ASSUME NEW S \in StoredRoots' PROVE IsFiniteSet(S)
  BY <1>3, StoredNext, FS_EmptySet DEF FiniteRoots, NoRoot
<1>4. ASSUME NEW r \in Requests PROVE IsFiniteSet(chainRoot'[r])
  BY <1>1, ChainNext DEF FiniteRoots, ChainGrows
<1> QED
  BY <1>2, <1>3, <1>4 DEF FiniteRoots

\* The hashes of a finite set of reports are the leaves of a tree, and a hash
\* is among them only if its report is in the set.
LEMMA HashesOfReports ==
  ASSUME NEW S, S \subseteq Reports, IsFiniteSet(S)
  PROVE  /\ HashSet(HashesOf(S))
         /\ \A x \in Reports : Hash[x] \in HashesOf(S) <=> x \in S
<1>1. IsFiniteSet(HashesOf(S))
  <2> DEFINE f == [x \in S |-> Hash[x]]
  <2>1. f \in Surjection(S, HashesOf(S))
    BY DEF Surjection, HashesOf
  <2> QED
    BY <2>1, FS_Surjection
<1> QED
  BY <1>1, ProofAssumption DEF HashesOf, HashSet

\* The leaves a lookup under a root finds are those the root was formed from.
LEMMA LeavesFound ==
  ASSUME StoreTypeOK, FiniteRoots, NEW root \in Roots, IsFiniteSet(root),
         NEW S \in findLeaves(root)
  PROVE  S = root
<1>1. S \in StoredRoots /\ getHexRoot(HashesOf(S)) = getHexRoot(HashesOf(root))
  BY DEF findLeaves, HexRoot
<1>2. IsFiniteSet(S) /\ S \subseteq Reports /\ root \subseteq Reports
  BY <1>1 DEF FiniteRoots, StoredRoots, StoreTypeOK, Roots
<1>3. HashesOf(S) = HashesOf(root)
  BY <1>1, <1>2, HashesOfReports, RootsDiffer
<1> QED
  BY <1>2, <1>3, HashesOfReports

\* What getProof knows: the root it holds is the one on the chain, and the
\* answer it gave is right for that root.
Answered ==
  /\ reply.code \in {"found", "notFound"}
       => /\ chainRoot[asked.requestId] # NoRoot
          /\ asked \in Reports
  /\ ProofConvinces
  /\ FoundIffCovered

Holding == ppc = "findLeaves" => held = chainRoot[asked.requestId]

ProofInv ==
  /\ Inv /\ OnlyEmptyRootsQueued /\ FiniteRoots
  /\ ProofTypeOK
  /\ Holding
  /\ Answered

\* A step of the backend leaves what getProof holds and answered right.
LEMMA BackendBesideProof ==
  ASSUME ProofInv, [Next]_vars, UNCHANGED proofVars
  PROVE  ProofInv'
<1>1. Inv' /\ OnlyEmptyRootsQueued' /\ FiniteRoots' /\ ChainGrows
  BY InvNext, OutboxNext, FiniteNext, ChainNext DEF ProofInv
<1>2. UNCHANGED <<ppc, asked, held, reply>>
  BY DEF proofVars
<1>3. ProofTypeOK'
  BY <1>2 DEF ProofInv, ProofTypeOK
<1>4. asked \in Reports => asked.requestId \in Requests
  BY DEF Reports
<1>5. Holding'
  BY <1>1, <1>2, <1>4 DEF ProofInv, Holding, ProofTypeOK, ChainGrows
<1>6. CASE reply.code \in {"found", "notFound"}
  <2>1. chainRoot'[asked.requestId] = chainRoot[asked.requestId]
    BY <1>1, <1>4, <1>6 DEF ProofInv, Answered, ChainGrows
  <2> QED
    BY <1>1, <1>2, <1>3, <1>5, <2>1 DEF ProofInv, Answered, ProofConvinces, FoundIffCovered
<1>7. CASE reply.code \notin {"found", "notFound"}
  BY <1>1, <1>2, <1>3, <1>5, <1>7 DEF ProofInv, Answered, ProofConvinces, FoundIffCovered
<1> QED
  BY <1>6, <1>7

\* An answer with another code claims nothing.
LEMMA OtherReply ==
  ASSUME NEW code, NEW proofs, Reply(code, proofs), code \notin {"found", "notFound"}
  PROVE  Answered'
BY DEF Reply, Answered, ProofConvinces, FoundIffCovered

\* The answer of getProof is right when it is given.
LEMMA AnswerRight ==
  ASSUME ProofInv, AnswerProof
  PROVE  Answered' /\ ProofTypeOK'
<1>1. UNCHANGED <<asked, held>> /\ UNCHANGED storeVars /\ ppc = "findLeaves"
  BY DEF AnswerProof
<1>2. /\ asked \in Reports /\ held \in Roots /\ held # NoRoot
      /\ held = chainRoot[asked.requestId] /\ asked.requestId \in Requests
  BY <1>1 DEF ProofInv, ProofTypeOK, Holding, Reports
<1>3. IsFiniteSet(held) /\ held \subseteq Reports
  BY <1>2 DEF ProofInv, FiniteRoots, Roots
<1>4. chainRoot'[asked'.requestId] = held
  BY <1>1, <1>2 DEF storeVars
<1>5. CASE Reply("error", <<>>)
  BY <1>1, <1>2, <1>5, OtherReply DEF Reply, ProofTypeOK
<1>6. ASSUME NEW S \in findLeaves(held),
             LET proofs == getHexProof(HashesOf(S), Hash[asked])
             IN IF proofs = <<>> /\ Leaf(Hash[asked]) # HexRoot(S)
                THEN Reply("notFound", <<>>) ELSE Reply("found", proofs)
      PROVE  Answered' /\ ProofTypeOK'
  <2> DEFINE leaves == HashesOf(held)
             hash == Hash[asked]
             proofs == getHexProof(leaves, hash)
  <2>1. S = held
    BY <1>2, <1>3, <1>6, LeavesFound DEF ProofInv, Inv, TypeOK
  <2>2. HashSet(leaves) /\ (hash \in leaves <=> asked \in held) /\ HexRoot(held) = getHexRoot(leaves)
    BY <1>2, <1>3, HashesOfReports DEF HexRoot
  <2>3. asked \in held => Verifies(proofs, hash, getHexRoot(leaves))
    BY <2>2, TreeVerifies
  <2>4. Verifies(<<>>, hash, getHexRoot(leaves)) <=> Leaf(hash) = getHexRoot(leaves)
    BY AscentDef DEF Verifies
  <2>5. asked \notin held => proofs = <<>>
    BY <2>2 DEF getHexProof
  <2>6. Leaf(hash) = getHexRoot(leaves) => asked \in held
    <3>1. Len(<<>>) \in Nat
      OBVIOUS
    <3> QED
      BY <2>2, <2>4, <3>1, TreeRefuses
  <2> HIDE DEF leaves, hash, proofs
  <2>7. IF proofs = <<>> /\ Leaf(hash) # getHexRoot(leaves)
        THEN Reply("notFound", <<>>) ELSE Reply("found", proofs)
    BY <1>6, <2>1, <2>2 DEF leaves, hash, proofs
  <2>8. CASE proofs = <<>> /\ Leaf(hash) # getHexRoot(leaves)
    <3>1. reply' = [code |-> "notFound", proofs |-> <<>>] /\ ppc' = "idle"
      BY <2>7, <2>8 DEF Reply
    <3>2. asked \notin held
      BY <2>3, <2>4, <2>8
    <3> QED
      BY <1>1, <1>2, <1>4, <3>1, <3>2 DEF Answered, ProofConvinces, FoundIffCovered, ProofTypeOK
  <2>9. CASE ~ (proofs = <<>> /\ Leaf(hash) # getHexRoot(leaves))
    <3>1. reply' = [code |-> "found", proofs |-> proofs] /\ ppc' = "idle"
      BY <2>7, <2>9 DEF Reply
    <3>2. asked \in held
      BY <2>5, <2>6, <2>9
    <3>3. Verifies(proofs, Hash[asked], HexRoot(held))
      BY <2>2, <2>3, <3>2 DEF hash
    <3> QED
      BY <1>1, <1>2, <1>4, <3>1, <3>2, <3>3 DEF Answered, ProofConvinces, FoundIffCovered, ProofTypeOK
  <2> QED
    BY <2>8, <2>9
<1> QED
  BY <1>5, <1>6 DEF AnswerProof

LEMMA ProofInvNext ==
  ASSUME ProofInv, [ProofsNext]_<<vars, readVars>>
  PROVE  ProofInv'
<1>1. CASE Next /\ UNCHANGED readVars
  BY <1>1, BackendBesideProof DEF readVars
<1>2. CASE UNCHANGED <<vars, readVars>>
  BY <1>2, BackendBesideProof DEF readVars
<1>3. CASE ProofNext /\ UNCHANGED <<handlerVars, workerVars, listVars>>
  <2>1. /\ UNCHANGED <<executorCollection, requestCollection, merkleCollection, chainRoot>>
        /\ faults' \in 0..MaxFaults
    BY <1>3, StoreAssumption DEF ProofNext, AskProof, ReadRoot, AnswerProof, ProofFails,
       storeVars, Fault, ProofInv, Inv, TypeOK, StoreTypeOK, StoreAssumption
  <2>2. Inv'
    BY <1>3, <2>1, InvBeside DEF ProofInv
  <2>3. OnlyEmptyRootsQueued' /\ FiniteRoots'
    BY <1>3, <2>1 DEF ProofInv, OnlyEmptyRootsQueued, FiniteRoots, StoredRoots,
       workerVars, localVars
  <2>4. CASE AskProof
    BY <2>1, <2>2, <2>3, <2>4 DEF ProofInv, AskProof, ProofTypeOK, Holding, Answered,
       NoReply, NoRoot, Roots, ProofConvinces, FoundIffCovered
  <2>5. CASE ReadRoot
    <3>1. asked \in Reports /\ asked' = asked /\ held' = chainRoot[asked.requestId]
      BY <2>5 DEF ReadRoot, ProofInv, ProofTypeOK
    <3>2. held' \in Roots
      BY <3>1 DEF ProofInv, Inv, TypeOK, StoreTypeOK, Reports
    <3>3. CASE chainRoot[asked.requestId] = NoRoot
      <4>1. Reply("waiting", <<>>)
        BY <2>5, <3>3 DEF ReadRoot, NotRegistered
      <4>2. ppc' = "idle" /\ reply'.code = "waiting"
        BY <4>1 DEF Reply
      <4> QED
        BY <2>2, <2>3, <3>1, <3>2, <4>1, <4>2, OtherReply DEF ProofInv, ProofTypeOK, Holding
    <3>4. CASE chainRoot[asked.requestId] # NoRoot
      <4>1. ppc' = "findLeaves" /\ reply' = reply
        BY <2>5, <3>4 DEF ReadRoot, NotRegistered
      <4>2. Answered'
        BY <2>1, <3>1, <4>1 DEF ProofInv, Answered, ProofConvinces, FoundIffCovered
      <4> QED
        BY <2>1, <2>2, <2>3, <3>1, <3>2, <3>4, <4>1, <4>2 DEF ProofInv, ProofTypeOK, Holding
    <3> QED
      BY <3>3, <3>4
  <2>6. CASE AnswerProof
    <3>1. Answered' /\ ProofTypeOK'
      BY <2>6, AnswerRight
    <3>2. ppc' = "idle"
      BY <2>6 DEF AnswerProof, Reply
    <3> QED
      BY <2>2, <2>3, <3>1, <3>2 DEF ProofInv, Holding
  <2>7. CASE ProofFails
    <3>1. Reply("error", <<>>) /\ UNCHANGED <<asked, held>>
      BY <2>7 DEF ProofFails
    <3>2. ppc' = "idle" /\ reply'.code = "error"
      BY <3>1 DEF Reply
    <3> QED
      BY <2>2, <2>3, <3>1, <3>2, OtherReply DEF ProofInv, ProofTypeOK, Holding
  <2> QED
    BY <1>3, <2>4, <2>5, <2>6, <2>7 DEF ProofNext
<1> QED
  BY <1>1, <1>2, <1>3 DEF ProofsNext

LEMMA ProofInvInit == ReadsInit => ProofInv
<1> SUFFICES ASSUME ReadsInit PROVE ProofInv
  OBVIOUS
<1>1. Inv
  BY InvInit DEF ReadsInit
<1>2. OnlyEmptyRootsQueued /\ FiniteRoots
  BY FS_EmptySet DEF ReadsInit, Init, WorkerInit, StoreInit, OnlyEmptyRootsQueued,
     FiniteRoots, StoredRoots, NoRoot
<1>3. ProofTypeOK /\ Holding /\ Answered
  BY DEF ReadsInit, ProofInit, ProofTypeOK, Holding, Answered, NoReply, NoRoot,
     Roots, ProofConvinces, FoundIffCovered
<1> QED
  BY <1>1, <1>2, <1>3 DEF ProofInv

\* The controller of proofs keeps its types beside the running backend.
THEOREM ProofTypes == ProofsSpec => []ProofTypeOK
<1>1. ProofInv => ProofTypeOK
  BY DEF ProofInv
<1> QED
  BY ProofInvInit, ProofInvNext, <1>1, PTL DEF ProofsSpec

\* Every proof that was handed out convinces the contract, for trees of any
\* size and whatever the handlers, the interval workers and the owner did
\* between the two reads and since.
THEOREM ProofsConvince == ProofsSpec => []ProofConvinces
<1>1. ProofInv => ProofConvinces
  BY DEF ProofInv, Answered
<1> QED
  BY ProofInvInit, ProofInvNext, <1>1, PTL DEF ProofsSpec

\* A report gets a proof if the registered root covers it, and is refused if
\* it does not.
THEOREM CoveredAreFound == ProofsSpec => []FoundIffCovered
<1>1. ProofInv => FoundIffCovered
  BY DEF ProofInv, Answered
<1> QED
  BY ProofInvInit, ProofInvNext, <1>1, PTL DEF ProofsSpec

-----------------------------------------------------------------------------
(* Lists *)

\* Before the walk nothing was seen; ids and pages hold requests.
WalkInv ==
  /\ ids \subseteq Requests
  /\ seen \subseteq Requests
  /\ list = "none" => seen = {}
  /\ OnlyFinishedShown

\* A page holds entries of its query.
LEMMA NewestSubset ==
  ASSUME NEW S, NEW pager
  PROVE  Newest(S, pager) \subseteq S
BY DEF Newest

LEMMA RequestsOfType ==
  ASSUME StoreTypeOK, NEW e
  PROVE  RequestsOf(e) \subseteq Requests
BY DEF StoreTypeOK, RequestsOf, Reports

\* A request that was submitted is submitted after any step of the backend.
LEMMA SubmittedThroughout ==
  ASSUME StoreTypeOK, StoreTypeOK', Grows, NEW r \in Requests, IsSubmitted(r)
  PROVE  IsSubmitted(r)'
<1>1. requestCollection[r] \in Statuses /\ requestCollection'[r] \in Statuses
  BY DEF StoreTypeOK
<1>2. Rank(requestCollection[r]) <= Rank(requestCollection'[r])
  BY DEF Grows
<1> QED
  BY <1>1, <1>2 DEF IsSubmitted, Rank, Statuses

LEMMA WalkNext ==
  ASSUME Inv, WalkInv, [ListsNext]_<<vars, readVars>>
  PROVE  Inv' /\ WalkInv' /\ Grows
<1>0. StoreTypeOK
  BY DEF Inv, TypeOK
<1>1. CASE Next /\ ListObserves
  <2>1. Inv' /\ Grows
    BY <1>1, InvNext
  <2>2. StoreTypeOK'
    BY <2>1 DEF Inv, TypeOK
  <2>3. UNCHANGED <<list, ids, seen>>
    BY <1>1 DEF ListObserves
  <2>4. OnlyFinishedShown'
    BY <1>0, <2>1, <2>2, <2>3, SubmittedThroughout DEF WalkInv, OnlyFinishedShown
  <2> QED
    BY <2>1, <2>3, <2>4 DEF WalkInv
<1>2. CASE ListStep /\ UNCHANGED <<handlerVars, workerVars, proofVars>>
  <2>1. UNCHANGED storeVars
    BY <1>2 DEF ListStep, StartWalk, FirstQuery, SecondQuery
  <2>2. Inv' /\ Grows
    <3>1. UNCHANGED vars
      BY <1>2, <2>1 DEF vars
    <3> QED
      BY <3>1, InvNext
  <2>3. \A r : IsSubmitted(r)' <=> IsSubmitted(r)
    BY <2>1 DEF storeVars, IsSubmitted
  <2>4. CASE StartWalk \/ FirstQuery
    <3>1. seen' = seen /\ ids' \subseteq Requests
      BY <1>0, <2>4, RequestsOfType DEF StartWalk, FirstQuery, WalkInv
    <3>2. list' = list \/ seen = {}
      BY <2>4 DEF StartWalk, FirstQuery, WalkInv
    <3>3. list' = "none" => list = "none"
      BY <2>4 DEF StartWalk, FirstQuery
    <3> QED
      BY <2>2, <2>3, <3>1, <3>2, <3>3 DEF WalkInv, OnlyFinishedShown
  <2>5. CASE SecondQuery
    <3> DEFINE query == IF list = "all" THEN RequestsOf(Reader) ELSE Finished(ids)
    <3>1. PICK data : data \subseteq query /\ seen' = seen \cup data
      BY <2>5, NewestSubset DEF SecondQuery
    <3>2. query \subseteq Requests
      BY <1>0, RequestsOfType DEF Finished, WalkInv
    <3>3. list' = list /\ list # "none" /\ ids' = {}
      BY <2>5 DEF SecondQuery
    <3>4. list = "finished" => \A r \in data : IsSubmitted(r)
      BY <3>1 DEF Finished
    <3> QED
      BY <2>2, <2>3, <3>1, <3>2, <3>3, <3>4 DEF WalkInv, OnlyFinishedShown
  <2> QED
    BY <1>2, <2>4, <2>5 DEF ListStep
<1>3. CASE UNCHANGED <<vars, readVars>>
  <2>1. Inv' /\ Grows
    BY <1>3, InvNext
  <2> QED
    BY <1>3, <2>1 DEF readVars, listVars, vars, storeVars, WalkInv,
       OnlyFinishedShown, IsSubmitted
<1> QED
  BY <1>1, <1>2, <1>3 DEF ListsNext

\* A reader of finished requests is shown no open one, whatever the handlers
\* and the interval workers do between its calls.
THEOREM ShownFinished == ListsSpec => []OnlyFinishedShown
<1>1. ReadsInit => Inv /\ WalkInv
  BY InvInit DEF ReadsInit, ListInit, WalkInv, OnlyFinishedShown
<1>2. Inv /\ WalkInv /\ [ListsNext]_<<vars, readVars>> => Inv' /\ WalkInv'
  BY WalkNext
<1>3. WalkInv => OnlyFinishedShown
  BY DEF WalkInv
<1> QED
  BY <1>1, <1>2, <1>3, PTL DEF ListsSpec

-----------------------------------------------------------------------------
(* A walk is complete *)

greater == {ss \in Nat \X Nat : ss[1] > ss[2]}

Above(S, r) == Cardinality({q \in S : q > r})

LEMMA GreaterOrders ==
  ASSUME NEW S, S \subseteq Nat
  PROVE  /\ StrictOrder(greater, S)
         /\ \A x \in S : Before(greater, S, x) = {q \in S : q > x}
<1>1. \A x, y \in S : <<x, y>> \in greater <=> x > y
  BY DEF greater
<1>2. StrictOrder(greater, S)
  BY <1>1 DEF StrictOrder
<1> QED
  BY <1>1, <1>2 DEF Before

\* A list that grows only pushes its entries back.
LEMMA AboveGrows ==
  ASSUME NEW S, S \subseteq Requests, NEW T, T \subseteq Requests, S \subseteq T, NEW r
  PROVE  Above(S, r) \in Nat /\ Above(T, r) \in Nat /\ Above(S, r) <= Above(T, r)
<1>1. /\ {q \in T : q > r} \subseteq Requests
      /\ {q \in S : q > r} \subseteq {q \in T : q > r}
  OBVIOUS
<1>2. IsFiniteSet({q \in T : q > r})
  BY <1>1, StoreAssumption, FS_Subset DEF StoreAssumption
<1>3. /\ IsFiniteSet({q \in S : q > r})
      /\ Cardinality({q \in S : q > r}) <= Cardinality({q \in T : q > r})
  BY <1>1, <1>2, FS_Subset
<1> QED
  BY <1>2, <1>3, FS_CardinalityType DEF Above

PageSize == IF limitPerPage > 0 THEN Lesser(limitPerPage, PAGE_MAX) ELSE PAGE_DEFAULT
Skipped == (page - 1) * PageSize

LEMMA PageSizeType == PageSize \in Nat \ {0}
BY ListAssumption, PagingAssumption DEF PageSize, ListAssumption, PagingAssumption, Lesser

\* An entry of a query that is not before a page is on it or behind it, and
\* an empty page has none behind it.
LEMMA PageShows ==
  ASSUME NEW S, S \subseteq Requests, NEW p \in Nat \ {0}, NEW r \in S,
         Above(S, r) >= (p - 1) * PageSize,
         r \notin Newest(S, paginatorNumber(p, limitPerPage))
  PROVE  /\ Above(S, r) >= (p - 1) * PageSize + PageSize
         /\ Newest(S, paginatorNumber(p, limitPerPage)) # {}
<1> DEFINE skip == (p - 1) * PageSize
           pager == paginatorNumber(p, limitPerPage)
<1>1. PageSize \in Nat \ {0} /\ skip \in Nat
  BY PageSizeType
<1>2. pager.limit = PageSize /\ pager.skip = skip
  BY DEF paginatorNumber, PageSize
<1>3. Newest(S, pager) = {q \in S : Above(S, q) >= skip /\ Above(S, q) < skip + PageSize}
  BY <1>2 DEF Newest, Above
<1>4. S \subseteq Nat /\ IsFiniteSet(S) /\ \A q \in S : Above(S, q) \in Nat
  BY StoreAssumption, FS_Subset, AboveGrows DEF StoreAssumption
<1> HIDE DEF skip, pager
<1>5. Above(S, r) >= skip + PageSize
  BY <1>1, <1>3, <1>4 DEF skip, pager
<1>6. PICK x \in S : Above(S, x) = skip
  <2>1. StrictOrder(greater, S)
    BY <1>4, GreaterOrders
  <2>2. \A q \in S : Cardinality(Before(greater, S, q)) = Above(S, q)
    <3>1. \A q \in S : Before(greater, S, q) = {y \in S : y > q}
      BY <1>4, GreaterOrders
    <3> QED
      BY <3>1 DEF Above
  <2>3. Above(S, r) < Cardinality(S) /\ Cardinality(S) \in Nat
    BY <1>4, <2>1, <2>2, RankType
  <2>4. skip \in 0..(Cardinality(S) - 1)
    BY <1>1, <1>4, <2>3 DEF skip
  <2>5. \E x \in S : Cardinality(Before(greater, S, x)) = skip
    BY <1>4, <2>1, <2>4, RankTaken
  <2> QED
    BY <2>2, <2>5
<1>7. x \in Newest(S, pager)
  BY <1>1, <1>3, <1>6
<1> QED
  BY <1>5, <1>7 DEF skip, pager

\* What the reader walks through: the list as it is at the moment, or what
\* the second of the two calls will return of the requests the first found.
Current == IF list = "all" THEN RequestsOf(Reader) ELSE Finished(RequestsOf(Reader))
Query == IF list = "all" THEN RequestsOf(Reader) ELSE Finished(ids)

\* Nothing that is due and was not shown has slipped to an earlier page.
Ahead(S) == \A r \in due \ seen : r \in S /\ Above(S, r) >= Skipped

WalkTypeOK ==
  /\ list \in {"none", "all", "finished"}
  /\ lpc \in {"first", "second", "end"}
  /\ page \in Nat \ {0}
  /\ list = "none" => lpc = "first" /\ page = 1 /\ seen = {}

Underway ==
  list # "none" /\ ~trimmed
    => /\ lpc = "first" => Ahead(Current)
       /\ lpc = "second" => Ahead(Query) /\ ids \subseteq RequestsOf(Reader)
       /\ lpc = "end" => due \subseteq seen

WalkCompleteInv == WalkTypeOK /\ Underway

\* While no report of the reader is trimmed, both lists only grow.
LEMMA ListsGrow ==
  ASSUME Inv, Inv', Grows, WalkInv, Next, ListObserves, list # "none", lpc # "end", ~trimmed'
  PROVE  /\ ~trimmed /\ RequestsOf(Reader) \subseteq RequestsOf(Reader)'
         /\ Current \subseteq Current' /\ Query \subseteq Query'
         /\ Current' \subseteq Requests /\ Query' \subseteq Requests
<1>0. StoreTypeOK /\ StoreTypeOK'
  BY DEF Inv, TypeOK
<1>1. UNCHANGED <<list, lpc, page, ids, seen, due>>
  BY DEF ListObserves
<1>2. ~trimmed /\ RequestsOf(Reader) \subseteq RequestsOf(Reader)'
  BY DEF ListObserves
<1>3. RequestsOf(Reader)' \subseteq Requests
  BY <1>0 DEF StoreTypeOK, RequestsOf, Reports
<1>4. \A r \in Requests : IsSubmitted(r) => IsSubmitted(r)'
  BY <1>0, SubmittedStays
<1>5. \A S, T : S \subseteq T /\ T \subseteq Requests => Finished(S) \subseteq Finished(T)'
  BY <1>4 DEF Finished
<1>6. Finished(RequestsOf(Reader)) \subseteq Finished(RequestsOf(Reader))'
  BY <1>2, <1>3, <1>4 DEF Finished
<1>7. Finished(ids) \subseteq Finished(ids)' /\ Finished(ids)' \subseteq Requests
  BY <1>1, <1>4 DEF Finished, WalkInv
<1>8. Finished(RequestsOf(Reader))' \subseteq Requests
  BY <1>3 DEF Finished
<1> QED
  BY <1>1, <1>2, <1>3, <1>6, <1>7, <1>8 DEF Current, Query

LEMMA AheadGrows ==
  ASSUME NEW S, S \subseteq Requests, NEW T, T \subseteq Requests, S \subseteq T,
         Ahead(S), UNCHANGED <<due, seen, page>>, page \in Nat \ {0}
  PROVE  \A r \in due' \ seen' : r \in T /\ Above(T, r) >= Skipped'
<1>1. Skipped' = Skipped /\ Skipped \in Nat
  BY PageSizeType DEF Skipped
<1>2. ASSUME NEW r \in due \ seen PROVE r \in T /\ Above(T, r) >= Skipped
  <2>1. r \in S /\ Above(S, r) >= Skipped
    BY DEF Ahead
  <2>2. Above(S, r) \in Nat /\ Above(T, r) \in Nat /\ Above(S, r) <= Above(T, r)
    BY AboveGrows
  <2> QED
    BY <1>1, <2>1, <2>2
<1> QED
  BY <1>1, <1>2

LEMMA CompleteNext ==
  ASSUME Inv, Inv', Grows, WalkInv, WalkCompleteInv, [ListsNext]_<<vars, readVars>>
  PROVE  WalkCompleteInv'
<1>1. StoreTypeOK /\ WalkTypeOK /\ Underway
  BY DEF Inv, TypeOK, WalkCompleteInv
<1>2. RequestsOf(Reader) \subseteq Requests /\ ids \subseteq Requests
  BY <1>1, RequestsOfType DEF WalkInv
<1>3. Current \subseteq Requests /\ Query \subseteq Requests
  BY <1>2 DEF Current, Query, Finished
<1>4. CASE Next /\ ListObserves
  <2>1. UNCHANGED <<list, lpc, page, ids, seen, due>>
    BY <1>1, <1>4 DEF ListObserves, WalkTypeOK
  <2>2. WalkTypeOK'
    BY <1>1, <2>1 DEF WalkTypeOK
  <2>3. CASE list # "none" /\ lpc # "end" /\ ~trimmed'
    <3>1. /\ ~trimmed /\ RequestsOf(Reader) \subseteq RequestsOf(Reader)'
          /\ Current \subseteq Current' /\ Query \subseteq Query'
          /\ Current' \subseteq Requests /\ Query' \subseteq Requests
      BY <1>4, <2>3, ListsGrow
    <3>2. lpc = "first" => Ahead(Current)'
      <4>1. PICK T : T = Current'
        OBVIOUS
      <4>2. SUFFICES ASSUME lpc = "first"
                     PROVE \A r \in due' \ seen' : r \in T /\ Above(T, r) >= Skipped'
        BY <4>1 DEF Ahead, Above
      <4> QED
        BY <1>1, <1>3, <2>1, <2>3, <3>1, <4>1, <4>2, AheadGrows DEF Underway, WalkTypeOK
    <3>3. lpc = "second" => Ahead(Query)'
      <4>1. PICK T : T = Query'
        OBVIOUS
      <4>2. SUFFICES ASSUME lpc = "second"
                     PROVE \A r \in due' \ seen' : r \in T /\ Above(T, r) >= Skipped'
        BY <4>1 DEF Ahead, Above
      <4> QED
        BY <1>1, <1>3, <2>1, <2>3, <3>1, <4>1, <4>2, AheadGrows DEF Underway, WalkTypeOK
    <3>4. lpc = "second" => ids' \subseteq RequestsOf(Reader)'
      BY <1>1, <2>1, <2>3, <3>1 DEF Underway
    <3> QED
      BY <2>1, <2>2, <2>3, <3>2, <3>3, <3>4 DEF WalkCompleteInv, Underway
  <2>4. CASE list = "none" \/ trimmed'
    BY <2>1, <2>2, <2>4 DEF WalkCompleteInv, Underway
  <2>5. CASE list # "none" /\ lpc = "end" /\ ~trimmed'
    BY <1>1, <1>4, <2>1, <2>2, <2>5 DEF WalkCompleteInv, Underway, ListObserves
  <2> QED
    BY <2>3, <2>4, <2>5
<1>5. CASE ListStep /\ UNCHANGED <<handlerVars, workerVars, proofVars>>
  <2>1. UNCHANGED storeVars /\ UNCHANGED trimmed
    BY <1>5 DEF ListStep, StartWalk, FirstQuery, SecondQuery
  <2>2. RequestsOf(Reader)' = RequestsOf(Reader) /\ \A S : Finished(S)' = Finished(S)
    BY <2>1 DEF storeVars, RequestsOf, Finished, IsSubmitted
  <2>3. CASE StartWalk
    <3>1. /\ list' \in {"all", "finished"} /\ due' = Current'
          /\ UNCHANGED <<lpc, page, seen>> /\ lpc = "first" /\ page = 1
      BY <1>1, <2>2, <2>3 DEF StartWalk, Current, WalkTypeOK
    <3>2. Skipped' = 0
      BY <3>1, PageSizeType DEF Skipped
    <3>3. \A r : Above(Current', r) \in Nat
      <4>1. Current' \subseteq Requests
        BY <1>2, <2>2 DEF Current, Finished
      <4> QED
        BY <4>1, AboveGrows
    <3>4. Ahead(Current)'
      BY <3>1, <3>2, <3>3 DEF Ahead, Above
    <3> QED
      BY <1>1, <2>1, <3>1, <3>4 DEF WalkCompleteInv, WalkTypeOK, Underway
  <2>4. CASE FirstQuery
    <3>1. /\ lpc = "first" /\ lpc' = "second" /\ ids' = RequestsOf(Reader) /\ list # "none"
          /\ UNCHANGED <<list, page, seen, due>>
      BY <2>4 DEF FirstQuery
    <3>2. Query' = Current
      BY <2>2, <3>1 DEF Query, Current, Finished, IsSubmitted, storeVars
    <3>3. ~trimmed => Ahead(Query)'
      BY <1>1, <3>1, <3>2 DEF Underway, Ahead, Above, Skipped
    <3> QED
      BY <1>1, <2>1, <2>2, <3>1, <3>3 DEF WalkCompleteInv, WalkTypeOK, Underway
  <2>5. CASE SecondQuery
    <3> DEFINE data == Newest(Query, paginatorNumber(page, limitPerPage))
    <3>1. /\ lpc = "second" /\ list # "none" /\ UNCHANGED <<list, due>>
          /\ seen' = seen \cup data
          /\ lpc' = IF data = {} THEN "end" ELSE "first"
          /\ page' = IF data = {} THEN page ELSE page + 1
      BY <2>5 DEF SecondQuery, Query
    <3>2. WalkTypeOK'
      BY <1>1, <2>1, <3>1 DEF WalkTypeOK
    <3>3. CASE trimmed
      BY <2>1, <3>2, <3>3 DEF WalkCompleteInv, Underway
    <3>4. CASE ~trimmed
      <4>1. Ahead(Query) /\ ids \subseteq RequestsOf(Reader) /\ page \in Nat \ {0}
        BY <1>1, <3>1, <3>4 DEF Underway, WalkTypeOK
      <4>2. ASSUME NEW r \in due' \ seen'
            PROVE  r \in Query /\ Above(Query, r) >= Skipped + PageSize /\ data # {}
        <5>1. r \in Query /\ Above(Query, r) >= (page - 1) * PageSize /\ r \notin data
          BY <3>1, <4>1 DEF Ahead, Skipped
        <5> HIDE DEF data
        <5> QED
          BY <1>3, <4>1, <5>1, PageShows DEF data, Skipped
      <4>3. CASE data = {}
        BY <3>1, <3>2, <4>2, <4>3 DEF WalkCompleteInv, Underway
      <4>4. CASE data # {}
        <5>1. Skipped' = Skipped + PageSize /\ Skipped \in Nat
          <6>1. \A p \in Nat \ {0}, n \in Nat : (p - 1) * n + n = p * n /\ (p - 1) * n \in Nat
            OBVIOUS
          <6>2. page' - 1 = page /\ PageSize \in Nat /\ page \in Nat \ {0}
            BY <3>1, <4>1, <4>4, PageSizeType
          <6> QED
            BY <6>1, <6>2 DEF Skipped
        <5>2. Query \subseteq Current
          BY <4>1 DEF Query, Current, Finished
        <5>3. Current' = Current
          BY <2>2, <3>1 DEF Current
        <5>4. ASSUME NEW r \in due' \ seen'
              PROVE  r \in Current /\ Above(Current, r) >= Skipped + PageSize
          <6>1. r \in Query /\ Above(Query, r) >= Skipped + PageSize
            BY <4>2
          <6>2. Above(Query, r) \in Nat /\ Above(Current, r) \in Nat
                /\ Above(Query, r) <= Above(Current, r)
            BY <1>3, <5>2, AboveGrows
          <6> QED
            BY <5>1, <5>2, <6>1, <6>2, PageSizeType
        <5>5. Ahead(Current)'
          BY <5>1, <5>3, <5>4 DEF Ahead, Above
        <5> QED
          BY <3>1, <3>2, <4>4, <5>5 DEF WalkCompleteInv, Underway
      <4> QED
        BY <4>3, <4>4
    <3> QED
      BY <3>3, <3>4
  <2> QED
    BY <1>5, <2>3, <2>4, <2>5 DEF ListStep
<1>6. CASE UNCHANGED <<vars, readVars>>
  <2>1. UNCHANGED listVars /\ UNCHANGED storeVars
    BY <1>6 DEF readVars, vars
  <2> QED
    BY <1>1, <2>1 DEF WalkCompleteInv, WalkTypeOK, Underway, Ahead, Above, Skipped,
       Current, Query, RequestsOf, Finished, IsSubmitted, listVars, storeVars
<1> QED
  BY <1>4, <1>5, <1>6 DEF ListsNext

\* A walk through the pages of a list misses no report that was listed when
\* it began, unless one of the reader's reports is trimmed under way,
\* whatever is inserted or finished between its calls.
THEOREM WalksComplete == ListsSpec => []WalkComplete
<1>1. ReadsInit => Inv /\ WalkInv /\ WalkCompleteInv
  <2>1. ReadsInit => Inv
    BY InvInit DEF ReadsInit
  <2>2. ReadsInit => WalkInv
    BY DEF ReadsInit, ListInit, WalkInv, OnlyFinishedShown
  <2>3. ReadsInit => WalkCompleteInv
    BY DEF ReadsInit, ListInit, WalkCompleteInv, WalkTypeOK, Underway
  <2> QED
    BY <2>1, <2>2, <2>3
<1>2. Inv /\ WalkInv /\ WalkCompleteInv /\ [ListsNext]_<<vars, readVars>>
        => Inv' /\ WalkInv' /\ WalkCompleteInv'
  BY WalkNext, CompleteNext
<1>3. WalkCompleteInv => WalkComplete
  BY DEF WalkCompleteInv, WalkTypeOK, Underway, WalkComplete
<1> QED
  BY <1>1, <1>2, <1>3, PTL DEF ListsSpec
=============================================================================
