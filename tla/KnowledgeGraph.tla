--------------------------- MODULE KnowledgeGraph ---------------------------
(***************************************************************************)
(* graphrag-service: the four stages that turn chunks into a knowledge     *)
(* graph.  Each chunk carries one status per stage; the entities,          *)
(* relations, mentions and communities live in collections that every     *)
(* handler of every execution reads and writes one call at a time.         *)
(*                                                                         *)
(* A stage run takes a snapshot of the chunks that are due and gives each  *)
(* to a handler of its own (the concurrent default); the sequential mode   *)
(* is the case in which the handlers take turns.  The API starts any stage *)
(* at any time, and a second execution on the same database is not         *)
(* refused.                                                                *)
(*                                                                         *)
(* An entity's id is a hash of its name, so names stand for ids, and a     *)
(* relation is the pair of ids it joins.  Finds says which stored names    *)
(* the blocking keys and the scores of entity resolution recognise.        *)
(***************************************************************************)
EXTENDS Naturals, Sequences, FiniteSets

CONSTANTS
    Chunks,
    Names,        \* normalised entity names, and the entity ids made of them
    Executions,   \* pipeline executions at work on the database
    Mentioned,    \* chunk -> sequence of the names extracted from it
    Related,      \* chunk -> set of the <<subject, object>> names extracted from it
    Finds,        \* <<n, m>>: resolving n matches a stored m above the threshold
    MaxHandlers,  \* bound: handlers at work at once, in all executions
    MaxRuns,      \* bound: stage runs
    MaxUpsets     \* bound: failed calls, crashes and cleanings through the API

Edges == Names \X Names
Stages == {"extraction", "resolution", "construction", "community"}
Unique == {"entities", "relations", "mentions"}

ASSUME KnowledgeGraphAssumption ==
    /\ Mentioned \in [Chunks -> Seq(Names) \ {<<>>}]
    /\ Related \in [Chunks -> SUBSET Edges]
    /\ Finds \subseteq Edges
    /\ MaxHandlers \in Nat /\ MaxRuns \in Nat /\ MaxUpsets \in Nat

VARIABLES
    status,       \* chunk -> stage -> what its graphrag_<stage> field says
    entities,     \* name -> the documents with that entity_id, first inserted first
    relations,    \* edge -> the documents with that relationship_id
    mentions,     \* <<entity, chunk>> -> number of mention documents
    communities,  \* are there any, and the edges they were detected over
    indexed,      \* collections with their unique index
    stage,        \* the stage each execution runs
    detected,     \* _communities_detected of each execution's stage object
    job,          \* execution -> chunk -> its handler
    cleaning,     \* clean_graphrag_data has dropped the collections and not yet reset the chunks
    met,          \* history: <<stage, chunks>> whose handlers were at work together
    late,         \* history: chunks that stored a relation during a detection, or once covered
    hurt,         \* history: chunks with a swallowed error, or in hand during a clean
    runs, upsets

graphVars   == <<entities, relations, mentions, communities, indexed>>
historyVars == <<met, late, hurt>>
boundVars   == <<runs, upsets>>
vars == <<status, graphVars, stage, detected, job, cleaning, historyVars, boundVars>>

Outcomes == {"absent", "completed", "failed", "skipped"}

\* Where a handler is, the status it will write, and what it has read: the
\* entity or edge in hand, whether the chunk is new to it, whether it was
\* there at all, the final ids so far, the edges to store.
NoJob == [at |-> "none", out |-> "absent", to |-> <<>>, fresh |-> FALSE, gone |-> FALSE,
          ids |-> <<>>, todo |-> {}]

Jobs == [at : {"none", "queued", "entity", "upsert", "edge", "put", "store", "batch", "write"},
         out : Outcomes, to : {<<>>} \cup {<<n>> : n \in Names} \cup Edges,
         fresh : BOOLEAN, gone : BOOLEAN, ids : Seq(Names), todo : SUBSET Edges]

Init ==
    /\ \E o \in {"absent", "completed"} :
          status = [c \in Chunks |-> [s \in Stages |-> IF s = "extraction" THEN o ELSE "absent"]]
    /\ entities = [n \in Names |-> <<>>]
    /\ relations = [e \in Edges |-> <<>>]
    /\ mentions = [p \in Names \X Chunks |-> 0]
    /\ communities = [stored |-> FALSE, over |-> {}]
    /\ indexed = {}
    /\ stage = [x \in Executions |-> "none"]
    /\ detected = [x \in Executions |-> FALSE]
    /\ job = [x \in Executions |-> [c \in Chunks |-> NoJob]]
    /\ cleaning = FALSE
    /\ met = {} /\ late = {} /\ hurt = {}
    /\ runs = 0 /\ upsets = 0

-----------------------------------------------------------------------------
(* The collections *)

Stored(n) == entities[n] # <<>>
Linked(e) == relations[e] # <<>>

\* find_one and update_one meet the first document with the id.
Sources(docs) == IF docs = <<>> THEN {} ELSE docs[1].sources

AllSources(docs) == UNION {docs[i].sources : i \in DOMAIN docs}

\* The ids the name of an entity may stand for: its own and those that have it
\* as an alias; which one wins depends on the order of the documents.
IdsOf(n) == {m \in Names : Stored(m) /\ (m = n \/ \E i \in DOMAIN entities[m] : n \in entities[m][i].aliases)}

\* _find_db_candidates and _choose_match: an alias is an exact match; the best
\* score above the threshold wins among the others.
Candidates(n) ==
    {m \in Names : Stored(m) /\ \/ <<n, m>> \in Finds
                                \/ \E i \in DOMAIN entities[m] : \E a \in entities[m][i].aliases : n = a \/ <<n, a>> \in Finds}

\* Broken: only the id is looked up.
Targets_ById(n) == {n}

\* The entity that a name is stored under.
Targets(n) == IF Stored(n) \/ Candidates(n) = {} THEN {n} ELSE Candidates(n)

-----------------------------------------------------------------------------
(* Handlers *)

AtWork(x, c) == job[x][c].at \notin {"none", "queued"}

InHand == {c \in Chunks : \E x \in Executions : job[x][c].at # "none"}

Detecting == \E x \in Executions, c \in Chunks : job[x][c].at \in {"store", "batch"}

Become(x, c, j) == job' = [job EXCEPT ![x][c] = j]

\* The handler's last step: write the status of the stage.
Writing(out) == [NoJob EXCEPT !.at = "write", !.out = out]

\* The handler returns; the last one ends the stage run and its stage object.
Return(x, c) ==
    LET last == \A d \in Chunks \ {c} : job[x][d].at = "none" IN
    /\ Become(x, c, NoJob)
    /\ stage' = IF last THEN [stage EXCEPT ![x] = "none"] ELSE stage
    /\ detected' = IF last THEN [detected EXCEPT ![x] = FALSE] ELSE detected

\* The handlers of the same stage that are at work while this one is.
Meetings(x, c) ==
    {<<stage[x], {c, d}>> : d \in {d \in Chunks : \E y \in Executions :
        <<y, d>> # <<x, c>> /\ stage[y] = stage[x] /\ AtWork(y, d)}}

Upset == upsets < MaxUpsets /\ upsets' = upsets + 1

-----------------------------------------------------------------------------
(* A stage run: BaseStage.run *)

\* The chunks iter_docs yields.
Due(s) ==
    CASE s = "extraction"   -> {c \in Chunks : status[c].extraction \notin {"completed", "skipped"}}
      [] s = "resolution"   -> {c \in Chunks : status[c].extraction = "completed" /\ status[c].resolution # "completed"}
      [] s = "construction" -> {c \in Chunks : status[c].resolution = "completed" /\ status[c].construction # "completed"}
      [] s = "community"    -> {c \in Chunks : status[c].construction = "completed" /\ status[c].community # "completed"}

\* The snapshot: a construction handler finds no data in a chunk whose extraction
\* was lost since.
StartStage(x, s) ==
    /\ stage[x] = "none" /\ Due(s) # {} /\ runs < MaxRuns
    /\ runs' = runs + 1
    /\ stage' = [stage EXCEPT ![x] = s]
    /\ job' = [job EXCEPT ![x] = [c \in Chunks |->
                  IF c \notin Due(s) THEN NoJob
                  ELSE IF s = "construction" /\ status[c].extraction # "completed" THEN Writing("failed")
                  ELSE [NoJob EXCEPT !.at = "queued"]]]
    /\ UNCHANGED <<status, graphVars, detected, cleaning, historyVars, upsets>>

\* The status is written whatever another run has written since the snapshot; the
\* check for a completed one only skips writing completed again.
WriteStatus(x, c) ==
    /\ job[x][c].at = "write"
    /\ status' = [status EXCEPT ![c][stage[x]] = job[x][c].out]
    /\ Return(x, c)
    /\ UNCHANGED <<graphVars, cleaning, historyVars, boundVars>>

\* The update fails too, and handle_errors swallows that.
WriteFails(x, c) ==
    /\ job[x][c].at = "write" /\ Upset
    /\ Return(x, c)
    /\ UNCHANGED <<status, graphVars, cleaning, historyVars, runs>>

\* A call outside the per-document try blocks raises.
HandlerRaises(x, c) ==
    /\ stage[x] # "extraction" /\ job[x][c].at \in {"queued", "entity", "store", "batch"} /\ Upset
    /\ Become(x, c, Writing("failed"))
    /\ UNCHANGED <<status, graphVars, stage, detected, cleaning, historyVars, runs>>

\* The model's answer: entities found, none found in a short text, or an error.
Extract(x, c, out) ==
    /\ stage[x] = "extraction" /\ job[x][c].at = "queued"
    /\ Become(x, c, Writing(out))
    /\ UNCHANGED <<status, graphVars, stage, detected, cleaning, historyVars, boundVars>>

-----------------------------------------------------------------------------
(* Entity resolution: EntityResolutionStage.handle_doc *)

\* Broken: source_count is incremented whether or not the chunk is among the sources.
LookUpEntity_AlwaysNew(x, c) ==
    LET j == job[x][c] IN
    /\ stage[x] = "resolution" /\ j.at \in {"queued", "entity"} /\ Len(j.ids) < Len(Mentioned[c])
    /\ \E m \in Targets(Mentioned[c][Len(j.ids) + 1]) :
          Become(x, c, [j EXCEPT !.at = "upsert", !.to = <<m>>, !.gone = ~Stored(m), !.fresh = TRUE])
    /\ met' = met \cup Meetings(x, c)
    /\ UNCHANGED <<status, graphVars, stage, detected, cleaning, late, hurt, boundVars>>

\* The lookups for the chunk's next name: by id, then the candidates, then
\* _upsert_entity's own find_one, which sees what one atomic lookup could see.
LookUpEntity(x, c) ==
    LET j == job[x][c] IN
    /\ stage[x] = "resolution" /\ j.at \in {"queued", "entity"} /\ Len(j.ids) < Len(Mentioned[c])
    /\ \E m \in Targets(Mentioned[c][Len(j.ids) + 1]) :
          Become(x, c, [j EXCEPT !.at = "upsert", !.to = <<m>>, !.gone = ~Stored(m),
                                 !.fresh = c \notin Sources(entities[m])])
    /\ met' = met \cup Meetings(x, c)
    /\ UNCHANGED <<status, graphVars, stage, detected, cleaning, late, hurt, boundVars>>

\* Broken: an inserted document gets no source_count.
UpsertEntity_NoCount(x, c) ==
    LET j == job[x][c]
        m == j.to[1]
    IN
    /\ j.at = "upsert"
    /\ entities' = [entities EXCEPT ![m] = IF @ = <<>> THEN <<[sources |-> {c}, aliases |-> {}]>> ELSE @]
    /\ Become(x, c, [NoJob EXCEPT !.at = "entity", !.ids = Append(j.ids, m)])
    /\ UNCHANGED <<status, relations, mentions, communities, indexed, stage, detected, cleaning, historyVars, boundVars>>

\* find_one_and_update with upsert.  Without the unique index two upserts that
\* both found nothing may both insert.
UpsertEntity(x, c) ==
    LET j == job[x][c]
        n == Mentioned[c][Len(j.ids) + 1]
        m == j.to[1]
        alias == IF m = n THEN {} ELSE {n}
        more  == IF j.fresh THEN 1 ELSE 0
        Updated  == [entities[m] EXCEPT ![1].count = @ + more, ![1].sources = @ \cup {c}, ![1].aliases = @ \cup alias]
        Inserted == Append(entities[m], [count |-> more, sources |-> {c}, aliases |-> alias])
    IN
    /\ j.at = "upsert"
    /\ \E docs \in IF ~Stored(m) THEN {Inserted}
                   ELSE IF j.gone /\ "entities" \notin indexed THEN {Updated, Inserted} ELSE {Updated} :
          entities' = [entities EXCEPT ![m] = docs]
    /\ Become(x, c, [NoJob EXCEPT !.at = "entity", !.ids = Append(j.ids, m)])
    /\ UNCHANGED <<status, relations, mentions, communities, indexed, stage, detected, cleaning, historyVars, boundVars>>

\* The exception is logged and the name maps to itself.
StoreEntityFails(x, c) ==
    LET j == job[x][c] IN
    /\ j.at = "upsert" /\ Upset
    /\ Become(x, c, [NoJob EXCEPT !.at = "entity", !.ids = Append(j.ids, Mentioned[c][Len(j.ids) + 1])])
    /\ hurt' = hurt \cup {c}
    /\ UNCHANGED <<status, graphVars, stage, detected, cleaning, met, late, runs>>

\* One unordered batch insert; the unique index drops what is there already.
StoreMentions(x, c) ==
    LET j == job[x][c]
        times(n) == Cardinality({i \in DOMAIN j.ids : j.ids[i] = n})
    IN
    /\ j.at = "entity" /\ Len(j.ids) = Len(Mentioned[c])
    /\ mentions' = [p \in Names \X Chunks |->
          IF p[2] # c \/ times(p[1]) = 0 THEN mentions[p]
          ELSE IF "mentions" \in indexed THEN 1 ELSE mentions[p] + times(p[1])]
    /\ Become(x, c, Writing("completed"))
    /\ UNCHANGED <<status, entities, relations, communities, indexed, stage, detected, cleaning, historyVars, boundVars>>

-----------------------------------------------------------------------------
(* Graph construction: GraphConstructionStage.handle_doc *)

\* Broken: validate_entity_existence is not called.
ReadGraph_NoValidation(x, c) ==
    /\ stage[x] = "construction" /\ job[x][c].at = "queued"
    /\ \E id \in [UNION {{r[1], r[2]} : r \in Related[c]} -> Names] :
          /\ \A n \in DOMAIN id : id[n] \in IF IdsOf(n) = {} THEN {n} ELSE IdsOf(n)
          /\ Become(x, c, [NoJob EXCEPT !.at = "edge", !.todo = {<<id[r[1]], id[r[2]]>> : r \in Related[c]}])
    /\ met' = met \cup Meetings(x, c)
    /\ UNCHANGED <<status, graphVars, stage, detected, cleaning, late, hurt, boundVars>>

\* Each name becomes an id, its own if there are no entities at all; relations
\* with an unknown end are dropped, and so are those whose ends are not stored.
ReadGraph(x, c) ==
    /\ stage[x] = "construction" /\ job[x][c].at = "queued"
    /\ \E id \in [UNION {{r[1], r[2]} : r \in Related[c]} -> Names] :
          /\ \A n \in DOMAIN id : id[n] \in IF IdsOf(n) = {} THEN {n} ELSE IdsOf(n)
          /\ LET valid == {r \in {<<id[r[1]], id[r[2]]>> : r \in Related[c]} : Stored(r[1]) /\ Stored(r[2])} IN
             Become(x, c, IF valid = {} THEN Writing("failed") ELSE [NoJob EXCEPT !.at = "edge", !.todo = valid])
    /\ met' = met \cup Meetings(x, c)
    /\ UNCHANGED <<status, graphVars, stage, detected, cleaning, late, hurt, boundVars>>

FindRelation(x, c, e) ==
    LET j == job[x][c] IN
    /\ j.at = "edge" /\ e \in j.todo
    /\ Become(x, c, [j EXCEPT !.at = "put", !.to = e, !.gone = ~Linked(e), !.fresh = c \notin Sources(relations[e])])
    /\ UNCHANGED <<status, graphVars, stage, detected, cleaning, historyVars, boundVars>>

\* The handler goes on with the chunk's other relations.
NextRelation(x, c) ==
    LET rest == job[x][c].todo \ {job[x][c].to} IN
    Become(x, c, IF rest = {} THEN Writing("completed") ELSE [NoJob EXCEPT !.at = "edge", !.todo = rest])

\* A relation stored now may be missing from the graph a detection has read.
Belated(c) == Detecting \/ status[c].community = "completed"

\* Broken: an existing relation does not get the chunk as a source.
StoreRelation_NoSource(x, c) ==
    LET j == job[x][c] IN
    /\ j.at = "put"
    /\ relations' = [relations EXCEPT ![j.to] = IF @ = <<>> THEN <<[count |-> 1, sources |-> {c}]>> ELSE @]
    /\ late' = IF Belated(c) THEN late \cup {c} ELSE late
    /\ NextRelation(x, c)
    /\ UNCHANGED <<status, entities, mentions, communities, indexed, stage, detected, cleaning, met, hurt, boundVars>>

\* insert_one where nothing was found: a DuplicateKeyError is logged like any
\* other.  update_one where something was found: no document, no update.
StoreRelation(x, c) ==
    LET j    == job[x][c]
        e    == j.to
        docs == relations[e]
        more == IF j.fresh THEN 1 ELSE 0
        Updated  == [docs EXCEPT ![1] = [count |-> docs[1].count + more, sources |-> docs[1].sources \cup {c}]]
        Inserted == Append(docs, [count |-> 1, sources |-> {c}])
    IN
    /\ j.at = "put"
    /\ relations' = [relations EXCEPT ![e] =
          IF j.gone THEN IF Linked(e) /\ "relations" \in indexed THEN docs ELSE Inserted
          ELSE IF Linked(e) THEN Updated ELSE docs]
    /\ late' = IF Belated(c) THEN late \cup {c} ELSE late
    /\ NextRelation(x, c)
    /\ UNCHANGED <<status, entities, mentions, communities, indexed, stage, detected, cleaning, met, hurt, boundVars>>

StoreRelationFails(x, c) ==
    /\ job[x][c].at = "put" /\ Upset
    /\ hurt' = hurt \cup {c}
    /\ NextRelation(x, c)
    /\ UNCHANGED <<status, graphVars, stage, detected, cleaning, met, late, runs>>

-----------------------------------------------------------------------------
(* Community detection: CommunityDetectionStage.handle_doc, under the lock of *)
(* the execution's stage object                                               *)

Locked(x) == \E c \in Chunks : job[x][c].at \in {"store", "batch"}

\* Communities exist: nothing is done for the chunk.
DetectSkip(x, c) ==
    /\ stage[x] = "community" /\ job[x][c].at = "queued" /\ ~Locked(x)
    /\ detected[x] \/ communities.stored
    /\ Return(x, c)
    /\ UNCHANGED <<status, graphVars, cleaning, historyVars, boundVars>>

\* No entities, no communities of them, or no summaries.
DetectNothing(x, c) ==
    /\ stage[x] = "community" /\ job[x][c].at = "queued" /\ ~Locked(x)
    /\ ~detected[x] /\ ~communities.stored
    /\ Become(x, c, Writing("failed"))
    /\ UNCHANGED <<status, graphVars, stage, detected, cleaning, historyVars, boundVars>>

\* The whole graph is read.  The search for an earlier run with the same graph
\* finds none, because no run document ever becomes completed.
Detect(x, c) ==
    /\ stage[x] = "community" /\ job[x][c].at = "queued" /\ ~Locked(x)
    /\ ~detected[x] /\ ~communities.stored
    /\ \E n \in Names : Stored(n)
    /\ Become(x, c, [NoJob EXCEPT !.at = "store", !.todo = {e \in Edges : Linked(e)}])
    /\ UNCHANGED <<status, graphVars, stage, detected, cleaning, historyVars, boundVars>>

\* Community ids are hashes of their entities: a community that another run has
\* stored since is not brought up to date, for _update_existing_community is
\* called with more arguments than it takes.
StoreCommunities(x, c) ==
    /\ job[x][c].at = "store"
    /\ \E over \in {communities.over \cup job[x][c].todo} \cup (IF communities.stored THEN {communities.over} ELSE {}) :
          communities' = [stored |-> TRUE, over |-> over]
    /\ detected' = [detected EXCEPT ![x] = TRUE]
    /\ Become(x, c, [NoJob EXCEPT !.at = "batch"])
    /\ UNCHANGED <<status, entities, relations, mentions, indexed, stage, cleaning, historyVars, boundVars>>

\* Every insert fails and is logged: the detection still counts as done.
StoreCommunitiesFails(x, c) ==
    /\ job[x][c].at = "store" /\ Upset
    /\ hurt' = Chunks
    /\ detected' = [detected EXCEPT ![x] = TRUE]
    /\ Become(x, c, [NoJob EXCEPT !.at = "batch"])
    /\ UNCHANGED <<status, graphVars, stage, cleaning, met, late, runs>>

\* Broken: the construction status is not among the conditions.
BatchUpdate_All(x, c) ==
    /\ job[x][c].at = "batch"
    /\ status' = [d \in Chunks |-> [status[d] EXCEPT !.community = "completed"]]
    /\ Return(x, c)
    /\ UNCHANGED <<graphVars, cleaning, historyVars, boundVars>>

\* _batch_update_all_chunks: every constructed chunk, in the snapshot or not.
BatchUpdate(x, c) ==
    /\ job[x][c].at = "batch"
    /\ status' = [d \in Chunks |-> IF status[d].construction = "completed"
                                   THEN [status[d] EXCEPT !.community = "completed"] ELSE status[d]]
    /\ Return(x, c)
    /\ UNCHANGED <<graphVars, cleaning, historyVars, boundVars>>

-----------------------------------------------------------------------------
(* Around the stages *)

Twice(docs) == Len(docs) > 1

\* setup of a full pipeline run: a unique index cannot be built over duplicates,
\* which ends the setup, save for that of the mentions.
CreateIndexes(x) ==
    /\ stage[x] = "none"
    /\ indexed' = IF \E n \in Names : Twice(entities[n]) THEN indexed
                  ELSE IF \E e \in Edges : Twice(relations[e]) THEN indexed \cup {"entities"}
                  ELSE IF \E p \in Names \X Chunks : mentions[p] > 1 THEN indexed \cup {"entities", "relations"}
                  ELSE Unique
    /\ indexed' # indexed
    /\ UNCHANGED <<status, entities, relations, mentions, communities, stage, detected, job, cleaning, historyVars, boundVars>>

\* clean_graphrag_data: the check for running pipelines finds none, because their
\* entries do not carry the database's name.  The collections go with their
\* indexes, then the statuses of all chunks.  The marks of chunks that no handler
\* has in hand go with what they left in the collections.
DropCollections ==
    /\ ~cleaning /\ Upset
    /\ cleaning' = TRUE
    /\ entities' = [n \in Names |-> <<>>]
    /\ relations' = [e \in Edges |-> <<>>]
    /\ mentions' = [p \in Names \X Chunks |-> 0]
    /\ communities' = [stored |-> FALSE, over |-> {}]
    /\ indexed' = {}
    /\ hurt' = InHand /\ late' = {} /\ met' = {m \in met : m[2] \subseteq InHand}
    /\ UNCHANGED <<status, stage, detected, job, runs>>

ResetChunks ==
    /\ cleaning
    /\ cleaning' = FALSE
    /\ status' = [c \in Chunks |-> [s \in Stages |-> "absent"]]
    /\ hurt' = hurt \cup InHand
    /\ UNCHANGED <<graphVars, stage, detected, job, met, late, boundVars>>

\* clean_stage_status: the chosen stages only.
CleanStatus(s) ==
    /\ Upset
    /\ status' = [c \in Chunks |-> [status[c] EXCEPT ![s] = "absent"]]
    /\ UNCHANGED <<graphVars, stage, detected, job, cleaning, historyVars, runs>>

\* The process dies with all its executions.
Crash ==
    /\ \E x \in Executions : stage[x] # "none"
    /\ Upset
    /\ stage' = [x \in Executions |-> "none"]
    /\ detected' = [x \in Executions |-> FALSE]
    /\ job' = [x \in Executions |-> [c \in Chunks |-> NoJob]]
    /\ cleaning' = FALSE
    /\ hurt' = IF cleaning THEN Chunks ELSE hurt
    /\ UNCHANGED <<status, graphVars, met, late, runs>>

\* A thread of the pool is free for the chunk.
MayGoOn(x, c) ==
    job[x][c].at = "queued" => Cardinality({w \in Executions \X Chunks : AtWork(w[1], w[2])}) < MaxHandlers

Handle(x, c) ==
    /\ MayGoOn(x, c)
    /\ \/ WriteStatus(x, c) \/ WriteFails(x, c) \/ HandlerRaises(x, c)
       \/ \E out \in Outcomes \ {"absent"} : Extract(x, c, out)
       \/ LookUpEntity(x, c) \/ UpsertEntity(x, c) \/ StoreEntityFails(x, c) \/ StoreMentions(x, c)
       \/ ReadGraph(x, c) \/ \E e \in Edges : FindRelation(x, c, e)
       \/ StoreRelation(x, c) \/ StoreRelationFails(x, c)
       \/ DetectSkip(x, c) \/ DetectNothing(x, c) \/ Detect(x, c)
       \/ StoreCommunities(x, c) \/ StoreCommunitiesFails(x, c) \/ BatchUpdate(x, c)

Next ==
    \/ \E x \in Executions :
          \/ \E s \in Stages : StartStage(x, s)
          \/ CreateIndexes(x)
          \/ \E c \in Chunks : Handle(x, c)
    \/ DropCollections \/ ResetChunks \/ Crash
    \/ \E s \in Stages : CleanStatus(s)

Spec == Init /\ [][Next]_vars

-----------------------------------------------------------------------------

TypeOK ==
    /\ status \in [Chunks -> [Stages -> Outcomes]]
    /\ \A n \in Names : \A i \in DOMAIN entities[n] :
          entities[n][i] \in [count : Nat, sources : SUBSET Chunks, aliases : SUBSET Names]
    /\ \A e \in Edges : \A i \in DOMAIN relations[e] : relations[e][i] \in [count : Nat, sources : SUBSET Chunks]
    /\ mentions \in [Names \X Chunks -> Nat]
    /\ communities \in [stored : BOOLEAN, over : SUBSET Edges]
    /\ indexed \subseteq Unique
    /\ stage \in [Executions -> Stages \cup {"none"}]
    /\ detected \in [Executions -> BOOLEAN]
    /\ job \in [Executions -> [Chunks -> Jobs]]
    /\ cleaning \in BOOLEAN
    /\ met \subseteq Stages \X SUBSET Chunks /\ late \subseteq Chunks /\ hurt \subseteq Chunks
    /\ runs \in 0..MaxRuns /\ upsets \in 0..MaxUpsets

\* Nothing refers to an entity that is not there: every mention, and both ends of
\* every relation, lead to a stored entity, unless an error of the chunk they come
\* from was swallowed or the collections were dropped under its handler.
\* (validate_entity_existence; StoreEntityFails keeps the id of what it lost.)
ReferencesResolve ==
    /\ \A n \in Names, c \in Chunks : mentions[<<n, c>>] > 0 => Stored(n) \/ c \in hurt
    /\ \A e \in Edges : Linked(e) => \/ Stored(e[1]) /\ Stored(e[2])
                                     \/ AllSources(relations[e]) \cap hurt # {}

\* Handlers of one stage were at work on these two chunks (or twice on one) at
\* the same time.
Met(s, c, d) == <<s, {c, d}>> \in met

\* A thing has one entity: two documents for one id, or for two names that find
\* each other, stem from handlers that resolved them at the same time.
\* (find_one, _find_db_candidates and the upsert are separate calls.)
TwinsWereRaced ==
    \A n, m \in Names :
        \/ n = m /\ Twice(entities[n])
        \/ n # m /\ Stored(n) /\ Stored(m) /\ {<<n, m>>, <<m, n>>} \subseteq Finds
        => \E c \in AllSources(entities[n]), d \in AllSources(entities[m]) : Met("resolution", c, d)

\* source_count counts the chunks in source_chunks, unless a chunk among them was
\* in the hands of two handlers at once or of one during a clean.
CountsAreTrue ==
    LET True(s, docs) == \A i \in DOMAIN docs :
            \/ docs[i].count = Cardinality(docs[i].sources)
            \/ \E c \in docs[i].sources : Met(s, c, c) \/ c \in hurt
    IN /\ \A n \in Names : True("resolution", entities[n])
       /\ \A e \in Edges : True("construction", relations[e])

\* A chunk whose construction is completed is among the sources of its relations:
\* of one at least, and of all whose names are its own, unless an insert lost a
\* race with another handler and the error was swallowed, or a clean came between.
CompletedIsStored ==
    LET Own(c)     == {Mentioned[c][i] : i \in DOMAIN Mentioned[c]}
        Kept(c, r) == \E a \in IdsOf(r[1]), b \in IdsOf(r[2]) : c \in AllSources(relations[<<a, b>>])
    IN \A c \in Chunks : status[c].construction = "completed" /\ ~cleaning =>
          \/ c \in hurt
          \/ \E d \in Chunks : Met("construction", c, d)
          \/ /\ \E r \in Related[c] : Kept(c, r)
             /\ \A r \in Related[c] : {r[1], r[2]} \subseteq Own(c) => Kept(c, r)

\* A chunk whose communities are completed has its relations in the graph that the
\* stored communities were detected over, unless one was stored while a detection
\* was under way or when the status was already written.  (_batch_update_all_chunks
\* marks every constructed chunk, whatever the detection has read.)
CompletedIsCovered ==
    \A c \in Chunks : status[c].community = "completed" /\ ~cleaning /\ c \notin late \cup hurt =>
        communities.stored /\ \A e \in Edges : c \in AllSources(relations[e]) => e \in communities.over

\* "Communities already exist - all chunks updated by bulk operation. Just skip (no
\* need for individual update, batch update handles all)": a chunk is skipped only
\* when its status is completed.  (community_detection.py, handle_doc.)
SkippedWasUpdated ==
    [][\A x \in Executions, c \in Chunks : DetectSkip(x, c) => status[c].community = "completed"]_vars

=============================================================================
