--------------------------- MODULE KnowledgeProofs ---------------------------
(***************************************************************************)
(* Proofs about KnowledgeGraph for any chunks, names, executions, extracted *)
(* mentions and relations, matches and bounds: type correctness and the    *)
(* five safety invariants of the stages.                                   *)
(***************************************************************************)
EXTENDS KnowledgeGraph, TLAPS, FiniteSetTheorems, SequenceTheorems

-----------------------------------------------------------------------------
(* The invariant *)

EntityDocs   == [count : Nat, sources : SUBSET Chunks, aliases : SUBSET Names]
RelationDocs == [count : Nat, sources : SUBSET Chunks]

\* The collections hold sequences of documents.
DocsInv ==
    /\ entities \in [Names -> Seq(EntityDocs)]
    /\ relations \in [Edges -> Seq(RelationDocs)]

\* Where a handler can be once it has read what its stage reads.
Resolving    == {"entity", "upsert"}
Constructing == {"edge", "put"}
InLock       == {"store", "batch"}

\* A handler is at a step of the stage its execution runs, with what that step needs.
ShapeOf(s, c, j) ==
    /\ s = "none" => j.at = "none"
    /\ j.at \in Resolving => s = "resolution" /\ Len(j.ids) \in 0..Len(Mentioned[c])
    /\ j.at = "upsert" => Len(j.ids) < Len(Mentioned[c]) /\ \E m \in Names : j.to = <<m>>
    /\ j.at \in Constructing => s = "construction"
    /\ j.at = "put" => j.to \in Edges /\ j.to \in j.todo
    /\ j.at \in InLock => s = "community"
    /\ j.at = "write" /\ s = "community" => j.out = "failed"
    /\ j.at \notin Resolving => j.ids = <<>>

ShapeInv == \A x \in Executions, c \in Chunks : ShapeOf(stage[x], c, job[x][c])

\* What a handler is about to refer to is stored, or its chunk is hurt.
Resolves(j) ==
    /\ \A i \in DOMAIN j.ids : Stored(j.ids[i])
    /\ j.at \in Constructing => \A e \in j.todo : Stored(e[1]) /\ Stored(e[2])

HeldResolves == \A x \in Executions, c \in Chunks : c \in hurt \/ Resolves(job[x][c])

ReferenceInv == HeldResolves /\ ReferencesResolve

\* Two handlers of a stage that have both read have met.
TogetherInv ==
    \A x, y \in Executions, c, d \in Chunks : x # y \/ c # d =>
        /\ job[x][c].at \in Resolving /\ job[y][d].at \in Resolving => Met("resolution", c, d)
        /\ job[x][c].at \in Constructing /\ job[y][d].at \in Constructing => Met("construction", c, d)

\* The chunk met one that docs came from.
MetOneOf(s, c, docs) == \E d \in AllSources(docs) : Met(s, c, d)

\* What a handler that looked in vain would insert has twins only of handlers it met.
RacedInv ==
    \A x \in Executions, c \in Chunks, m \in Names :
        job[x][c].at = "upsert" /\ job[x][c].to = <<m>> =>
            /\ job[x][c].gone /\ Stored(m) => MetOneOf("resolution", c, entities[m])
            /\ ~Stored(m) => \A n \in Names : n # m /\ Stored(n) /\ <<m, n>> \in Finds =>
                                                   MetOneOf("resolution", c, entities[n])

TwinInv == RacedInv /\ TwinsWereRaced

\* What a handler has read of a document's sources still holds, or it knows why not.
FreshOf(s, c, j, docs) ==
    /\ j.gone => j.fresh
    /\ j.fresh /\ c \in Sources(docs) => Met(s, c, c)
    /\ ~j.fresh => c \in Sources(docs) \/ c \in hurt

FreshInv ==
    \A x \in Executions, c \in Chunks :
        /\ \A m \in Names : job[x][c].at = "upsert" /\ job[x][c].to = <<m>> =>
                                FreshOf("resolution", c, job[x][c], entities[m])
        /\ \A e \in Edges : job[x][c].at = "put" /\ job[x][c].to = e =>
                                FreshOf("construction", c, job[x][c], relations[e])

FiniteInv ==
    /\ \A n \in Names : \A i \in DOMAIN entities[n] : IsFiniteSet(entities[n][i].sources)
    /\ \A e \in Edges : \A i \in DOMAIN relations[e] : IsFiniteSet(relations[e][i].sources)

CountInv == FreshInv /\ FiniteInv /\ CountsAreTrue

-----------------------------------------------------------------------------

\* The chunk's first k names stand for ids.
Named(c, k) == \A i \in 1..k : IdsOf(Mentioned[c][i]) # {}

\* Every name of a resolved chunk stands for an id.
ResolvedInv ==
    \A c \in Chunks :
        \/ cleaning \/ c \in hurt
        \/ /\ status[c].resolution = "completed" => Named(c, Len(Mentioned[c]))
           /\ \A x \in Executions :
                 /\ job[x][c].at \in Resolving => Named(c, Len(job[x][c].ids))
                 /\ \/ stage[x] = "resolution" /\ job[x][c].at = "write" /\ job[x][c].out = "completed"
                    \/ stage[x] = "construction" /\ job[x][c].at = "queued"
                    => Named(c, Len(Mentioned[c]))

\* The relation is stored with the chunk as a source, or is still to be.
KeptOr(c, r, todo) ==
    \E a \in IdsOf(r[1]), b \in IdsOf(r[2]) : <<a, b>> \in todo \/ c \in AllSources(relations[<<a, b>>])

Own(c) == {Mentioned[c][i] : i \in DOMAIN Mentioned[c]}

Stowed(c, todo) ==
    /\ \E r \in Related[c] : KeptOr(c, r, todo)
    /\ \A r \in Related[c] : {r[1], r[2]} \subseteq Own(c) => KeptOr(c, r, todo)

\* What excuses a chunk that is not.
Excused(c) == cleaning \/ c \in hurt \/ \E d \in Chunks : Met("construction", c, d)

StowedInv ==
    \A c \in Chunks :
        \/ Excused(c)
        \/ /\ status[c].construction = "completed" => Stowed(c, {})
           /\ \A x \in Executions :
                 /\ job[x][c].at \in Constructing => Stowed(c, job[x][c].todo)
                 /\ stage[x] = "construction" /\ job[x][c].at = "write" /\ job[x][c].out = "completed" => Stowed(c, {})

\* An insert that another one has overtaken met it, and an update has its document.
InsertInv ==
    \A x \in Executions, c \in Chunks, e \in Edges : job[x][c].at = "put" /\ job[x][c].to = e =>
        /\ job[x][c].gone /\ Linked(e) => \E d \in Chunks : Met("construction", c, d)
        /\ ~job[x][c].gone => Linked(e) \/ c \in hurt

-----------------------------------------------------------------------------

\* The relations of a chunk that nothing excuses are among edges.
Covered(edges) ==
    \A c \in Chunks, e \in Edges : c \notin late \cup hurt /\ c \in AllSources(relations[e]) => e \in edges

\* A detection has read every relation but those of the late and the hurt, and so
\* have the communities that are there while one is under way.
ReadInv ==
    /\ \A x \in Executions, d \in Chunks : job[x][d].at = "store" => Covered(job[x][d].todo)
    /\ Detecting /\ communities.stored => Covered(communities.over)

\* No chunk is, or is about to be, marked by a detection whose communities are gone.
GoneInv ==
    ~communities.stored /\ (\E x \in Executions, d \in Chunks : job[x][d].at = "batch") =>
        \A c \in Chunks : c \in late \cup hurt \/
            /\ status[c].construction = "completed" => cleaning
            /\ \A x \in Executions : ~(/\ stage[x] = "construction"
                                       /\ job[x][c].at = "write" /\ job[x][c].out = "completed")

CoverInv == ReadInv /\ GoneInv /\ CompletedIsCovered

IInv ==
    /\ TypeOK /\ DocsInv /\ ShapeInv
    /\ ReferenceInv /\ TogetherInv /\ TwinInv /\ CountInv
    /\ ResolvedInv /\ StowedInv /\ InsertInv /\ CoverInv

-----------------------------------------------------------------------------
(* Types *)

IType == TypeOK /\ DocsInv /\ ShapeInv

\* An empty hand, and one about to write, are handlers.
LEMMA Hands ==
    /\ NoJob \in Jobs /\ NoJob.at = "none" /\ NoJob.ids = <<>>
    /\ \A out \in Outcomes : Writing(out) \in Jobs
  BY EmptySeq DEF NoJob, Jobs, Writing, Outcomes

\* What the fields of a handler are.
LEMMA JobFields ==
    ASSUME IType, NEW x \in Executions, NEW c \in Chunks
    PROVE  /\ job[x][c] \in Jobs /\ stage[x] \in Stages \cup {"none"}
           /\ job[x][c].ids \in Seq(Names) /\ job[x][c].todo \in SUBSET Edges
           /\ job[x][c].gone \in BOOLEAN /\ job[x][c].fresh \in BOOLEAN
           /\ job[x][c].out \in Outcomes
           /\ ShapeOf(stage[x], c, job[x][c])
           /\ Mentioned[c] \in Seq(Names) /\ Len(Mentioned[c]) \in Nat
  <1>1. job[x][c] \in Jobs
    BY DEF IType, TypeOK
  <1>2. Mentioned[c] \in Seq(Names) /\ Len(Mentioned[c]) \in Nat
    BY KnowledgeGraphAssumption, LenProperties DEF KnowledgeGraphAssumption
  <1> QED
    BY <1>1, <1>2 DEF IType, TypeOK, ShapeInv, Jobs

\* Become changes one handler.
LEMMA BecomeOne ==
    ASSUME IType, NEW x \in Executions, NEW c \in Chunks, NEW j \in Jobs, Become(x, c, j)
    PROVE  /\ job' \in [Executions -> [Chunks -> Jobs]]
           /\ job'[x][c] = j
           /\ \A y \in Executions, d \in Chunks : y # x \/ d # c => job'[y][d] = job[y][d]
  BY DEF Become, IType, TypeOK

\* It keeps the shape of all if the new handler has it.
LEMMA BecomeShape ==
    ASSUME IType, NEW x \in Executions, NEW c \in Chunks, NEW j \in Jobs, Become(x, c, j),
           stage' = stage, ShapeOf(stage[x], c, j)
    PROVE  job' \in [Executions -> [Chunks -> Jobs]] /\ ShapeInv'
  <1>1. job' \in [Executions -> [Chunks -> Jobs]]
    BY BecomeOne
  <1>2. ASSUME NEW y \in Executions, NEW d \in Chunks PROVE ShapeOf(stage[y], d, job'[y][d])
    <2>1. ShapeOf(stage[y], d, job[y][d])
      BY JobFields
    <2>2. job'[y][d] = job[y][d] \/ (y = x /\ d = c /\ job'[y][d] = j)
      BY BecomeOne
    <2> QED
      BY <2>1, <2>2
  <1> QED
    BY <1>1, <1>2 DEF ShapeInv

\* Whoever returns leaves an empty hand, and no stage if it is the last.
LEMMA ReturnShape ==
    ASSUME IType, NEW x \in Executions, NEW c \in Chunks, Return(x, c)
    PROVE  /\ stage' \in [Executions -> Stages \cup {"none"}]
           /\ detected' \in [Executions -> BOOLEAN]
           /\ job' \in [Executions -> [Chunks -> Jobs]]
           /\ job'[x][c] = NoJob
           /\ \A y \in Executions, d \in Chunks : y # x \/ d # c => job'[y][d] = job[y][d]
           /\ \A y \in Executions, d \in Chunks : stage'[y] = stage[y] \/ job'[y][d].at = "none"
           /\ ShapeInv'
  <1>1. /\ job' \in [Executions -> [Chunks -> Jobs]]
        /\ job'[x][c] = NoJob
        /\ \A y \in Executions, d \in Chunks : y # x \/ d # c => job'[y][d] = job[y][d]
    BY Hands, BecomeOne DEF Return
  <1>2. /\ stage' \in [Executions -> Stages \cup {"none"}]
        /\ detected' \in [Executions -> BOOLEAN]
    BY DEF Return, IType, TypeOK
  <1>3. \A y \in Executions, d \in Chunks : stage'[y] = stage[y] \/ job'[y][d].at = "none"
    <2> TAKE y \in Executions, d \in Chunks
    <2>1. CASE y # x
      BY <2>1 DEF Return, IType, TypeOK
    <2>2. CASE y = x /\ d # c /\ job[x][d].at # "none"
      BY <2>2 DEF Return, IType, TypeOK
    <2> QED
      BY <1>1, <2>1, <2>2, Hands
  <1>4. ASSUME NEW y \in Executions, NEW d \in Chunks PROVE ShapeOf(stage'[y], d, job'[y][d])
    <2>1. CASE job'[y][d] = NoJob
      BY <2>1, Hands DEF ShapeOf, Resolving, Constructing, InLock
    <2>2. CASE job'[y][d] # NoJob
      <3>1. job'[y][d] = job[y][d]
        BY <2>2, <1>1
      <3>2. CASE stage'[y] = stage[y]
        BY <3>1, <3>2, JobFields
      <3>3. CASE job'[y][d].at = "none"
        BY <3>1, <3>3, JobFields DEF ShapeOf, Resolving, Constructing, InLock
      <3> QED
        BY <3>2, <3>3, <1>3
    <2> QED
      BY <2>1, <2>2
  <1> QED
    BY <1>1, <1>2, <1>3, <1>4 DEF ShapeInv

\* A handler about to write has the shape, if it says failed or is not of a detection.
LEMMA WritingShape ==
    ASSUME NEW s, NEW c, NEW out \in Outcomes, s # "none", s = "community" => out = "failed"
    PROVE  ShapeOf(s, c, Writing(out)) /\ Writing(out) \in Jobs
           /\ Writing(out).at = "write" /\ Writing(out).out = out /\ Writing(out).ids = <<>>
  BY Hands DEF ShapeOf, Writing, NoJob, Resolving, Constructing, InLock, Outcomes

-----------------------------------------------------------------------------
(* Documents *)

\* What a store does to the documents of one id: sources are only added, and only
\* the chunk; a second document appears only beside a first.
Grown(old, new, c) ==
    /\ old # <<>> => new # <<>>
    /\ Sources(old) \subseteq Sources(new) /\ Sources(new) \subseteq Sources(old) \cup {c}
    /\ AllSources(old) \subseteq AllSources(new)
    /\ Twice(new) => old # <<>>

\* The sources of the first document are among those of all.
LEMMA SourcesAreAll ==
    ASSUME NEW D, NEW docs \in Seq(D)
    PROVE  Sources(docs) \subseteq AllSources(docs)
  <1>1. docs # <<>> => 1 \in DOMAIN docs
    BY LenProperties, EmptySeq
  <1> QED
    BY <1>1 DEF Sources, AllSources

\* A document more at the end.
LEMMA AppendGrows ==
    ASSUME NEW D, NEW docs \in Seq(D), NEW doc \in D, NEW c, doc.sources = {c}
    PROVE  /\ Append(docs, doc) \in Seq(D)
           /\ Grown(docs, Append(docs, doc), c)
           /\ c \in AllSources(Append(docs, doc))
           /\ \A i \in DOMAIN Append(docs, doc) :
                 Append(docs, doc)[i] = doc \/ (i \in DOMAIN docs /\ Append(docs, doc)[i] = docs[i])
           /\ \A i \in DOMAIN docs : i \in DOMAIN Append(docs, doc) /\ Append(docs, doc)[i] = docs[i]
           /\ \E i \in DOMAIN Append(docs, doc) : Append(docs, doc)[i] = doc
           /\ Append(docs, doc) # <<>>
  <1> DEFINE new == Append(docs, doc)
  <1>1. /\ new \in Seq(D) /\ Len(new) = Len(docs) + 1 /\ new # <<>>
        /\ \A i \in 1..Len(docs) : new[i] = docs[i]
        /\ new[Len(docs) + 1] = doc
    BY AppendProperties
  <1>2. Len(docs) \in Nat /\ DOMAIN docs = 1..Len(docs) /\ DOMAIN new = 1..(Len(docs) + 1)
    BY <1>1, LenProperties
  <1>3. \A i \in DOMAIN docs : i \in DOMAIN new /\ new[i] = docs[i]
    BY <1>1, <1>2
  <1>4. Len(docs) + 1 \in DOMAIN new
    BY <1>2
  <1>5. AllSources(docs) \subseteq AllSources(new) /\ c \in AllSources(new)
    BY <1>1, <1>3, <1>4 DEF AllSources
  <1>6. CASE docs = <<>>
    <2>1. Len(docs) = 0
      BY <1>6, EmptySeq
    <2>2. new[1] = doc
      BY <1>1, <2>1
    <2>3. ~Twice(new) /\ Sources(new) = {c} /\ Sources(docs) = {}
      BY <1>1, <1>6, <2>1, <2>2 DEF Twice, Sources
    <2> QED
      BY <1>1, <1>2, <1>3, <1>4, <1>5, <2>3 DEF Grown
  <1>7. CASE docs # <<>>
    <2>1. 1 \in DOMAIN docs
      BY <1>2, <1>7, EmptySeq
    <2>2. Sources(new) = Sources(docs)
      BY <1>1, <1>3, <1>7, <2>1 DEF Sources
    <2> QED
      BY <1>1, <1>2, <1>3, <1>4, <1>5, <1>7, <2>2 DEF Grown
  <1> QED
    BY <1>6, <1>7

\* The documents with another first one.
FirstIs(docs, doc) == [docs EXCEPT ![1] = doc]

\* Only the first is another.
LEMMA FirstParts ==
    ASSUME NEW D, NEW docs \in Seq(D), docs # <<>>, NEW doc \in D
    PROVE  /\ FirstIs(docs, doc) \in Seq(D)
           /\ DOMAIN FirstIs(docs, doc) = DOMAIN docs /\ 1 \in DOMAIN docs
           /\ FirstIs(docs, doc)[1] = doc
           /\ \A i \in DOMAIN docs : i # 1 => FirstIs(docs, doc)[i] = docs[i]
           /\ Len(FirstIs(docs, doc)) = Len(docs)
           /\ FirstIs(docs, doc) # <<>>
  <1>1. Len(docs) \in Nat /\ DOMAIN docs = 1..Len(docs) /\ 1 \in 1..Len(docs)
    BY LenProperties, EmptySeq
  <1>2. /\ FirstIs(docs, doc) \in Seq(D) /\ Len(FirstIs(docs, doc)) = Len(docs)
        /\ \A i \in 1..Len(docs) : FirstIs(docs, doc)[i] = IF i = 1 THEN doc ELSE docs[i]
    BY <1>1, ExceptSeq DEF FirstIs
  <1>3. DOMAIN FirstIs(docs, doc) = 1..Len(docs)
    BY <1>1 DEF FirstIs
  <1> QED
    BY <1>1, <1>2, <1>3, EmptySeq

\* The first document gets the chunk as a source, the others stay.
LEMMA FirstGrows ==
    ASSUME NEW D, NEW docs \in Seq(D), docs # <<>>, NEW doc \in D, NEW c,
           doc.sources = docs[1].sources \cup {c}
    PROVE  /\ Grown(docs, FirstIs(docs, doc), c)
           /\ c \in AllSources(FirstIs(docs, doc)) /\ c \in Sources(FirstIs(docs, doc))
  <1>1. PICK new \in Seq(D) :
           /\ new = FirstIs(docs, doc)
           /\ DOMAIN new = DOMAIN docs /\ 1 \in DOMAIN docs /\ new[1] = doc /\ Len(new) = Len(docs) /\ new # <<>>
           /\ \A i \in DOMAIN docs : i # 1 => new[i] = docs[i]
    BY FirstParts
  <1>2. Sources(new) = Sources(docs) \cup {c}
    BY <1>1 DEF Sources
  <1>3. AllSources(docs) \subseteq AllSources(new) /\ c \in AllSources(new)
    <2>1. ASSUME NEW i \in DOMAIN docs PROVE i \in DOMAIN new /\ docs[i].sources \subseteq new[i].sources
      BY <1>1, <2>1
    <2>2. c \in new[1].sources /\ 1 \in DOMAIN new
      BY <1>1
    <2> QED
      BY <2>1, <2>2 DEF AllSources
  <1> QED
    BY <1>1, <1>2, <1>3 DEF Grown

\* Documents that stay grow too.
LEMMA SameGrows ==
    ASSUME NEW D, NEW docs \in Seq(D), NEW c
    PROVE  Grown(docs, docs, c)
  <1>1. Twice(docs) => docs # <<>>
    BY EmptySeq DEF Twice
  <1> QED
    BY <1>1 DEF Grown

-----------------------------------------------------------------------------
(* What a store leaves behind *)

\* The document an upsert inserts, and the one an update makes of the first.
NewEntity(c, more, alias) == [count |-> more, sources |-> {c}, aliases |-> alias]
NextEntity(doc, c, more, alias) ==
    [count |-> doc.count + more, sources |-> doc.sources \cup {c}, aliases |-> doc.aliases \cup alias]

NewRelation(c) == [count |-> 1, sources |-> {c}]
NextRelationDoc(doc, c, more) == [count |-> doc.count + more, sources |-> doc.sources \cup {c}]

More(j) == IF j.fresh THEN 1 ELSE 0

\* An upsert inserts a document where there was none, or beside one that appeared
\* since it looked, and else updates the first.
UpsertOf(j, c, old, new) ==
    LET n == Mentioned[c][Len(j.ids) + 1]
        alias == IF j.to[1] = n THEN {} ELSE {n}
    IN  \/ /\ old = <<>> \/ j.gone
           /\ new = Append(old, NewEntity(c, More(j), alias))
        \/ /\ old # <<>>
           /\ new = FirstIs(old, NextEntity(old[1], c, More(j), alias))

\* What an update of one field makes of a document.
LEMMA FieldUpdates ==
    ASSUME NEW d \in EntityDocs
    PROVE  /\ \A more \in Nat : /\ [d EXCEPT !.count = @ + more] \in EntityDocs
                                /\ [d EXCEPT !.count = @ + more]
                                   = [count |-> d.count + more, sources |-> d.sources, aliases |-> d.aliases]
           /\ \A c \in Chunks : /\ [d EXCEPT !.sources = @ \cup {c}] \in EntityDocs
                                /\ [d EXCEPT !.sources = @ \cup {c}]
                                   = [count |-> d.count, sources |-> d.sources \cup {c}, aliases |-> d.aliases]
           /\ \A alias \in SUBSET Names :
                 [d EXCEPT !.aliases = @ \cup alias]
                 = [count |-> d.count, sources |-> d.sources, aliases |-> d.aliases \cup alias]
  <1>1. ASSUME NEW more \in Nat PROVE [d EXCEPT !.count = @ + more] \in EntityDocs
    BY DEF EntityDocs
  <1>2. ASSUME NEW more \in Nat
        PROVE  [d EXCEPT !.count = @ + more] = [count |-> d.count + more, sources |-> d.sources, aliases |-> d.aliases]
    BY DEF EntityDocs
  <1>3. ASSUME NEW c \in Chunks PROVE [d EXCEPT !.sources = @ \cup {c}] \in EntityDocs
    BY DEF EntityDocs
  <1>4. ASSUME NEW c \in Chunks
        PROVE  [d EXCEPT !.sources = @ \cup {c}] = [count |-> d.count, sources |-> d.sources \cup {c}, aliases |-> d.aliases]
    BY DEF EntityDocs
  <1>5. ASSUME NEW alias \in SUBSET Names
        PROVE  [d EXCEPT !.aliases = @ \cup alias] = [count |-> d.count, sources |-> d.sources, aliases |-> d.aliases \cup alias]
    BY DEF EntityDocs
  <1> QED
    BY <1>1, <1>2, <1>3, <1>4, <1>5

\* The update as the handler writes it makes the next document of the first.
Updated(docs, c, more, alias) ==
    [docs EXCEPT ![1].count = @ + more, ![1].sources = @ \cup {c}, ![1].aliases = @ \cup alias]

\* So written, the update is NextEntity of the first document, and well typed.
LEMMA UpdatedDoc ==
    ASSUME NEW docs \in Seq(EntityDocs), docs # <<>>, NEW c \in Chunks, NEW more \in Nat, NEW alias \in SUBSET Names
    PROVE  /\ Updated(docs, c, more, alias) = FirstIs(docs, NextEntity(docs[1], c, more, alias))
           /\ NextEntity(docs[1], c, more, alias) \in EntityDocs
  <1>1. docs \in [1..Len(docs) -> EntityDocs] /\ 1 \in 1..Len(docs)
    BY LenProperties, EmptySeq
  <1>2. PICK d \in EntityDocs : d = docs[1]
    BY <1>1
  <1>3. NextEntity(d, c, more, alias) \in EntityDocs
    BY DEF NextEntity, EntityDocs
  <1>4. PICK d1 \in EntityDocs : /\ d1 = [d EXCEPT !.count = @ + more]
                                 /\ d1 = [count |-> d.count + more, sources |-> d.sources, aliases |-> d.aliases]
    BY FieldUpdates
  <1>5. PICK d2 \in EntityDocs : /\ d2 = [d1 EXCEPT !.sources = @ \cup {c}]
                                 /\ d2 = [count |-> d1.count, sources |-> d1.sources \cup {c}, aliases |-> d1.aliases]
    BY FieldUpdates
  <1>6. [d2 EXCEPT !.aliases = @ \cup alias] = NextEntity(d, c, more, alias)
    <2>1. [d2 EXCEPT !.aliases = @ \cup alias] = [count |-> d2.count, sources |-> d2.sources, aliases |-> d2.aliases \cup alias]
      BY FieldUpdates
    <2>2. d2.count = d.count + more /\ d2.sources = d.sources \cup {c} /\ d2.aliases = d.aliases
      BY <1>4, <1>5
    <2> QED
      BY <2>1, <2>2 DEF NextEntity
  <1>7. [docs EXCEPT ![1].count = @ + more] = [docs EXCEPT ![1] = d1]
    BY <1>1, <1>2, <1>4
  <1>8. [[docs EXCEPT ![1] = d1] EXCEPT ![1].sources = @ \cup {c}] = [docs EXCEPT ![1] = d2]
    BY <1>1, <1>5
  <1>9. [[docs EXCEPT ![1] = d2] EXCEPT ![1].aliases = @ \cup alias] = [docs EXCEPT ![1] = NextEntity(d, c, more, alias)]
    BY <1>1, <1>6
  <1>10. [docs EXCEPT ![1].count = @ + more, ![1].sources = @ \cup {c}, ![1].aliases = @ \cup alias]
         = [[[docs EXCEPT ![1].count = @ + more] EXCEPT ![1].sources = @ \cup {c}] EXCEPT ![1].aliases = @ \cup alias]
    OBVIOUS
  <1> QED
    BY <1>2, <1>3, <1>7, <1>8, <1>9, <1>10 DEF Updated, FirstIs

\* UpsertEntity stores an upsert of the entity in hand, and nothing else.
LEMMA UpsertStores ==
    ASSUME IType, NEW x \in Executions, NEW c \in Chunks, UpsertEntity(x, c)
    PROVE  \E m \in Names, docs \in Seq(EntityDocs) :
              /\ job[x][c].to = <<m>> /\ entities[m] \in Seq(EntityDocs)
              /\ UpsertOf(job[x][c], c, entities[m], docs)
              /\ entities' = [entities EXCEPT ![m] = docs]
              /\ Become(x, c, [NoJob EXCEPT !.at = "entity", !.ids = Append(job[x][c].ids, m)])
  <1> DEFINE j == job[x][c]
  <1>1. j.at = "upsert"
    BY DEF UpsertEntity
  <1>2. PICK m \in Names : j.to = <<m>>
    BY <1>1, JobFields DEF ShapeOf
  <1>3. j.to[1] = m /\ j.fresh \in BOOLEAN /\ j.gone \in BOOLEAN
    BY <1>2, JobFields
  <1> DEFINE n == Mentioned[c][Len(j.ids) + 1]
             alias == IF m = n THEN {} ELSE {n}
             docs == entities[m]
             upd == FirstIs(docs, NextEntity(docs[1], c, More(j), alias))
             ins == Append(docs, NewEntity(c, More(j), alias))
  <1>4. n \in Names /\ More(j) \in Nat /\ alias \in SUBSET Names
    <2>1. Len(j.ids) \in Nat /\ Len(j.ids) < Len(Mentioned[c]) /\ Mentioned[c] \in Seq(Names)
      BY <1>1, JobFields, LenProperties DEF ShapeOf
    <2>2. Len(j.ids) + 1 \in 1..Len(Mentioned[c])
      BY <2>1, LenProperties
    <2>3. n \in Names
      BY <2>1, <2>2, ElementOfSeq
    <2> QED
      BY <2>3 DEF More
  <1>5. docs \in Seq(EntityDocs)
    BY DEF IType, DocsInv
  <1>6. NewEntity(c, More(j), alias) \in EntityDocs /\ ins \in Seq(EntityDocs)
    <2>1. NewEntity(c, More(j), alias) \in EntityDocs
      BY <1>4 DEF NewEntity, EntityDocs
    <2> QED
      BY <1>5, <2>1, AppendProperties
  <1>7. docs # <<>> => upd \in Seq(EntityDocs) /\ Updated(docs, c, More(j), alias) = upd
    <2> SUFFICES ASSUME docs # <<>>
                 PROVE  upd \in Seq(EntityDocs) /\ Updated(docs, c, More(j), alias) = upd
      OBVIOUS
    <2>1. 1 \in 1..Len(docs)
      BY <1>5, EmptySeq
    <2>2. /\ NextEntity(docs[1], c, More(j), alias) \in EntityDocs
          /\ Updated(docs, c, More(j), alias) = upd
      BY <1>4, <1>5, UpdatedDoc
    <2>3. upd \in Seq(EntityDocs)
      BY <1>5, <2>1, <2>2, ExceptSeq DEF FirstIs
    <2> QED
      BY <2>2, <2>3
  <1>8. PICK new : /\ entities' = [entities EXCEPT ![m] = new]
                   /\ \/ /\ docs = <<>> \/ j.gone
                         /\ new = ins
                      \/ /\ docs # <<>>
                         /\ new = Updated(docs, c, More(j), alias)
    BY <1>3 DEF UpsertEntity, Stored, NewEntity, More, Updated
  <1>9. new \in Seq(EntityDocs) /\ UpsertOf(j, c, docs, new)
    BY <1>3, <1>6, <1>7, <1>8 DEF UpsertOf
  <1>10. Become(x, c, [NoJob EXCEPT !.at = "entity", !.ids = Append(j.ids, m)])
    BY <1>3 DEF UpsertEntity
  <1> QED
    BY <1>2, <1>5, <1>8, <1>9, <1>10

\* Some document has the name as an alias.
Alias(docs, n) == \E i \in DOMAIN docs : n \in docs[i].aliases

\* What an upsert leaves of the documents of its entity.
LEMMA UpsertGrows ==
    ASSUME NEW j \in Jobs, NEW c \in Chunks, NEW m, j.to = <<m>>,
           NEW old \in Seq(EntityDocs), NEW new \in Seq(EntityDocs), UpsertOf(j, c, old, new),
           Mentioned[c][Len(j.ids) + 1] \in Names
    PROVE  /\ Grown(old, new, c) /\ new # <<>> /\ c \in AllSources(new)
           /\ Twice(new) => Twice(old) \/ (j.gone /\ old # <<>>)
           /\ \A n : Alias(old, n) => Alias(new, n)
           /\ m = Mentioned[c][Len(j.ids) + 1] \/ Alias(new, Mentioned[c][Len(j.ids) + 1])
  <1> DEFINE n0 == Mentioned[c][Len(j.ids) + 1]
             alias == IF m = n0 THEN {} ELSE {n0}
             ins == NewEntity(c, More(j), alias)
             upd == NextEntity(old[1], c, More(j), alias)
  <1>1. j.to[1] = m /\ j.fresh \in BOOLEAN
    BY DEF Jobs
  <1>2. More(j) \in Nat /\ alias \in SUBSET Names
    BY <1>1 DEF More
  <1>3. CASE new = Append(old, ins) /\ (old = <<>> \/ j.gone)
    <2>1. ins \in EntityDocs /\ ins.sources = {c} /\ ins.aliases = alias
      BY <1>2 DEF NewEntity, EntityDocs
    <2> HIDE DEF ins, alias
    <2>2. /\ Grown(old, new, c) /\ c \in AllSources(new) /\ new # <<>>
          /\ \A i \in DOMAIN old : i \in DOMAIN new /\ new[i] = old[i]
          /\ \E i \in DOMAIN new : new[i] = ins
      BY <1>3, <2>1, AppendGrows
    <2>3. Twice(new) => old # <<>>
      BY <2>2 DEF Grown
    <2>4. \A n : Alias(old, n) => Alias(new, n)
      BY <2>2 DEF Alias
    <2>5. m = n0 \/ Alias(new, n0)
      BY <2>1, <2>2 DEF Alias, alias
    <2> QED
      BY <1>3, <2>2, <2>3, <2>4, <2>5
  <1>4. CASE new = FirstIs(old, upd) /\ old # <<>>
    <2>0. upd \in EntityDocs /\ upd.sources = old[1].sources \cup {c} /\ upd.aliases = old[1].aliases \cup alias
      BY <1>2, <1>4, UpdatedDoc DEF NextEntity
    <2>1. PICK doc \in EntityDocs : /\ doc = upd
                                    /\ doc.sources = old[1].sources \cup {c} /\ doc.aliases = old[1].aliases \cup alias
      BY <2>0
    <2> HIDE DEF upd, alias
    <2>a. new = FirstIs(old, doc) /\ old # <<>> /\ doc.sources = old[1].sources \cup {c}
      BY <1>4, <2>1
    <2>b. Grown(old, new, c) /\ c \in AllSources(new)
      BY <2>a, FirstGrows
    <2>c. /\ DOMAIN new = DOMAIN old /\ 1 \in DOMAIN old /\ new[1] = doc /\ Len(new) = Len(old) /\ new # <<>>
          /\ \A i \in DOMAIN old : i # 1 => new[i] = old[i]
      BY <2>a, FirstParts
    <2>3. Twice(new) => Twice(old)
      BY <2>c DEF Twice
    <2>4. \A n : Alias(old, n) => Alias(new, n)
      BY <2>1, <2>c DEF Alias
    <2>5. m = n0 \/ Alias(new, n0)
      BY <2>1, <2>c DEF Alias, alias
    <2> QED
      BY <2>b, <2>c, <2>3, <2>4, <2>5
  <1> QED
    BY <1>1, <1>3, <1>4 DEF UpsertOf

\* A relation is inserted where the handler saw none, and else updated, if there is one.
RelationOf(j, c, old, new) ==
    \/ new = old
       /\ (j.gone => old # <<>>) /\ (~j.gone => old = <<>>)
    \/ j.gone
       /\ new = Append(old, NewRelation(c))
    \/ ~j.gone /\ old # <<>>
       /\ new = FirstIs(old, NextRelationDoc(old[1], c, More(j)))

\* StoreRelation stores that of the edge in hand.
LEMMA RelationStores ==
    ASSUME IType, NEW x \in Executions, NEW c \in Chunks, StoreRelation(x, c)
    PROVE  \E e \in Edges, docs \in Seq(RelationDocs) :
              /\ job[x][c].to = e /\ relations[e] \in Seq(RelationDocs)
              /\ RelationOf(job[x][c], c, relations[e], docs)
              /\ relations' = [relations EXCEPT ![e] = docs]
  <1> DEFINE j == job[x][c]
  <1>1. j.at = "put" /\ j.gone \in BOOLEAN /\ j.fresh \in BOOLEAN
    BY JobFields DEF StoreRelation
  <1>2. PICK e \in Edges : e = j.to
    BY <1>1, JobFields DEF ShapeOf
  <1>3. PICK old \in Seq(RelationDocs) : old = relations[e]
    BY DEF IType, DocsInv
  <1>4. DEFINE upd == NextRelationDoc(old[1], c, More(j))
  <1>5. NewRelation(c) \in RelationDocs /\ Append(old, NewRelation(c)) \in Seq(RelationDocs)
    <2>1. NewRelation(c) \in RelationDocs
      BY DEF NewRelation, RelationDocs
    <2> QED
      BY <2>1, AppendProperties
  <1>6. old # <<>> => upd \in RelationDocs /\ FirstIs(old, upd) \in Seq(RelationDocs)
    <2> SUFFICES ASSUME old # <<>> PROVE upd \in RelationDocs /\ FirstIs(old, upd) \in Seq(RelationDocs)
      OBVIOUS
    <2>1. 1 \in 1..Len(old) /\ old[1] \in RelationDocs
      BY EmptySeq, ElementOfSeq
    <2>2. upd \in RelationDocs
      BY <1>1, <2>1 DEF NextRelationDoc, RelationDocs, More
    <2> QED
      BY <2>1, <2>2, ExceptSeq DEF FirstIs
  <1>7. PICK new : /\ relations' = [relations EXCEPT ![e] = new]
                   /\ new = IF j.gone THEN IF old # <<>> /\ "relations" \in indexed THEN old
                                           ELSE Append(old, NewRelation(c))
                            ELSE IF old = <<>> THEN old ELSE FirstIs(old, upd)
    BY <1>2, <1>3 DEF StoreRelation, Linked, NewRelation, NextRelationDoc, More, FirstIs
  <1>8. new \in Seq(RelationDocs) /\ RelationOf(j, c, old, new)
    BY <1>1, <1>5, <1>6, <1>7 DEF RelationOf
  <1> QED
    BY <1>2, <1>3, <1>7, <1>8

\* What is stored of a relation only grows, and has the chunk unless the insert lost.
LEMMA RelationGrows ==
    ASSUME NEW j \in Jobs, NEW c \in Chunks, NEW old \in Seq(RelationDocs), NEW new \in Seq(RelationDocs),
           RelationOf(j, c, old, new)
    PROVE  /\ Grown(old, new, c)
           /\ AllSources(new) \subseteq AllSources(old) \cup {c}
           /\ c \in AllSources(new) \/ (j.gone /\ old # <<>>) \/ (~j.gone /\ old = <<>>)
           /\ old = <<>> /\ new # <<>> => j.gone /\ c \in AllSources(new)
  <1>0. j.gone \in BOOLEAN /\ j.fresh \in BOOLEAN /\ More(j) \in Nat
    BY DEF Jobs, More
  <1>1. CASE new = old /\ (j.gone => old # <<>>) /\ (~j.gone => old = <<>>)
    BY <1>0, <1>1, SameGrows
  <1>2. CASE new = Append(old, NewRelation(c)) /\ j.gone
    <2>1. NewRelation(c) \in RelationDocs /\ NewRelation(c).sources = {c}
      BY DEF NewRelation, RelationDocs
    <2>2. /\ Grown(old, new, c) /\ c \in AllSources(new)
          /\ \A i \in DOMAIN new : new[i] = NewRelation(c) \/ (i \in DOMAIN old /\ new[i] = old[i])
      BY <1>2, <2>1, AppendGrows
    <2>3. AllSources(new) \subseteq AllSources(old) \cup {c}
      BY <2>1, <2>2 DEF AllSources
    <2> QED
      BY <1>2, <2>2, <2>3
  <1>3. CASE new = FirstIs(old, NextRelationDoc(old[1], c, More(j))) /\ ~j.gone /\ old # <<>>
    <2>1. 1 \in 1..Len(old) /\ old[1] \in RelationDocs
      BY <1>3, EmptySeq, ElementOfSeq
    <2>0. NextRelationDoc(old[1], c, More(j)) \in RelationDocs
      BY <1>0, <2>1 DEF NextRelationDoc, RelationDocs
    <2>2. PICK doc \in RelationDocs : doc = NextRelationDoc(old[1], c, More(j)) /\ doc.sources = old[1].sources \cup {c}
      BY <2>0 DEF NextRelationDoc
    <2>a. Grown(old, new, c) /\ c \in AllSources(new)
      BY <1>3, <2>2, FirstGrows
    <2>3. /\ DOMAIN new = DOMAIN old /\ 1 \in DOMAIN old /\ new[1] = doc
          /\ \A i \in DOMAIN old : i # 1 => new[i] = old[i]
      BY <1>3, <2>2, FirstParts
    <2>4. AllSources(new) \subseteq AllSources(old) \cup {c}
      BY <2>2, <2>3 DEF AllSources
    <2> QED
      BY <1>3, <2>a, <2>3, <2>4
  <1> QED
    BY <1>1, <1>2, <1>3 DEF RelationOf

-----------------------------------------------------------------------------
(* What each step leaves in a handler's hand *)

\* The handler that has found, or not found, what it will store.
Aimed(j, at, to, gone, fresh) == [j EXCEPT !.at = at, !.to = to, !.gone = gone, !.fresh = fresh]

\* It has the four fields it was given and keeps the others.
LEMMA AimedJob ==
    ASSUME NEW j \in Jobs, NEW at \in {"upsert", "put"}, NEW to \in {<<n>> : n \in Names} \cup Edges,
           NEW gone \in BOOLEAN, NEW fresh \in BOOLEAN
    PROVE  /\ Aimed(j, at, to, gone, fresh) \in Jobs
           /\ Aimed(j, at, to, gone, fresh).at = at /\ Aimed(j, at, to, gone, fresh).to = to
           /\ Aimed(j, at, to, gone, fresh).gone = gone /\ Aimed(j, at, to, gone, fresh).fresh = fresh
           /\ Aimed(j, at, to, gone, fresh).ids = j.ids /\ Aimed(j, at, to, gone, fresh).todo = j.todo
  <1>1. PICK j1 \in Jobs : j1 = [j EXCEPT !.at = at] /\ j1.ids = j.ids /\ j1.todo = j.todo /\ j1.at = at
    <2>1. [j EXCEPT !.at = at] \in Jobs
      BY DEF Jobs
    <2> QED
      BY <2>1 DEF Jobs
  <1>2. PICK j2 \in Jobs : j2 = [j1 EXCEPT !.to = to] /\ j2.ids = j1.ids /\ j2.todo = j1.todo /\ j2.at = j1.at /\ j2.to = to
    <2>1. [j1 EXCEPT !.to = to] \in Jobs
      BY DEF Jobs
    <2> QED
      BY <2>1 DEF Jobs
  <1>3. PICK j3 \in Jobs : /\ j3 = [j2 EXCEPT !.gone = gone] /\ j3.ids = j2.ids /\ j3.todo = j2.todo
                           /\ j3.at = j2.at /\ j3.to = j2.to /\ j3.gone = gone
    <2>1. [j2 EXCEPT !.gone = gone] \in Jobs
      BY DEF Jobs
    <2> QED
      BY <2>1 DEF Jobs
  <1>4. PICK j4 \in Jobs : /\ j4 = [j3 EXCEPT !.fresh = fresh] /\ j4.ids = j3.ids /\ j4.todo = j3.todo
                           /\ j4.at = j3.at /\ j4.to = j3.to /\ j4.gone = j3.gone /\ j4.fresh = fresh
    <2>1. [j3 EXCEPT !.fresh = fresh] \in Jobs
      BY DEF Jobs
    <2> QED
      BY <2>1 DEF Jobs
  <1>5. Aimed(j, at, to, gone, fresh) = j4
    BY <1>1, <1>2, <1>3, <1>4 DEF Aimed
  <1> QED
    BY <1>1, <1>2, <1>3, <1>4, <1>5

\* The handlers that start from an empty hand.
NamedSoFar(ids) == [NoJob EXCEPT !.at = "entity", !.ids = ids]
StillToPut(todo) == [NoJob EXCEPT !.at = "edge", !.todo = todo]
HasRead(todo) == [NoJob EXCEPT !.at = "store", !.todo = todo]
HasDetected == [NoJob EXCEPT !.at = "batch"]
Queued == [NoJob EXCEPT !.at = "queued"]

\* They are handlers, with the step and the hand their names say.
LEMMA FreshHands ==
    /\ \A ids \in Seq(Names) : /\ NamedSoFar(ids) \in Jobs
                               /\ NamedSoFar(ids).at = "entity" /\ NamedSoFar(ids).ids = ids
    /\ \A todo \in SUBSET Edges : /\ StillToPut(todo) \in Jobs /\ StillToPut(todo).at = "edge"
                                  /\ StillToPut(todo).todo = todo /\ StillToPut(todo).ids = <<>>
                                  /\ HasRead(todo) \in Jobs /\ HasRead(todo).at = "store"
                                  /\ HasRead(todo).todo = todo /\ HasRead(todo).ids = <<>>
    /\ HasDetected \in Jobs /\ HasDetected.at = "batch" /\ HasDetected.ids = <<>>
    /\ Queued \in Jobs /\ Queued.at = "queued" /\ Queued.ids = <<>>
  <1>1. \A ids \in Seq(Names) : NamedSoFar(ids) \in Jobs /\ NamedSoFar(ids).at = "entity" /\ NamedSoFar(ids).ids = ids
    BY DEF NamedSoFar, NoJob, Jobs, Outcomes
  <1>2. \A todo \in SUBSET Edges : /\ StillToPut(todo) \in Jobs /\ StillToPut(todo).at = "edge"
                                   /\ StillToPut(todo).todo = todo /\ StillToPut(todo).ids = <<>>
    BY EmptySeq DEF StillToPut, NoJob, Jobs, Outcomes
  <1>3. \A todo \in SUBSET Edges : /\ HasRead(todo) \in Jobs /\ HasRead(todo).at = "store"
                                   /\ HasRead(todo).todo = todo /\ HasRead(todo).ids = <<>>
    BY EmptySeq DEF HasRead, NoJob, Jobs, Outcomes
  <1>4. HasDetected \in Jobs /\ HasDetected.at = "batch" /\ HasDetected.ids = <<>>
    BY EmptySeq DEF HasDetected, NoJob, Jobs, Outcomes
  <1>5. Queued \in Jobs /\ Queued.at = "queued" /\ Queued.ids = <<>>
    BY EmptySeq DEF Queued, NoJob, Jobs, Outcomes
  <1> QED
    BY <1>1, <1>2, <1>3, <1>4, <1>5

\* The chunk's next name, while there is one.
LEMMA NextName ==
    ASSUME IType, NEW x \in Executions, NEW c \in Chunks, Len(job[x][c].ids) < Len(Mentioned[c])
    PROVE  /\ Len(job[x][c].ids) \in Nat /\ Len(job[x][c].ids) + 1 \in 1..Len(Mentioned[c])
           /\ Mentioned[c][Len(job[x][c].ids) + 1] \in Names
  <1>1. Len(job[x][c].ids) \in Nat /\ Len(Mentioned[c]) \in Nat /\ Mentioned[c] \in Seq(Names)
    BY JobFields, LenProperties
  <1>2. Len(job[x][c].ids) + 1 \in 1..Len(Mentioned[c])
    BY <1>1
  <1> QED
    BY <1>1, <1>2, ElementOfSeq

\* A lookup ends at an entity that the name's may be stored under.
LEMMA LookUpAims ==
    ASSUME IType, NEW x \in Executions, NEW c \in Chunks, LookUpEntity(x, c)
    PROVE  \E m \in Names, j \in Jobs :
              /\ Become(x, c, j)
              /\ j.at = "upsert" /\ j.to = <<m>> /\ j.gone = ~Stored(m) /\ j.fresh = (c \notin Sources(entities[m]))
              /\ j.ids = job[x][c].ids /\ ShapeOf(stage[x], c, j)
              /\ \/ Stored(m)
                 \/ Candidates(m) = {}
  <1> DEFINE n == Mentioned[c][Len(job[x][c].ids) + 1]
  <1>1. /\ stage[x] = "resolution" /\ Len(job[x][c].ids) < Len(Mentioned[c])
        /\ Len(job[x][c].ids) \in Nat /\ n \in Names /\ Len(Mentioned[c]) \in Nat
    BY NextName, JobFields DEF LookUpEntity
  <1>2. PICK m \in Targets(n) : Become(x, c, Aimed(job[x][c], "upsert", <<m>>, ~Stored(m), c \notin Sources(entities[m])))
    BY DEF LookUpEntity, Aimed
  <1>3. m \in Names /\ (Stored(m) \/ Candidates(m) = {})
    BY <1>1, <1>2 DEF Targets, Candidates
  <1>a. PICK gone \in BOOLEAN, fresh \in BOOLEAN : gone = ~Stored(m) /\ fresh = (c \notin Sources(entities[m]))
    OBVIOUS
  <1>d. PICK j0 \in Jobs : j0 = job[x][c]
    BY JobFields
  <1>c. PICK to \in {<<n1>> : n1 \in Names} \cup Edges : to = <<m>>
    BY <1>3
  <1> DEFINE j == Aimed(j0, "upsert", to, gone, fresh)
  <1>b. Become(x, c, j)
    BY <1>2, <1>a, <1>c, <1>d
  <1>4. /\ j \in Jobs /\ j.at = "upsert" /\ j.to = to /\ j.gone = gone /\ j.fresh = fresh
        /\ j.ids = j0.ids
    BY AimedJob
  <1> HIDE DEF j
  <1>5. ShapeOf(stage[x], c, j)
    BY <1>1, <1>3, <1>4, <1>c, <1>d DEF ShapeOf, Resolving, Constructing, InLock
  <1> QED
    BY <1>a, <1>b, <1>c, <1>d, <1>3, <1>4, <1>5

\* After an upsert, or a failed one, the chunk has an id more.
LEMMA UpsertHands ==
    ASSUME IType, NEW x \in Executions, NEW c \in Chunks, NEW m \in Names, job[x][c].at = "upsert"
    PROVE  LET j == NamedSoFar(Append(job[x][c].ids, m)) IN
           /\ j \in Jobs /\ j.at = "entity" /\ j.ids = Append(job[x][c].ids, m)
           /\ Len(j.ids) = Len(job[x][c].ids) + 1 /\ ShapeOf(stage[x], c, j)
  <1> DEFINE ids == Append(job[x][c].ids, m)
  <1>1. /\ ids \in Seq(Names) /\ Len(ids) = Len(job[x][c].ids) + 1
        /\ Len(job[x][c].ids) \in Nat /\ Len(job[x][c].ids) < Len(Mentioned[c]) /\ Len(Mentioned[c]) \in Nat
        /\ stage[x] = "resolution"
    BY JobFields, AppendProperties, LenProperties DEF ShapeOf, Resolving
  <1> HIDE DEF ids
  <1>2. NamedSoFar(ids) \in Jobs /\ NamedSoFar(ids).at = "entity" /\ NamedSoFar(ids).ids = ids
    BY <1>1, FreshHands
  <1>3. ShapeOf(stage[x], c, NamedSoFar(ids))
    BY <1>1, <1>2 DEF ShapeOf, Resolving, Constructing, InLock
  <1> QED
    BY <1>1, <1>2, <1>3 DEF ids

\* A construction handler's relations, each of which is one of the chunk's with ids
\* for its names, or none, which is a failure.
Translated(c, id) == {<<id[r[1]], id[r[2]]>> : r \in Related[c]}
Valid(c, id) == {e \in Translated(c, id) : Stored(e[1]) /\ Stored(e[2])}

\* _validate_entity_existence leaves the handler with the relations whose ends are stored.
LEMMA ReadsGraph ==
    ASSUME IType, NEW x \in Executions, NEW c \in Chunks, ReadGraph(x, c)
    PROVE  \E id \in [UNION {{r[1], r[2]} : r \in Related[c]} -> Names] :
              /\ \A n \in DOMAIN id : id[n] \in IF IdsOf(n) = {} THEN {n} ELSE IdsOf(n)
              /\ Valid(c, id) \in SUBSET Edges
              /\ \/ Valid(c, id) = {} /\ Become(x, c, Writing("failed"))
                 \/ Valid(c, id) # {} /\ Become(x, c, StillToPut(Valid(c, id)))
  <1>1. PICK id \in [UNION {{r[1], r[2]} : r \in Related[c]} -> Names] :
           /\ \A n \in DOMAIN id : id[n] \in IF IdsOf(n) = {} THEN {n} ELSE IdsOf(n)
           /\ Become(x, c, IF Valid(c, id) = {} THEN Writing("failed") ELSE StillToPut(Valid(c, id)))
    BY DEF ReadGraph, Valid, Translated, StillToPut
  <1>2. Translated(c, id) \subseteq Edges
    BY DEF Translated, Edges
  <1> QED
    BY <1>1, <1>2 DEF Valid

\* A construction handler at a relation.
LEMMA FindAims ==
    ASSUME IType, NEW x \in Executions, NEW c \in Chunks, NEW e \in Edges, FindRelation(x, c, e)
    PROVE  \E j \in Jobs :
              /\ Become(x, c, j) /\ j.at = "put" /\ j.to = e /\ j.gone = ~Linked(e)
              /\ j.fresh = (c \notin Sources(relations[e])) /\ j.ids = job[x][c].ids
              /\ j.todo = job[x][c].todo /\ e \in j.todo /\ ShapeOf(stage[x], c, j)
  <1>1. job[x][c].at = "edge" /\ e \in job[x][c].todo /\ stage[x] = "construction" /\ job[x][c].ids = <<>>
    BY JobFields DEF FindRelation, ShapeOf, Constructing, Resolving
  <1>a. PICK gone \in BOOLEAN, fresh \in BOOLEAN : gone = ~Linked(e) /\ fresh = (c \notin Sources(relations[e]))
    OBVIOUS
  <1>d. PICK j0 \in Jobs : j0 = job[x][c]
    BY JobFields
  <1> DEFINE j == Aimed(j0, "put", e, gone, fresh)
  <1>2. Become(x, c, j)
    <2>1. Become(x, c, Aimed(job[x][c], "put", e, ~Linked(e), c \notin Sources(relations[e])))
      BY DEF FindRelation, Aimed
    <2> QED
      BY <2>1, <1>a, <1>d
  <1>3. /\ j \in Jobs /\ j.at = "put" /\ j.to = e /\ j.gone = gone
        /\ j.fresh = fresh /\ j.ids = j0.ids /\ j.todo = j0.todo
    BY AimedJob
  <1> HIDE DEF j
  <1>4. ShapeOf(stage[x], c, j)
    BY <1>1, <1>3, <1>d DEF ShapeOf, Resolving, Constructing, InLock
  <1> QED
    BY <1>1, <1>a, <1>d, <1>2, <1>3, <1>4

\* After a relation the handler has the others, or is done.
LEMMA NextHands ==
    ASSUME IType, NEW x \in Executions, NEW c \in Chunks, job[x][c].at = "put", NextRelation(x, c)
    PROVE  LET rest == job[x][c].todo \ {job[x][c].to} IN
           /\ rest \in SUBSET Edges /\ stage[x] = "construction"
           /\ \/ rest = {} /\ Become(x, c, Writing("completed"))
              \/ rest # {} /\ Become(x, c, StillToPut(rest)) /\ StillToPut(rest) \in Jobs
                 /\ StillToPut(rest).at = "edge" /\ StillToPut(rest).todo = rest
                 /\ StillToPut(rest).ids = <<>> /\ ShapeOf(stage[x], c, StillToPut(rest))
  <1> DEFINE rest == job[x][c].todo \ {job[x][c].to}
  <1>1. rest \in SUBSET Edges /\ stage[x] = "construction"
    BY JobFields DEF ShapeOf, Constructing
  <1>2. \/ rest = {} /\ Become(x, c, Writing("completed"))
        \/ rest # {} /\ Become(x, c, StillToPut(rest))
    BY DEF NextRelation, StillToPut
  <1> HIDE DEF rest
  <1>3. /\ StillToPut(rest) \in Jobs /\ StillToPut(rest).at = "edge" /\ StillToPut(rest).todo = rest
        /\ StillToPut(rest).ids = <<>>
    BY <1>1, FreshHands
  <1>4. ShapeOf(stage[x], c, StillToPut(rest))
    BY <1>1, <1>3 DEF ShapeOf, Resolving, Constructing, InLock
  <1> QED
    BY <1>1, <1>2, <1>3, <1>4 DEF rest

-----------------------------------------------------------------------------
(* Type correctness *)

\* The part of the invariant about the handlers, and the rest of it.
HandType ==
    /\ stage \in [Executions -> Stages \cup {"none"}]
    /\ detected \in [Executions -> BOOLEAN]
    /\ job \in [Executions -> [Chunks -> Jobs]]
    /\ ShapeInv

StoreType ==
    /\ status \in [Chunks -> [Stages -> Outcomes]]
    /\ DocsInv
    /\ mentions \in [Names \X Chunks -> Nat]
    /\ communities \in [stored : BOOLEAN, over : SUBSET Edges]
    /\ indexed \subseteq Unique /\ cleaning \in BOOLEAN
    /\ met \subseteq Stages \X SUBSET Chunks /\ late \subseteq Chunks /\ hurt \subseteq Chunks
    /\ runs \in 0..MaxRuns /\ upsets \in 0..MaxUpsets

\* Together they are what the types say.
LEMMA TypeParts == IType <=> HandType /\ StoreType
  <1>1. DocsInv => /\ \A n \in Names : \A i \in DOMAIN entities[n] :
                         entities[n][i] \in [count : Nat, sources : SUBSET Chunks, aliases : SUBSET Names]
                   /\ \A e \in Edges : \A i \in DOMAIN relations[e] :
                         relations[e][i] \in [count : Nat, sources : SUBSET Chunks]
    <2> SUFFICES ASSUME DocsInv
                 PROVE  /\ \A n \in Names : \A i \in DOMAIN entities[n] : entities[n][i] \in EntityDocs
                        /\ \A e \in Edges : \A i \in DOMAIN relations[e] : relations[e][i] \in RelationDocs
      BY DEF EntityDocs, RelationDocs
    <2>1. ASSUME NEW n \in Names, NEW i \in DOMAIN entities[n] PROVE entities[n][i] \in EntityDocs
      <3>1. entities[n] \in Seq(EntityDocs)
        BY DEF DocsInv
      <3> QED
        BY <3>1, LenProperties, ElementOfSeq
    <2>2. ASSUME NEW e \in Edges, NEW i \in DOMAIN relations[e] PROVE relations[e][i] \in RelationDocs
      <3>1. relations[e] \in Seq(RelationDocs)
        BY DEF DocsInv
      <3> QED
        BY <3>1, LenProperties, ElementOfSeq
    <2> QED
      BY <2>1, <2>2
  <1> QED
    BY <1>1 DEF IType, TypeOK, HandType, StoreType

\* A handler that writes next keeps the shape.
LEMMA GoesToWrite ==
    ASSUME IType, NEW x \in Executions, NEW c \in Chunks, NEW out \in Outcomes,
           Become(x, c, Writing(out)), stage' = stage, detected' = detected,
           stage[x] # "none", stage[x] = "community" => out = "failed"
    PROVE  HandType'
  <1>1. Writing(out) \in Jobs /\ ShapeOf(stage[x], c, Writing(out))
    BY WritingShape
  <1>2. job' \in [Executions -> [Chunks -> Jobs]] /\ ShapeInv'
    BY <1>1, BecomeShape
  <1> QED
    BY <1>2 DEF HandType, IType, TypeOK

\* So does one that becomes what has the shape.
LEMMA GoesTo ==
    ASSUME IType, NEW x \in Executions, NEW c \in Chunks, NEW j \in Jobs,
           Become(x, c, j), stage' = stage, detected' \in [Executions -> BOOLEAN], ShapeOf(stage[x], c, j)
    PROVE  HandType'
  <1>1. job' \in [Executions -> [Chunks -> Jobs]] /\ ShapeInv'
    BY BecomeShape
  <1> QED
    BY <1>1 DEF HandType, IType, TypeOK

\* And so does a return.
LEMMA GoesHome ==
    ASSUME IType, NEW x \in Executions, NEW c \in Chunks, Return(x, c)
    PROVE  HandType'
  BY ReturnShape DEF HandType

\* The bounds bound.
LEMMA Bounds ==
    ASSUME IType
    PROVE  /\ Upset => upsets' \in 0..MaxUpsets
           /\ runs < MaxRuns => runs + 1 \in 0..MaxRuns
           /\ 0 \in 0..MaxRuns /\ 0 \in 0..MaxUpsets
  BY KnowledgeGraphAssumption DEF Upset, IType, TypeOK, KnowledgeGraphAssumption

\* Every step keeps the handlers' types and shapes.
LEMMA HandStep == IType /\ [Next]_vars => HandType'
<1> SUFFICES ASSUME IType, [Next]_vars PROVE HandType'
  OBVIOUS
<1>1. ASSUME NEW x \in Executions, NEW s \in Stages, StartStage(x, s) PROVE HandType'
  <2>1. /\ NoJob \in Jobs /\ NoJob.at = "none" /\ Queued \in Jobs /\ Queued.at = "queued" /\ Queued.ids = <<>>
        /\ Writing("failed") \in Jobs /\ Writing("failed").at = "write" /\ Writing("failed").ids = <<>>
        /\ NoJob.ids = <<>>
    <3>1. "failed" \in Outcomes
      BY DEF Outcomes
    <3> QED
      BY <3>1, Hands, FreshHands, WritingShape DEF Stages
  <2>2. PICK g : /\ job' = [job EXCEPT ![x] = g]
                 /\ g = [c \in Chunks |-> IF c \notin Due(s) THEN NoJob
                                        ELSE IF s = "construction" /\ status[c].extraction # "completed"
                                             THEN Writing("failed") ELSE Queued]
    BY <1>1 DEF StartStage, Queued
  <2>3. g \in [Chunks -> Jobs]
    BY <2>1, <2>2
  <2>a. stage' \in [Executions -> Stages \cup {"none"}] /\ detected' \in [Executions -> BOOLEAN]
    BY <1>1 DEF StartStage, IType, TypeOK
  <2>b. job' \in [Executions -> [Chunks -> Jobs]]
    BY <2>2, <2>3 DEF IType, TypeOK
  <2>4. /\ stage' \in [Executions -> Stages \cup {"none"}] /\ detected' \in [Executions -> BOOLEAN]
        /\ job' \in [Executions -> [Chunks -> Jobs]]
    BY <2>a, <2>b
  <2>5. ASSUME NEW y \in Executions, NEW d \in Chunks PROVE ShapeOf(stage'[y], d, job'[y][d])
    <3>1. CASE y = x
      <4>1. stage'[y] = s /\ s # "none" /\ job'[y][d] = g[d]
        BY <1>1, <2>2, <3>1 DEF StartStage, IType, TypeOK, Stages
      <4>2. g[d] = NoJob \/ g[d] = Queued \/ (s = "construction" /\ g[d] = Writing("failed"))
        BY <2>2
      <4> QED
        BY <2>1, <4>1, <4>2 DEF ShapeOf, Resolving, Constructing, InLock
    <3>2. CASE y # x
      <4>1. stage'[y] = stage[y] /\ job'[y][d] = job[y][d]
        BY <1>1, <2>2, <3>2 DEF StartStage, IType, TypeOK
      <4> QED
        BY <4>1, JobFields
    <3> QED
      BY <3>1, <3>2
  <2> QED
    BY <2>4, <2>5 DEF HandType, ShapeInv
<1>2. ASSUME NEW x \in Executions, CreateIndexes(x) PROVE HandType'
  BY <1>2, TypeParts DEF CreateIndexes, HandType, ShapeInv
<1>3. ASSUME NEW x \in Executions, NEW c \in Chunks, WriteStatus(x, c) PROVE HandType'
  BY <1>3, GoesHome DEF WriteStatus
<1>4. ASSUME NEW x \in Executions, NEW c \in Chunks, WriteFails(x, c) PROVE HandType'
  BY <1>4, GoesHome DEF WriteFails
<1>5. ASSUME NEW x \in Executions, NEW c \in Chunks, HandlerRaises(x, c) PROVE HandType'
  <2>1. stage[x] # "none"
    BY <1>5, JobFields DEF HandlerRaises, ShapeOf
  <2>2. "failed" \in Outcomes
    BY DEF Outcomes
  <2> QED
    BY <1>5, <2>1, <2>2, GoesToWrite DEF HandlerRaises
<1>6. ASSUME NEW x \in Executions, NEW c \in Chunks, NEW out \in Outcomes \ {"absent"}, Extract(x, c, out) PROVE HandType'
  BY <1>6, GoesToWrite DEF Extract
<1>7. ASSUME NEW x \in Executions, NEW c \in Chunks, LookUpEntity(x, c) PROVE HandType'
  <2>1. PICK j \in Jobs : Become(x, c, j) /\ ShapeOf(stage[x], c, j)
    BY <1>7, LookUpAims
  <2> QED
    BY <1>7, <2>1, GoesTo DEF LookUpEntity, IType, TypeOK
<1>8. ASSUME NEW x \in Executions, NEW c \in Chunks, UpsertEntity(x, c) PROVE HandType'
  <2>1. PICK m \in Names : Become(x, c, NamedSoFar(Append(job[x][c].ids, m)))
    BY <1>8, UpsertStores DEF NamedSoFar
  <2>2. job[x][c].at = "upsert" /\ stage' = stage /\ detected' \in [Executions -> BOOLEAN]
    BY <1>8 DEF UpsertEntity, IType, TypeOK
  <2> QED
    BY <2>1, <2>2, UpsertHands, GoesTo
<1>9. ASSUME NEW x \in Executions, NEW c \in Chunks, StoreEntityFails(x, c) PROVE HandType'
  <2>1. job[x][c].at = "upsert" /\ stage' = stage /\ detected' \in [Executions -> BOOLEAN]
    BY <1>9 DEF StoreEntityFails, IType, TypeOK
  <2>2. Mentioned[c][Len(job[x][c].ids) + 1] \in Names
    BY <2>1, JobFields, NextName DEF ShapeOf
  <2>3. Become(x, c, NamedSoFar(Append(job[x][c].ids, Mentioned[c][Len(job[x][c].ids) + 1])))
    BY <1>9 DEF StoreEntityFails, NamedSoFar
  <2> QED
    BY <2>1, <2>2, <2>3, UpsertHands, GoesTo
<1>10. ASSUME NEW x \in Executions, NEW c \in Chunks, StoreMentions(x, c) PROVE HandType'
  <2>1. stage[x] = "resolution" /\ "completed" \in Outcomes
    BY <1>10, JobFields DEF StoreMentions, ShapeOf, Resolving, Outcomes
  <2> QED
    BY <1>10, <2>1, GoesToWrite DEF StoreMentions
<1>11. ASSUME NEW x \in Executions, NEW c \in Chunks, ReadGraph(x, c) PROVE HandType'
  <2>1. PICK id : /\ Valid(c, id) \in SUBSET Edges
                  /\ \/ Become(x, c, Writing("failed"))
                     \/ Become(x, c, StillToPut(Valid(c, id)))
    BY <1>11, ReadsGraph
  <2>2. stage[x] = "construction" /\ stage' = stage /\ detected' = detected /\ "failed" \in Outcomes
    BY <1>11 DEF ReadGraph, Outcomes
  <2>3. detected' \in [Executions -> BOOLEAN]
    BY <2>2 DEF IType, TypeOK
  <2>4. CASE Become(x, c, Writing("failed"))
    BY <2>2, <2>4, GoesToWrite
  <2>5. CASE Become(x, c, StillToPut(Valid(c, id)))
    <3>1. PICK j \in Jobs : j = StillToPut(Valid(c, id)) /\ j.at = "edge" /\ j.ids = <<>>
      BY <2>1, FreshHands
    <3>2. ShapeOf(stage[x], c, j)
      BY <2>2, <3>1 DEF ShapeOf, Resolving, Constructing, InLock
    <3> QED
      BY <2>2, <2>3, <2>5, <3>1, <3>2, GoesTo
  <2> QED
    BY <2>1, <2>4, <2>5
<1>12. ASSUME NEW x \in Executions, NEW c \in Chunks, NEW e \in Edges, FindRelation(x, c, e) PROVE HandType'
  <2>1. PICK j \in Jobs : Become(x, c, j) /\ ShapeOf(stage[x], c, j)
    BY <1>12, FindAims
  <2> QED
    BY <1>12, <2>1, GoesTo DEF FindRelation, IType, TypeOK
<1>13. ASSUME NEW x \in Executions, NEW c \in Chunks, StoreRelation(x, c) PROVE HandType'
  <2>1. job[x][c].at = "put" /\ NextRelation(x, c) /\ stage' = stage /\ detected' = detected
    BY <1>13 DEF StoreRelation
  <2>2. detected' \in [Executions -> BOOLEAN] /\ "completed" \in Outcomes
    BY <2>1 DEF IType, TypeOK, Outcomes
  <2>3. stage[x] = "construction"
    BY <2>1, NextHands
  <2>4. CASE Become(x, c, Writing("completed"))
    BY <2>1, <2>2, <2>3, <2>4, GoesToWrite
  <2>5. ASSUME NEW j \in Jobs, Become(x, c, j), ShapeOf(stage[x], c, j) PROVE HandType'
    BY <2>1, <2>2, <2>5, GoesTo
  <2> QED
    BY <2>1, <2>4, <2>5, NextHands
<1>14. ASSUME NEW x \in Executions, NEW c \in Chunks, StoreRelationFails(x, c) PROVE HandType'
  <2>1. job[x][c].at = "put" /\ NextRelation(x, c) /\ stage' = stage /\ detected' = detected
    BY <1>14 DEF StoreRelationFails
  <2>2. detected' \in [Executions -> BOOLEAN] /\ "completed" \in Outcomes
    BY <2>1 DEF IType, TypeOK, Outcomes
  <2>3. stage[x] = "construction"
    BY <2>1, NextHands
  <2>4. CASE Become(x, c, Writing("completed"))
    BY <2>1, <2>2, <2>3, <2>4, GoesToWrite
  <2>5. ASSUME NEW j \in Jobs, Become(x, c, j), ShapeOf(stage[x], c, j) PROVE HandType'
    BY <2>1, <2>2, <2>5, GoesTo
  <2> QED
    BY <2>1, <2>4, <2>5, NextHands
<1>15. ASSUME NEW x \in Executions, NEW c \in Chunks, DetectSkip(x, c) PROVE HandType'
  BY <1>15, GoesHome DEF DetectSkip
<1>16. ASSUME NEW x \in Executions, NEW c \in Chunks, DetectNothing(x, c) PROVE HandType'
  <2>1. "failed" \in Outcomes
    BY DEF Outcomes
  <2> QED
    BY <1>16, <2>1, GoesToWrite DEF DetectNothing
<1>17. ASSUME NEW x \in Executions, NEW c \in Chunks, Detect(x, c) PROVE HandType'
  <2>1. PICK j \in Jobs : j = HasRead({e \in Edges : Linked(e)}) /\ j.at = "store" /\ j.ids = <<>>
    BY FreshHands
  <2>2. stage[x] = "community" /\ stage' = stage /\ detected' \in [Executions -> BOOLEAN]
    BY <1>17 DEF Detect, IType, TypeOK
  <2>3. Become(x, c, j)
    BY <1>17, <2>1 DEF Detect, HasRead
  <2>4. ShapeOf(stage[x], c, j)
    BY <2>1, <2>2 DEF ShapeOf, Resolving, Constructing, InLock
  <2> QED
    BY <2>2, <2>3, <2>4, GoesTo
<1>18. ASSUME NEW x \in Executions, NEW c \in Chunks, StoreCommunities(x, c) PROVE HandType'
  <2>1. PICK j \in Jobs : j = HasDetected /\ j.at = "batch" /\ j.ids = <<>>
    BY FreshHands
  <2>2. job[x][c].at = "store" /\ stage' = stage /\ detected' \in [Executions -> BOOLEAN]
    BY <1>18 DEF StoreCommunities, IType, TypeOK
  <2>3. Become(x, c, j)
    BY <1>18, <2>1 DEF StoreCommunities, HasDetected
  <2>4. stage[x] = "community"
    BY <2>2, JobFields DEF ShapeOf, InLock
  <2>5. ShapeOf(stage[x], c, j)
    BY <2>1, <2>4 DEF ShapeOf, Resolving, Constructing, InLock
  <2> QED
    BY <2>2, <2>3, <2>5, GoesTo
<1>19. ASSUME NEW x \in Executions, NEW c \in Chunks, StoreCommunitiesFails(x, c) PROVE HandType'
  <2>1. PICK j \in Jobs : j = HasDetected /\ j.at = "batch" /\ j.ids = <<>>
    BY FreshHands
  <2>2. job[x][c].at = "store" /\ stage' = stage /\ detected' \in [Executions -> BOOLEAN]
    BY <1>19 DEF StoreCommunitiesFails, IType, TypeOK
  <2>3. Become(x, c, j)
    BY <1>19, <2>1 DEF StoreCommunitiesFails, HasDetected
  <2>4. stage[x] = "community"
    BY <2>2, JobFields DEF ShapeOf, InLock
  <2>5. ShapeOf(stage[x], c, j)
    BY <2>1, <2>4 DEF ShapeOf, Resolving, Constructing, InLock
  <2> QED
    BY <2>2, <2>3, <2>5, GoesTo
<1>20. ASSUME NEW x \in Executions, NEW c \in Chunks, BatchUpdate(x, c) PROVE HandType'
  BY <1>20, GoesHome DEF BatchUpdate
<1>21. ASSUME DropCollections PROVE HandType'
  BY <1>21, TypeParts DEF DropCollections, HandType, ShapeInv
<1>22. ASSUME ResetChunks PROVE HandType'
  BY <1>22, TypeParts DEF ResetChunks, HandType, ShapeInv
<1>23. ASSUME Crash PROVE HandType'
  <2>1. /\ stage' \in [Executions -> Stages \cup {"none"}] /\ detected' \in [Executions -> BOOLEAN]
        /\ job' \in [Executions -> [Chunks -> Jobs]]
        /\ \A y \in Executions, d \in Chunks : job'[y][d] = NoJob
    BY <1>23, Hands DEF Crash
  <2>2. \A y \in Executions, d \in Chunks : ShapeOf(stage'[y], d, job'[y][d])
    BY <2>1, Hands DEF ShapeOf, Resolving, Constructing, InLock
  <2> QED
    BY <2>1, <2>2 DEF HandType, ShapeInv
<1>24. ASSUME NEW s \in Stages, CleanStatus(s) PROVE HandType'
  BY <1>24, TypeParts DEF CleanStatus, HandType, ShapeInv
<1>25. CASE UNCHANGED vars
  BY <1>25, TypeParts DEF vars, HandType, ShapeInv
<1> QED
  BY <1>1, <1>2, <1>3, <1>4, <1>5, <1>6, <1>7, <1>8, <1>9, <1>10, <1>11, <1>12,
     <1>13, <1>14, <1>15, <1>16, <1>17, <1>18, <1>19, <1>20, <1>21, <1>22, <1>23,
     <1>24, <1>25
     DEF Next, Handle

\* Every step keeps the types of what is stored.
LEMMA StoreStep == IType /\ [Next]_vars => StoreType'
<1> SUFFICES ASSUME IType, [Next]_vars PROVE StoreType'
  OBVIOUS
<1>1. ASSUME NEW x \in Executions, NEW s \in Stages, StartStage(x, s) PROVE StoreType'
  BY <1>1, Bounds, TypeParts DEF StartStage, StoreType, DocsInv, graphVars, historyVars
<1>2. ASSUME NEW x \in Executions, CreateIndexes(x) PROVE StoreType'
  BY <1>2, TypeParts DEF CreateIndexes, Unique, StoreType, DocsInv, historyVars, boundVars
<1>3. ASSUME NEW x \in Executions, NEW c \in Chunks, WriteStatus(x, c) PROVE StoreType'
  <2>1. stage[x] \in Stages /\ job[x][c].out \in Outcomes
    BY <1>3, JobFields DEF WriteStatus, ShapeOf
  <2>2. status' \in [Chunks -> [Stages -> Outcomes]]
    BY <1>3, <2>1, TypeParts DEF WriteStatus, StoreType
  <2> QED
    BY <1>3, <2>2, TypeParts DEF WriteStatus, StoreType, DocsInv, graphVars, historyVars, boundVars
<1>4. ASSUME NEW x \in Executions, NEW c \in Chunks, WriteFails(x, c) PROVE StoreType'
  BY <1>4, Bounds, TypeParts DEF WriteFails, StoreType, DocsInv, graphVars, historyVars, boundVars
<1>5. ASSUME NEW x \in Executions, NEW c \in Chunks, HandlerRaises(x, c) PROVE StoreType'
  BY <1>5, Bounds, TypeParts DEF HandlerRaises, StoreType, DocsInv, graphVars, historyVars, boundVars
<1>6. ASSUME NEW x \in Executions, NEW c \in Chunks, NEW out \in Outcomes \ {"absent"}, Extract(x, c, out) PROVE StoreType'
  BY <1>6, TypeParts DEF Extract, StoreType, DocsInv, graphVars, historyVars, boundVars
<1>7. ASSUME NEW x \in Executions, NEW c \in Chunks, LookUpEntity(x, c) PROVE StoreType'
  <2>1. Meetings(x, c) \subseteq Stages \X SUBSET Chunks
    BY <1>7 DEF LookUpEntity, Meetings, Stages
  <2> QED
    BY <1>7, <2>1, TypeParts DEF LookUpEntity, StoreType, DocsInv, graphVars, boundVars
<1>8. ASSUME NEW x \in Executions, NEW c \in Chunks, UpsertEntity(x, c) PROVE StoreType'
  <2>1. PICK m \in Names, docs \in Seq(EntityDocs) : entities' = [entities EXCEPT ![m] = docs]
    BY <1>8, UpsertStores
  <2>2. entities' \in [Names -> Seq(EntityDocs)]
    BY <2>1, TypeParts DEF StoreType, DocsInv
  <2> QED
    BY <1>8, <2>2, TypeParts DEF UpsertEntity, StoreType, DocsInv, historyVars, boundVars
<1>9. ASSUME NEW x \in Executions, NEW c \in Chunks, StoreEntityFails(x, c) PROVE StoreType'
  BY <1>9, Bounds, TypeParts DEF StoreEntityFails, StoreType, DocsInv, graphVars, historyVars, boundVars
<1>10. ASSUME NEW x \in Executions, NEW c \in Chunks, StoreMentions(x, c) PROVE StoreType'
  <2>1. \A n : Cardinality({i \in DOMAIN job[x][c].ids : job[x][c].ids[i] = n}) \in Nat
    <3> TAKE n
    <3>1. DOMAIN job[x][c].ids = 1..Len(job[x][c].ids) /\ Len(job[x][c].ids) \in Nat
      BY JobFields, LenProperties
    <3>2. IsFiniteSet(DOMAIN job[x][c].ids)
      BY <3>1, FS_Interval
    <3> QED
      BY <3>2, FS_Subset, FS_CardinalityType
  <2>2. mentions' \in [Names \X Chunks -> Nat]
    <3>1. mentions \in [Names \X Chunks -> Nat]
      BY TypeParts DEF StoreType
    <3>a. ASSUME NEW p \in Names \X Chunks
          PROVE  mentions'[p] \in {1, mentions[p],
                                   mentions[p] + Cardinality({i \in DOMAIN job[x][c].ids : job[x][c].ids[i] = p[1]})}
      BY <1>10 DEF StoreMentions
    <3>2. ASSUME NEW p \in Names \X Chunks PROVE mentions'[p] \in Nat
      <4>1. PICK k \in Nat : k = Cardinality({i \in DOMAIN job[x][c].ids : job[x][c].ids[i] = p[1]})
        BY <2>1
      <4>2. mentions[p] \in Nat
        BY <3>1
      <4>3. mentions'[p] \in {1, mentions[p], mentions[p] + k}
        BY <3>a, <4>1
      <4> QED
        BY <4>2, <4>3
    <3>3. mentions' = [p \in Names \X Chunks |-> mentions'[p]]
      BY <1>10 DEF StoreMentions
    <3> QED
      BY <3>2, <3>3
  <2> QED
    BY <1>10, <2>2, TypeParts DEF StoreMentions, StoreType, DocsInv, historyVars, boundVars
<1>11. ASSUME NEW x \in Executions, NEW c \in Chunks, ReadGraph(x, c) PROVE StoreType'
  <2>1. Meetings(x, c) \subseteq Stages \X SUBSET Chunks
    BY <1>11 DEF ReadGraph, Meetings, Stages
  <2> QED
    BY <1>11, <2>1, TypeParts DEF ReadGraph, StoreType, DocsInv, graphVars, boundVars
<1>12. ASSUME NEW x \in Executions, NEW c \in Chunks, NEW e \in Edges, FindRelation(x, c, e) PROVE StoreType'
  BY <1>12, TypeParts DEF FindRelation, StoreType, DocsInv, graphVars, historyVars, boundVars
<1>13. ASSUME NEW x \in Executions, NEW c \in Chunks, StoreRelation(x, c) PROVE StoreType'
  <2>1. PICK e \in Edges, docs \in Seq(RelationDocs) : relations' = [relations EXCEPT ![e] = docs]
    BY <1>13, RelationStores
  <2>2. relations' \in [Edges -> Seq(RelationDocs)]
    BY <2>1, TypeParts DEF StoreType, DocsInv
  <2> QED
    BY <1>13, <2>2, TypeParts DEF StoreRelation, StoreType, DocsInv, boundVars
<1>14. ASSUME NEW x \in Executions, NEW c \in Chunks, StoreRelationFails(x, c) PROVE StoreType'
  BY <1>14, Bounds, TypeParts DEF StoreRelationFails, StoreType, DocsInv, graphVars, historyVars, boundVars
<1>15. ASSUME NEW x \in Executions, NEW c \in Chunks, DetectSkip(x, c) PROVE StoreType'
  BY <1>15, TypeParts DEF DetectSkip, StoreType, DocsInv, graphVars, historyVars, boundVars
<1>16. ASSUME NEW x \in Executions, NEW c \in Chunks, DetectNothing(x, c) PROVE StoreType'
  BY <1>16, TypeParts DEF DetectNothing, StoreType, DocsInv, graphVars, historyVars, boundVars
<1>17. ASSUME NEW x \in Executions, NEW c \in Chunks, Detect(x, c) PROVE StoreType'
  BY <1>17, TypeParts DEF Detect, StoreType, DocsInv, graphVars, historyVars, boundVars
<1>18. ASSUME NEW x \in Executions, NEW c \in Chunks, StoreCommunities(x, c) PROVE StoreType'
  <2>1. job[x][c].todo \in SUBSET Edges /\ communities.over \in SUBSET Edges
    BY JobFields, TypeParts DEF StoreType
  <2>2. communities' \in [stored : BOOLEAN, over : SUBSET Edges]
    BY <1>18, <2>1 DEF StoreCommunities
  <2> QED
    BY <1>18, <2>2, TypeParts DEF StoreCommunities, StoreType, DocsInv, historyVars, boundVars
<1>19. ASSUME NEW x \in Executions, NEW c \in Chunks, StoreCommunitiesFails(x, c) PROVE StoreType'
  BY <1>19, Bounds, TypeParts DEF StoreCommunitiesFails, StoreType, DocsInv, graphVars, historyVars, boundVars
<1>20. ASSUME NEW x \in Executions, NEW c \in Chunks, BatchUpdate(x, c) PROVE StoreType'
  <2>1. status \in [Chunks -> [Stages -> Outcomes]] /\ "completed" \in Outcomes
    BY TypeParts DEF StoreType, Outcomes
  <2>2. status' \in [Chunks -> [Stages -> Outcomes]]
    BY <1>20, <2>1 DEF BatchUpdate
  <2> QED
    BY <1>20, <2>2, TypeParts DEF BatchUpdate, StoreType, DocsInv, graphVars, historyVars, boundVars
<1>21. ASSUME DropCollections PROVE StoreType'
  <2>1. /\ entities' \in [Names -> Seq(EntityDocs)] /\ relations' \in [Edges -> Seq(RelationDocs)]
        /\ mentions' \in [Names \X Chunks -> Nat] /\ communities' \in [stored : BOOLEAN, over : SUBSET Edges]
    BY <1>21, EmptySeq DEF DropCollections
  <2> QED
    BY <1>21, <2>1, Bounds, TypeParts DEF DropCollections, InHand, StoreType, DocsInv, Unique
<1>22. ASSUME ResetChunks PROVE StoreType'
  <2>1. status' \in [Chunks -> [Stages -> Outcomes]]
    BY <1>22 DEF ResetChunks, Outcomes
  <2> QED
    BY <1>22, <2>1, TypeParts DEF ResetChunks, InHand, StoreType, DocsInv, graphVars, boundVars
<1>23. ASSUME Crash PROVE StoreType'
  BY <1>23, Bounds, TypeParts DEF Crash, StoreType, DocsInv, graphVars, historyVars, boundVars
<1>24. ASSUME NEW s \in Stages, CleanStatus(s) PROVE StoreType'
  <2>1. status \in [Chunks -> [Stages -> Outcomes]] /\ "absent" \in Outcomes
    BY TypeParts DEF StoreType, Outcomes
  <2>2. status' \in [Chunks -> [Stages -> Outcomes]]
    BY <1>24, <2>1 DEF CleanStatus
  <2> QED
    BY <1>24, <2>2, Bounds, TypeParts DEF CleanStatus, StoreType, DocsInv, graphVars, historyVars
<1>25. CASE UNCHANGED vars
  BY <1>25, TypeParts DEF vars, StoreType, DocsInv, graphVars, historyVars, boundVars
<1> QED
  BY <1>1, <1>2, <1>3, <1>4, <1>5, <1>6, <1>7, <1>8, <1>9, <1>10, <1>11, <1>12,
     <1>13, <1>14, <1>15, <1>16, <1>17, <1>18, <1>19, <1>20, <1>21, <1>22, <1>23,
     <1>24, <1>25
     DEF Next, Handle

\* Types and shapes hold at first and are kept.
LEMMA TypeInit == Init => IType
<1> SUFFICES ASSUME Init PROVE IType
  OBVIOUS
<1>1. HandType
  <2>1. job \in [Executions -> [Chunks -> Jobs]] /\ \A x \in Executions, c \in Chunks : job[x][c] = NoJob
    BY Hands DEF Init
  <2>2. ShapeInv
    BY <2>1, Hands DEF ShapeInv, ShapeOf, Resolving, Constructing, InLock
  <2> QED
    BY <2>1, <2>2 DEF Init, HandType
<1>2. StoreType
  <2>1. status \in [Chunks -> [Stages -> Outcomes]]
    BY DEF Init, Outcomes
  <2>2. DocsInv
    BY EmptySeq DEF Init, DocsInv
  <2>3. /\ mentions \in [Names \X Chunks -> Nat] /\ communities \in [stored : BOOLEAN, over : SUBSET Edges]
    BY DEF Init
  <2>4. 0 \in 0..MaxRuns /\ 0 \in 0..MaxUpsets
    BY KnowledgeGraphAssumption DEF KnowledgeGraphAssumption
  <2> QED
    BY <2>1, <2>2, <2>3, <2>4 DEF Init, StoreType
<1> QED
  BY <1>1, <1>2, TypeParts

\* So they are by every step.
LEMMA TypeStep == IType /\ [Next]_vars => IType'
  <1>1. HandType' /\ StoreType' => IType'
    BY TypeParts, PTL
  <1> QED
    BY <1>1, HandStep, StoreStep

-----------------------------------------------------------------------------
(* What a step may change *)

\* Only a store writes to a collection, and only a clean takes from it, or from
\* what is known of the chunks.
ChangesOf ==
    /\ \/ entities' = entities
       \/ DropCollections
       \/ \E x \in Executions, c \in Chunks : UpsertEntity(x, c)
    /\ \/ relations' = relations
       \/ DropCollections
       \/ \E x \in Executions, c \in Chunks : StoreRelation(x, c)
    /\ \/ mentions' = mentions
       \/ DropCollections
       \/ \E x \in Executions, c \in Chunks : StoreMentions(x, c)
    /\ \/ communities' = communities
       \/ DropCollections
       \/ \E x \in Executions, c \in Chunks : StoreCommunities(x, c)
    /\ DropCollections \/ (hurt \subseteq hurt' /\ met \subseteq met' /\ late \subseteq late')

\* Every step changes the collections in one of these ways only.
LEMMA Changes == IType /\ [Next]_vars => ChangesOf
<1> SUFFICES ASSUME IType, [Next]_vars PROVE ChangesOf
  OBVIOUS
<1> USE DEF ChangesOf, graphVars, historyVars
<1>1. ASSUME NEW x \in Executions, NEW s \in Stages, StartStage(x, s) PROVE ChangesOf
  BY <1>1 DEF StartStage
<1>2. ASSUME NEW x \in Executions, CreateIndexes(x) PROVE ChangesOf
  BY <1>2 DEF CreateIndexes
<1>3. ASSUME NEW x \in Executions, NEW c \in Chunks, WriteStatus(x, c) PROVE ChangesOf
  BY <1>3 DEF WriteStatus
<1>4. ASSUME NEW x \in Executions, NEW c \in Chunks, WriteFails(x, c) PROVE ChangesOf
  BY <1>4 DEF WriteFails
<1>5. ASSUME NEW x \in Executions, NEW c \in Chunks, HandlerRaises(x, c) PROVE ChangesOf
  BY <1>5 DEF HandlerRaises
<1>6. ASSUME NEW x \in Executions, NEW c \in Chunks, NEW out \in Outcomes \ {"absent"}, Extract(x, c, out) PROVE ChangesOf
  BY <1>6 DEF Extract
<1>7. ASSUME NEW x \in Executions, NEW c \in Chunks, LookUpEntity(x, c) PROVE ChangesOf
  BY <1>7 DEF LookUpEntity
<1>8. ASSUME NEW x \in Executions, NEW c \in Chunks, UpsertEntity(x, c) PROVE ChangesOf
  BY <1>8 DEF UpsertEntity
<1>9. ASSUME NEW x \in Executions, NEW c \in Chunks, StoreEntityFails(x, c) PROVE ChangesOf
  BY <1>9 DEF StoreEntityFails
<1>10. ASSUME NEW x \in Executions, NEW c \in Chunks, StoreMentions(x, c) PROVE ChangesOf
  BY <1>10 DEF StoreMentions
<1>11. ASSUME NEW x \in Executions, NEW c \in Chunks, ReadGraph(x, c) PROVE ChangesOf
  BY <1>11 DEF ReadGraph
<1>12. ASSUME NEW x \in Executions, NEW c \in Chunks, NEW e \in Edges, FindRelation(x, c, e) PROVE ChangesOf
  BY <1>12 DEF FindRelation
<1>13. ASSUME NEW x \in Executions, NEW c \in Chunks, StoreRelation(x, c) PROVE ChangesOf
  BY <1>13 DEF StoreRelation
<1>14. ASSUME NEW x \in Executions, NEW c \in Chunks, StoreRelationFails(x, c) PROVE ChangesOf
  BY <1>14 DEF StoreRelationFails
<1>15. ASSUME NEW x \in Executions, NEW c \in Chunks, DetectSkip(x, c) PROVE ChangesOf
  BY <1>15 DEF DetectSkip
<1>16. ASSUME NEW x \in Executions, NEW c \in Chunks, DetectNothing(x, c) PROVE ChangesOf
  BY <1>16 DEF DetectNothing
<1>17. ASSUME NEW x \in Executions, NEW c \in Chunks, Detect(x, c) PROVE ChangesOf
  BY <1>17 DEF Detect
<1>18. ASSUME NEW x \in Executions, NEW c \in Chunks, StoreCommunities(x, c) PROVE ChangesOf
  BY <1>18 DEF StoreCommunities
<1>19. ASSUME NEW x \in Executions, NEW c \in Chunks, StoreCommunitiesFails(x, c) PROVE ChangesOf
  BY <1>19 DEF StoreCommunitiesFails, IType, TypeOK
<1>20. ASSUME NEW x \in Executions, NEW c \in Chunks, BatchUpdate(x, c) PROVE ChangesOf
  BY <1>20 DEF BatchUpdate
<1>21. ASSUME DropCollections PROVE ChangesOf
  BY <1>21 DEF DropCollections
<1>22. ASSUME ResetChunks PROVE ChangesOf
  BY <1>22 DEF ResetChunks
<1>23. ASSUME Crash PROVE ChangesOf
  BY <1>23 DEF Crash, IType, TypeOK
<1>24. ASSUME NEW s \in Stages, CleanStatus(s) PROVE ChangesOf
  BY <1>24 DEF CleanStatus
<1>25. CASE UNCHANGED vars
  BY <1>25 DEF vars
<1> QED
  BY <1>1, <1>2, <1>3, <1>4, <1>5, <1>6, <1>7, <1>8, <1>9, <1>10, <1>11, <1>12,
     <1>13, <1>14, <1>15, <1>16, <1>17, <1>18, <1>19, <1>20, <1>21, <1>22, <1>23,
     <1>24, <1>25
     DEF Next, Handle

\* What becomes of a handler: nothing, nothing more, a place in a queue, a status
\* that is not one of success, or what one of its own steps makes of it.
StepOf(y, d) ==
    \/ LookUpEntity(y, d) \/ UpsertEntity(y, d) \/ StoreEntityFails(y, d) \/ StoreMentions(y, d)
    \/ ReadGraph(y, d) \/ (\E e \in Edges : FindRelation(y, d, e)) \/ StoreRelation(y, d) \/ StoreRelationFails(y, d)
    \/ Detect(y, d) \/ StoreCommunities(y, d) \/ StoreCommunitiesFails(y, d)

NextHand(y, d) ==
    \/ job'[y][d] = job[y][d] /\ (stage'[y] = stage[y] \/ job[y][d].at = "none")
    \/ job'[y][d] = NoJob
    \/ job'[y][d] = Queued /\ d \in Due(stage'[y]) /\ UNCHANGED <<status, graphVars, cleaning, historyVars>>
    \/ job'[y][d].at = "write" /\ job'[y][d].ids = <<>>
       /\ (job'[y][d].out = "failed" \/ stage'[y] = "extraction")
    \/ StepOf(y, d)

\* Who does not step keeps its hand.
LEMMA OtherHands ==
    ASSUME IType, NEW x \in Executions, NEW c \in Chunks, NEW y \in Executions, NEW d \in Chunks, y # x \/ d # c,
           \/ LookUpEntity(x, c) \/ UpsertEntity(x, c) \/ StoreEntityFails(x, c) \/ StoreMentions(x, c)
           \/ ReadGraph(x, c) \/ (\E e \in Edges : FindRelation(x, c, e)) \/ StoreRelation(x, c)
           \/ StoreRelationFails(x, c) \/ Detect(x, c) \/ StoreCommunities(x, c) \/ StoreCommunitiesFails(x, c)
    PROVE  job'[y][d] = job[y][d] /\ stage' = stage
  <1>1. \E j : Become(x, c, j) /\ stage' = stage
    BY DEF LookUpEntity, UpsertEntity, StoreEntityFails, StoreMentions, ReadGraph, FindRelation, StoreRelation,
           StoreRelationFails, NextRelation, Detect, StoreCommunities, StoreCommunitiesFails
  <1> QED
    BY <1>1 DEF Become, IType, TypeOK

\* Every step makes no more of a handler.
LEMMA HandsChange ==
    ASSUME IType, [Next]_vars, NEW y \in Executions, NEW d \in Chunks
    PROVE  NextHand(y, d)
<1>1. ASSUME NEW x \in Executions, NEW s \in Stages, StartStage(x, s) PROVE NextHand(y, d)
  <2>1. /\ Writing("failed").at = "write" /\ Writing("failed").ids = <<>> /\ Writing("failed").out = "failed"
    BY EmptySeq DEF Writing, NoJob
  <2>2. PICK g : /\ job' = [job EXCEPT ![x] = g]
                 /\ g = [c \in Chunks |-> IF c \notin Due(s) THEN NoJob
                                        ELSE IF s = "construction" /\ status[c].extraction # "completed"
                                             THEN Writing("failed") ELSE Queued]
    BY <1>1 DEF StartStage, Queued
  <2>3. CASE y = x
    <3>1. stage'[y] = s /\ job'[y][d] = g[d]
      BY <1>1, <2>2, <2>3 DEF StartStage, IType, TypeOK
    <3>2. g[d] = NoJob \/ (g[d] = Queued /\ d \in Due(s)) \/ g[d] = Writing("failed")
      BY <2>2
    <3>3. UNCHANGED <<status, graphVars, cleaning, historyVars>>
      BY <1>1 DEF StartStage
    <3> QED
      BY <2>1, <3>1, <3>2, <3>3 DEF NextHand
  <2>4. CASE y # x
    BY <1>1, <2>2, <2>4 DEF StartStage, IType, TypeOK, NextHand
  <2> QED
    BY <2>3, <2>4
<1>2. ASSUME NEW x \in Executions, CreateIndexes(x) PROVE NextHand(y, d)
  BY <1>2 DEF CreateIndexes, NextHand
<1>3. ASSUME NEW x \in Executions, NEW c \in Chunks, WriteStatus(x, c) PROVE NextHand(y, d)
  BY <1>3, ReturnShape DEF WriteStatus, NextHand
<1>4. ASSUME NEW x \in Executions, NEW c \in Chunks, WriteFails(x, c) PROVE NextHand(y, d)
  BY <1>4, ReturnShape DEF WriteFails, NextHand
<1>5. ASSUME NEW x \in Executions, NEW c \in Chunks, HandlerRaises(x, c) PROVE NextHand(y, d)
  <2>1. stage' = stage
    BY <1>5 DEF HandlerRaises
  <2>2. PICK o \in Outcomes : Become(x, c, Writing(o)) /\ (o = "failed" \/ stage[x] = "extraction")
    BY <1>5 DEF HandlerRaises, Outcomes
  <2>3. /\ Writing(o) \in Jobs /\ Writing(o).at = "write" /\ Writing(o).out = o /\ Writing(o).ids = <<>>
    BY Hands, EmptySeq DEF Writing, NoJob
  <2>4. job'[y][d] = job[y][d] \/ (x = y /\ c = d /\ job'[y][d] = Writing(o))
    BY <2>2, <2>3, BecomeOne
  <2> QED
    BY <2>1, <2>2, <2>3, <2>4 DEF NextHand
<1>6. ASSUME NEW x \in Executions, NEW c \in Chunks, NEW out \in Outcomes \ {"absent"}, Extract(x, c, out) PROVE NextHand(y, d)
  <2>1. stage' = stage
    BY <1>6 DEF Extract
  <2>2. PICK o \in Outcomes : Become(x, c, Writing(o)) /\ (o = "failed" \/ stage[x] = "extraction")
    BY <1>6 DEF Extract, Outcomes
  <2>3. /\ Writing(o) \in Jobs /\ Writing(o).at = "write" /\ Writing(o).out = o /\ Writing(o).ids = <<>>
    BY Hands, EmptySeq DEF Writing, NoJob
  <2>4. job'[y][d] = job[y][d] \/ (x = y /\ c = d /\ job'[y][d] = Writing(o))
    BY <2>2, <2>3, BecomeOne
  <2> QED
    BY <2>1, <2>2, <2>3, <2>4 DEF NextHand
<1>7. ASSUME NEW x \in Executions, NEW c \in Chunks, LookUpEntity(x, c) PROVE NextHand(y, d)
  <2>1. stage' = stage
    BY <1>7 DEF LookUpEntity
  <2>2. job'[y][d] = job[y][d] \/ (x = y /\ c = d)
    BY <1>7, OtherHands
  <2> QED
    BY <1>7, <2>1, <2>2 DEF NextHand, StepOf
<1>8. ASSUME NEW x \in Executions, NEW c \in Chunks, UpsertEntity(x, c) PROVE NextHand(y, d)
  <2>1. stage' = stage
    BY <1>8 DEF UpsertEntity
  <2>2. job'[y][d] = job[y][d] \/ (x = y /\ c = d)
    BY <1>8, OtherHands
  <2> QED
    BY <1>8, <2>1, <2>2 DEF NextHand, StepOf
<1>9. ASSUME NEW x \in Executions, NEW c \in Chunks, StoreEntityFails(x, c) PROVE NextHand(y, d)
  <2>1. stage' = stage
    BY <1>9 DEF StoreEntityFails
  <2>2. job'[y][d] = job[y][d] \/ (x = y /\ c = d)
    BY <1>9, OtherHands
  <2> QED
    BY <1>9, <2>1, <2>2 DEF NextHand, StepOf
<1>10. ASSUME NEW x \in Executions, NEW c \in Chunks, StoreMentions(x, c) PROVE NextHand(y, d)
  <2>1. stage' = stage
    BY <1>10 DEF StoreMentions
  <2>2. job'[y][d] = job[y][d] \/ (x = y /\ c = d)
    BY <1>10, OtherHands
  <2> QED
    BY <1>10, <2>1, <2>2 DEF NextHand, StepOf
<1>11. ASSUME NEW x \in Executions, NEW c \in Chunks, ReadGraph(x, c) PROVE NextHand(y, d)
  <2>1. stage' = stage
    BY <1>11 DEF ReadGraph
  <2>2. job'[y][d] = job[y][d] \/ (x = y /\ c = d)
    BY <1>11, OtherHands
  <2> QED
    BY <1>11, <2>1, <2>2 DEF NextHand, StepOf
<1>12. ASSUME NEW x \in Executions, NEW c \in Chunks, NEW e \in Edges, FindRelation(x, c, e) PROVE NextHand(y, d)
  <2>1. stage' = stage
    BY <1>12 DEF FindRelation
  <2>2. job'[y][d] = job[y][d] \/ (x = y /\ c = d)
    BY <1>12, OtherHands
  <2> QED
    BY <1>12, <2>1, <2>2 DEF NextHand, StepOf
<1>13. ASSUME NEW x \in Executions, NEW c \in Chunks, StoreRelation(x, c) PROVE NextHand(y, d)
  <2>1. stage' = stage
    BY <1>13 DEF StoreRelation
  <2>2. job'[y][d] = job[y][d] \/ (x = y /\ c = d)
    BY <1>13, OtherHands
  <2> QED
    BY <1>13, <2>1, <2>2 DEF NextHand, StepOf
<1>14. ASSUME NEW x \in Executions, NEW c \in Chunks, StoreRelationFails(x, c) PROVE NextHand(y, d)
  <2>1. stage' = stage
    BY <1>14 DEF StoreRelationFails
  <2>2. job'[y][d] = job[y][d] \/ (x = y /\ c = d)
    BY <1>14, OtherHands
  <2> QED
    BY <1>14, <2>1, <2>2 DEF NextHand, StepOf
<1>15. ASSUME NEW x \in Executions, NEW c \in Chunks, DetectSkip(x, c) PROVE NextHand(y, d)
  BY <1>15, ReturnShape DEF DetectSkip, NextHand
<1>16. ASSUME NEW x \in Executions, NEW c \in Chunks, DetectNothing(x, c) PROVE NextHand(y, d)
  <2>1. stage' = stage
    BY <1>16 DEF DetectNothing
  <2>2. PICK o \in Outcomes : Become(x, c, Writing(o)) /\ (o = "failed" \/ stage[x] = "extraction")
    BY <1>16 DEF DetectNothing, Outcomes
  <2>3. /\ Writing(o) \in Jobs /\ Writing(o).at = "write" /\ Writing(o).out = o /\ Writing(o).ids = <<>>
    BY Hands, EmptySeq DEF Writing, NoJob
  <2>4. job'[y][d] = job[y][d] \/ (x = y /\ c = d /\ job'[y][d] = Writing(o))
    BY <2>2, <2>3, BecomeOne
  <2> QED
    BY <2>1, <2>2, <2>3, <2>4 DEF NextHand
<1>17. ASSUME NEW x \in Executions, NEW c \in Chunks, Detect(x, c) PROVE NextHand(y, d)
  <2>1. stage' = stage
    BY <1>17 DEF Detect
  <2>2. job'[y][d] = job[y][d] \/ (x = y /\ c = d)
    BY <1>17, OtherHands
  <2> QED
    BY <1>17, <2>1, <2>2 DEF NextHand, StepOf
<1>18. ASSUME NEW x \in Executions, NEW c \in Chunks, StoreCommunities(x, c) PROVE NextHand(y, d)
  <2>1. stage' = stage
    BY <1>18 DEF StoreCommunities
  <2>2. job'[y][d] = job[y][d] \/ (x = y /\ c = d)
    BY <1>18, OtherHands
  <2> QED
    BY <1>18, <2>1, <2>2 DEF NextHand, StepOf
<1>19. ASSUME NEW x \in Executions, NEW c \in Chunks, StoreCommunitiesFails(x, c) PROVE NextHand(y, d)
  <2>1. stage' = stage
    BY <1>19 DEF StoreCommunitiesFails
  <2>2. job'[y][d] = job[y][d] \/ (x = y /\ c = d)
    BY <1>19, OtherHands
  <2> QED
    BY <1>19, <2>1, <2>2 DEF NextHand, StepOf
<1>20. ASSUME NEW x \in Executions, NEW c \in Chunks, BatchUpdate(x, c) PROVE NextHand(y, d)
  BY <1>20, ReturnShape DEF BatchUpdate, NextHand
<1>21. ASSUME DropCollections PROVE NextHand(y, d)
  BY <1>21 DEF DropCollections, NextHand
<1>22. ASSUME ResetChunks PROVE NextHand(y, d)
  BY <1>22 DEF ResetChunks, NextHand
<1>23. ASSUME Crash PROVE NextHand(y, d)
  BY <1>23 DEF Crash, NextHand
<1>24. ASSUME NEW s \in Stages, CleanStatus(s) PROVE NextHand(y, d)
  BY <1>24 DEF CleanStatus, NextHand
<1>25. CASE UNCHANGED vars
  BY <1>25 DEF vars, NextHand
<1> QED
  BY <1>1, <1>2, <1>3, <1>4, <1>5, <1>6, <1>7, <1>8, <1>9, <1>10, <1>11, <1>12,
     <1>13, <1>14, <1>15, <1>16, <1>17, <1>18, <1>19, <1>20, <1>21, <1>22, <1>23,
     <1>24, <1>25
     DEF Next, Handle

\* What is stored stays and grows, but for a clean.
LEMMA Growth ==
    ASSUME IType, [Next]_vars, ~DropCollections
    PROVE  /\ hurt \subseteq hurt' /\ met \subseteq met' /\ late \subseteq late'
           /\ \A n \in Names : \/ entities'[n] = entities[n]
                               \/ \E c \in Chunks : Grown(entities[n], entities'[n], c)
           /\ \A n \in Names : \A k : Alias(entities[n], k) => Alias(entities'[n], k)
           /\ \A e \in Edges : \/ relations'[e] = relations[e]
                               \/ \E c \in Chunks : Grown(relations[e], relations'[e], c)
  <1>1. ASSUME NEW x \in Executions, NEW c \in Chunks, UpsertEntity(x, c), NEW n \in Names
        PROVE  /\ \/ entities'[n] = entities[n]
                  \/ Grown(entities[n], entities'[n], c)
               /\ \A k : Alias(entities[n], k) => Alias(entities'[n], k)
    <2>1. PICK m \in Names, docs \in Seq(EntityDocs) :
             /\ job[x][c].to = <<m>> /\ entities[m] \in Seq(EntityDocs)
             /\ UpsertOf(job[x][c], c, entities[m], docs)
             /\ entities' = [entities EXCEPT ![m] = docs]
             /\ Become(x, c, [NoJob EXCEPT !.at = "entity", !.ids = Append(job[x][c].ids, m)])
      BY <1>1, UpsertStores, Zenon
    <2>2. job[x][c] \in Jobs /\ Mentioned[c][Len(job[x][c].ids) + 1] \in Names
      BY <1>1, JobFields, NextName DEF UpsertEntity, ShapeOf
    <2>3. Grown(entities[m], docs, c) /\ \A k : Alias(entities[m], k) => Alias(docs, k)
      BY <2>1, <2>2, UpsertGrows
    <2>4. entities'[n] = IF n = m THEN docs ELSE entities[n]
      BY <2>1 DEF IType, DocsInv
    <2> QED
      BY <2>3, <2>4
  <1>2. ASSUME NEW x \in Executions, NEW c \in Chunks, StoreRelation(x, c), NEW e \in Edges
        PROVE  \/ relations'[e] = relations[e]
               \/ Grown(relations[e], relations'[e], c)
    <2>1. PICK f \in Edges, docs \in Seq(RelationDocs) :
             /\ relations[f] \in Seq(RelationDocs)
             /\ RelationOf(job[x][c], c, relations[f], docs)
             /\ relations' = [relations EXCEPT ![f] = docs]
      BY <1>2, RelationStores
    <2>2. job[x][c] \in Jobs
      BY JobFields
    <2>3. Grown(relations[f], docs, c)
      BY <2>1, <2>2, RelationGrows
    <2>4. relations'[e] = IF e = f THEN docs ELSE relations[e]
      BY <2>1 DEF IType, DocsInv
    <2> QED
      BY <2>3, <2>4
  <1>3. ChangesOf
    BY Changes
  <1> QED
    BY <1>1, <1>2, <1>3 DEF ChangesOf

\* So what is stored and who stored it is not forgotten.
LEMMA Keeps ==
    ASSUME IType, [Next]_vars, ~DropCollections
    PROVE  /\ hurt \subseteq hurt' /\ met \subseteq met' /\ late \subseteq late'
           /\ \A n \in Names : /\ Stored(n) => Stored(n)'
                               /\ AllSources(entities[n]) \subseteq AllSources(entities'[n])
                               /\ Sources(entities[n]) \subseteq Sources(entities'[n])
                               /\ IdsOf(n) \subseteq IdsOf(n)'
           /\ \A e \in Edges : /\ Linked(e) => Linked(e)'
                               /\ AllSources(relations[e]) \subseteq AllSources(relations'[e])
                               /\ Sources(relations[e]) \subseteq Sources(relations'[e])
  <1>1. \A n \in Names : /\ Stored(n) => Stored(n)'
                         /\ AllSources(entities[n]) \subseteq AllSources(entities'[n])
                         /\ Sources(entities[n]) \subseteq Sources(entities'[n])
    BY Growth DEF Grown, Stored
  <1>2. \A e \in Edges : /\ Linked(e) => Linked(e)'
                         /\ AllSources(relations[e]) \subseteq AllSources(relations'[e])
                         /\ Sources(relations[e]) \subseteq Sources(relations'[e])
    BY Growth DEF Grown, Linked
  <1>3. ASSUME NEW n \in Names PROVE IdsOf(n) \subseteq IdsOf(n)'
    <2>1. IdsOf(n) = {m \in Names : Stored(m) /\ (m = n \/ Alias(entities[m], n))}
      BY DEF IdsOf, Alias
    <2>2. IdsOf(n)' = {m \in Names : Stored(m)' /\ (m = n \/ Alias(entities'[m], n))}
      BY DEF IdsOf, Alias
    <2>3. \A m \in Names : Alias(entities[m], n) => Alias(entities'[m], n)
      BY Growth
    <2> QED
      BY <1>1, <2>1, <2>2, <2>3
  <1> QED
    BY <1>1, <1>2, <1>3, Growth

\* What a clean leaves.
LEMMA Dropped ==
    ASSUME IType, DropCollections
    PROVE  /\ \A n \in Names : /\ ~Stored(n)' /\ AllSources(entities'[n]) = {} /\ Sources(entities'[n]) = {}
                               /\ entities'[n] = <<>>
           /\ \A e \in Edges : /\ ~Linked(e)' /\ AllSources(relations'[e]) = {} /\ Sources(relations'[e]) = {}
                               /\ relations'[e] = <<>>
           /\ \A n \in Names, c \in Chunks : mentions'[<<n, c>>] = 0
           /\ \A x \in Executions, c \in Chunks : job[x][c].at # "none" => c \in hurt'
           /\ cleaning' /\ ~communities'.stored
           /\ job' = job /\ stage' = stage /\ status' = status
  <1>1. \A docs : docs = <<>> => AllSources(docs) = {} /\ Sources(docs) = {}
    BY DEF AllSources, Sources
  <1> QED
    BY <1>1 DEF DropCollections, Stored, Linked, InHand

\* All that an upsert does.
Upserted(x, c, m, docs) ==
    /\ job[x][c].at = "upsert" /\ job[x][c].to = <<m>> /\ stage[x] = "resolution"
    /\ UpsertOf(job[x][c], c, entities[m], docs)
    /\ \A n \in Names : entities'[n] = IF n = m THEN docs ELSE entities[n]
    /\ Grown(entities[m], docs, c) /\ docs # <<>> /\ c \in AllSources(docs)
    /\ Twice(docs) => Twice(entities[m]) \/ (job[x][c].gone /\ Stored(m))
    /\ m = Mentioned[c][Len(job[x][c].ids) + 1] \/ Alias(docs, Mentioned[c][Len(job[x][c].ids) + 1])
    /\ job'[x][c].at = "entity" /\ job'[x][c].ids = Append(job[x][c].ids, m)
    /\ UNCHANGED <<status, relations, mentions, communities, stage, cleaning, met, late, hurt>>

\* An upsert does that.
LEMMA Upserts ==
    ASSUME IType, NEW x \in Executions, NEW c \in Chunks, UpsertEntity(x, c)
    PROVE  \E m \in Names, docs \in Seq(EntityDocs) : Upserted(x, c, m, docs)
  <1>1. PICK m \in Names, docs \in Seq(EntityDocs) :
             /\ job[x][c].to = <<m>> /\ entities[m] \in Seq(EntityDocs)
             /\ UpsertOf(job[x][c], c, entities[m], docs)
             /\ entities' = [entities EXCEPT ![m] = docs]
             /\ Become(x, c, [NoJob EXCEPT !.at = "entity", !.ids = Append(job[x][c].ids, m)])
    BY UpsertStores, Zenon
  <1>2. job[x][c].at = "upsert" /\ stage[x] = "resolution"
        /\ UNCHANGED <<status, relations, mentions, communities, stage, cleaning, met, late, hurt>>
    BY JobFields DEF UpsertEntity, historyVars, ShapeOf, Resolving
  <1>3. job[x][c] \in Jobs /\ Mentioned[c][Len(job[x][c].ids) + 1] \in Names
    BY <1>2, JobFields, NextName DEF ShapeOf
  <1>4. /\ Grown(entities[m], docs, c) /\ docs # <<>> /\ c \in AllSources(docs)
        /\ Twice(docs) => Twice(entities[m]) \/ (job[x][c].gone /\ entities[m] # <<>>)
        /\ m = Mentioned[c][Len(job[x][c].ids) + 1] \/ Alias(docs, Mentioned[c][Len(job[x][c].ids) + 1])
    BY <1>1, <1>3, UpsertGrows
  <1>5. \A n \in Names : entities'[n] = IF n = m THEN docs ELSE entities[n]
    BY <1>1 DEF IType, DocsInv
  <1>6. Become(x, c, NamedSoFar(Append(job[x][c].ids, m)))
    BY <1>1 DEF NamedSoFar
  <1>7. PICK j \in Jobs : /\ j = NamedSoFar(Append(job[x][c].ids, m))
                          /\ j.at = "entity" /\ j.ids = Append(job[x][c].ids, m)
    BY <1>2, UpsertHands
  <1>8. job'[x][c] = j
    BY <1>6, <1>7, BecomeOne
  <1> QED
    BY <1>1, <1>2, <1>4, <1>5, <1>7, <1>8 DEF Upserted, Stored

\* All that a store of a relation does to the collection.
Put(x, c, e, docs) ==
    /\ job[x][c].at = "put" /\ job[x][c].to = e /\ e \in job[x][c].todo /\ stage[x] = "construction"
    /\ RelationOf(job[x][c], c, relations[e], docs)
    /\ \A f \in Edges : relations'[f] = IF f = e THEN docs ELSE relations[f]
    /\ Grown(relations[e], docs, c) /\ AllSources(docs) \subseteq AllSources(relations[e]) \cup {c}
    /\ c \in AllSources(docs) \/ (job[x][c].gone /\ Linked(e)) \/ (~job[x][c].gone /\ ~Linked(e))
    /\ ~Linked(e) /\ docs # <<>> => job[x][c].gone /\ c \in AllSources(docs)
    /\ UNCHANGED <<status, entities, mentions, communities, stage, cleaning, met, hurt>>
    /\ Belated(c) => c \in late'

\* A store of a relation does that.
LEMMA Puts ==
    ASSUME IType, NEW x \in Executions, NEW c \in Chunks, StoreRelation(x, c)
    PROVE  \E e \in Edges, docs \in Seq(RelationDocs) : Put(x, c, e, docs)
  <1>1. PICK e \in Edges, docs \in Seq(RelationDocs) :
             /\ job[x][c].to = e /\ relations[e] \in Seq(RelationDocs)
             /\ RelationOf(job[x][c], c, relations[e], docs)
             /\ relations' = [relations EXCEPT ![e] = docs]
    BY RelationStores
  <1>2. /\ job[x][c].at = "put" /\ stage[x] = "construction" /\ job[x][c].to \in job[x][c].todo
        /\ UNCHANGED <<status, entities, mentions, communities, stage, cleaning, met, hurt>>
        /\ Belated(c) => c \in late'
    BY JobFields DEF StoreRelation, ShapeOf, Constructing
  <1>3. /\ Grown(relations[e], docs, c) /\ AllSources(docs) \subseteq AllSources(relations[e]) \cup {c}
        /\ c \in AllSources(docs) \/ (job[x][c].gone /\ relations[e] # <<>>) \/ (~job[x][c].gone /\ relations[e] = <<>>)
        /\ relations[e] = <<>> /\ docs # <<>> => job[x][c].gone /\ c \in AllSources(docs)
    BY <1>1, JobFields, RelationGrows
  <1>4. \A f \in Edges : relations'[f] = IF f = e THEN docs ELSE relations[f]
    BY <1>1 DEF IType, DocsInv
  <1> QED
    BY <1>1, <1>2, <1>3, <1>4 DEF Put, Linked

\* What a handler's step makes of it, where it matters to the invariant.
LEMMA NextReads ==
    ASSUME IType, NEW x \in Executions, NEW c \in Chunks, ReadGraph(x, c)
    PROVE  \/ job'[x][c] = Writing("failed")
           \/ \E id \in [UNION {{r[1], r[2]} : r \in Related[c]} -> Names] :
                 /\ \A n \in DOMAIN id : id[n] \in IF IdsOf(n) = {} THEN {n} ELSE IdsOf(n)
                 /\ Valid(c, id) # {} /\ Valid(c, id) \in SUBSET Edges
                 /\ job'[x][c].at = "edge" /\ job'[x][c].todo = Valid(c, id) /\ job'[x][c].ids = <<>>
  <1>1. PICK id \in [UNION {{r[1], r[2]} : r \in Related[c]} -> Names] :
              /\ \A n \in DOMAIN id : id[n] \in IF IdsOf(n) = {} THEN {n} ELSE IdsOf(n)
              /\ Valid(c, id) \in SUBSET Edges
              /\ \/ Valid(c, id) = {} /\ Become(x, c, Writing("failed"))
                 \/ Valid(c, id) # {} /\ Become(x, c, StillToPut(Valid(c, id)))
    BY ReadsGraph
  <1>2. Writing("failed") \in Jobs
    BY Hands DEF Outcomes
  <1>3. CASE Become(x, c, Writing("failed"))
    BY <1>2, <1>3, BecomeOne
  <1>4. CASE Valid(c, id) # {} /\ Become(x, c, StillToPut(Valid(c, id)))
    <2>1. PICK j \in Jobs : j = StillToPut(Valid(c, id)) /\ j.at = "edge" /\ j.todo = Valid(c, id) /\ j.ids = <<>>
      BY <1>1, FreshHands
    <2>2. job'[x][c] = j
      BY <1>4, <2>1, BecomeOne
    <2> QED
      BY <1>1, <1>4, <2>1, <2>2
  <1> QED
    BY <1>1, <1>3, <1>4

\* After a relation, stored or not, the handler has the others or is done.
LEMMA NextPuts ==
    ASSUME IType, NEW x \in Executions, NEW c \in Chunks, StoreRelation(x, c) \/ StoreRelationFails(x, c)
    PROVE  /\ job[x][c].at = "put" /\ stage[x] = "construction" /\ stage' = stage
           /\ \/ job'[x][c] = Writing("completed") /\ job[x][c].todo \ {job[x][c].to} = {}
              \/ job'[x][c].at = "edge" /\ job'[x][c].todo = job[x][c].todo \ {job[x][c].to} /\ job'[x][c].ids = <<>>
  <1>1. job[x][c].at = "put" /\ NextRelation(x, c) /\ stage' = stage
    BY DEF StoreRelation, StoreRelationFails
  <1>2. PICK rest \in SUBSET Edges :
           /\ rest = job[x][c].todo \ {job[x][c].to} /\ stage[x] = "construction"
           /\ \/ rest = {} /\ Become(x, c, Writing("completed"))
              \/ rest # {} /\ Become(x, c, StillToPut(rest)) /\ StillToPut(rest) \in Jobs
                 /\ StillToPut(rest).at = "edge" /\ StillToPut(rest).todo = rest /\ StillToPut(rest).ids = <<>>
    BY <1>1, NextHands
  <1>3. Writing("completed") \in Jobs
    BY Hands DEF Outcomes
  <1>4. CASE rest = {} /\ Become(x, c, Writing("completed"))
    BY <1>1, <1>2, <1>3, <1>4, BecomeOne
  <1>5. CASE rest # {} /\ Become(x, c, StillToPut(rest)) /\ StillToPut(rest) \in Jobs
             /\ StillToPut(rest).at = "edge" /\ StillToPut(rest).todo = rest /\ StillToPut(rest).ids = <<>>
    <2>1. PICK j \in Jobs : j = StillToPut(rest) /\ j.at = "edge" /\ j.todo = rest /\ j.ids = <<>>
      BY <1>5
    <2>2. job'[x][c] = j
      BY <1>5, <2>1, BecomeOne
    <2> QED
      BY <1>1, <1>2, <2>1, <2>2
  <1> QED
    BY <1>2, <1>4, <1>5

\* A detection has the linked edges in hand, then nothing.
LEMMA NextDetects ==
    ASSUME IType, NEW x \in Executions, NEW c \in Chunks
    PROVE  /\ Detect(x, c) => /\ stage' = stage /\ job'[x][c].at = "store" /\ job'[x][c].ids = <<>>
                              /\ job'[x][c].todo = {e \in Edges : Linked(e)}
           /\ StoreCommunities(x, c) \/ StoreCommunitiesFails(x, c) =>
                 stage' = stage /\ job'[x][c].at = "batch" /\ job'[x][c].ids = <<>>
  <1>1. ASSUME Detect(x, c)
        PROVE  /\ stage' = stage /\ job'[x][c].at = "store" /\ job'[x][c].ids = <<>>
               /\ job'[x][c].todo = {e \in Edges : Linked(e)}
    <2>1. PICK j \in Jobs : /\ j = HasRead({e \in Edges : Linked(e)})
                            /\ j.at = "store" /\ j.ids = <<>> /\ j.todo = {e \in Edges : Linked(e)}
      BY FreshHands
    <2>2. Become(x, c, j)
      BY <1>1, <2>1 DEF Detect, HasRead
    <2> QED
      BY <1>1, <2>1, <2>2, BecomeOne DEF Detect
  <1>2. ASSUME StoreCommunities(x, c) \/ StoreCommunitiesFails(x, c)
        PROVE  stage' = stage /\ job'[x][c].at = "batch" /\ job'[x][c].ids = <<>>
    <2>1. PICK j \in Jobs : j = HasDetected /\ j.at = "batch" /\ j.ids = <<>>
      BY FreshHands
    <2>2. Become(x, c, j)
      BY <1>2, <2>1 DEF StoreCommunities, StoreCommunitiesFails, HasDetected
    <2> QED
      BY <1>2, <2>1, <2>2, BecomeOne DEF StoreCommunities, StoreCommunitiesFails
  <1> QED
    BY <1>1, <1>2

\* The mentions are stored once every name has an id, and end the handler.
LEMMA NextMentions ==
    ASSUME IType, NEW x \in Executions, NEW c \in Chunks, StoreMentions(x, c)
    PROVE  /\ job'[x][c] = Writing("completed") /\ stage' = stage /\ stage[x] = "resolution"
           /\ job[x][c].at = "entity" /\ Len(job[x][c].ids) = Len(Mentioned[c])
  <1>1. Writing("completed") \in Jobs
    BY Hands DEF Outcomes
  <1> QED
    BY <1>1, JobFields, BecomeOne DEF StoreMentions, ShapeOf, Resolving

\* A failed upsert hurts its chunk.
LEMMA NextFails ==
    ASSUME IType, NEW x \in Executions, NEW c \in Chunks, StoreEntityFails(x, c)
    PROVE  /\ job'[x][c].at = "entity" /\ c \in hurt' /\ entities' = entities /\ stage' = stage
           /\ job[x][c].at = "upsert"
  <1>1. job[x][c].at = "upsert" /\ c \in hurt' /\ entities' = entities /\ stage' = stage
    BY DEF StoreEntityFails, graphVars
  <1>2. Mentioned[c][Len(job[x][c].ids) + 1] \in Names
    BY <1>1, JobFields, NextName DEF ShapeOf
  <1>3. Become(x, c, NamedSoFar(Append(job[x][c].ids, Mentioned[c][Len(job[x][c].ids) + 1])))
    BY DEF StoreEntityFails, NamedSoFar
  <1>4. PICK j \in Jobs : j = NamedSoFar(Append(job[x][c].ids, Mentioned[c][Len(job[x][c].ids) + 1])) /\ j.at = "entity"
    BY <1>1, <1>2, UpsertHands
  <1>5. job'[x][c] = j
    BY <1>3, <1>4, BecomeOne
  <1> QED
    BY <1>1, <1>4, <1>5

\* A hand that writes.
LEMMA WritingHand ==
    ASSUME NEW out
    PROVE  Writing(out).at = "write" /\ Writing(out).out = out /\ Writing(out).ids = <<>>
  BY DEF Writing, NoJob

-----------------------------------------------------------------------------
(* What is referred to *)

\* No handler comes to refer to what is not there, unless its chunk is hurt.
LEMMA HeldStep ==
    ASSUME IType, HeldResolves, [Next]_vars
    PROVE  HeldResolves'
<1> SUFFICES ASSUME NEW y \in Executions, NEW d \in Chunks, d \notin hurt'
             PROVE  Resolves(job[y][d])'
  BY DEF HeldResolves
<1> DEFINE j == job[y][d]
           There(n) == entities'[n] # <<>>
           Ids == \A k \in DOMAIN job'[y][d].ids : There(job'[y][d].ids[k])
           Ends == job'[y][d].at \in Constructing => \A e \in job'[y][d].todo : There(e[1]) /\ There(e[2])
<1>0. Ids /\ Ends => Resolves(job[y][d])'
  BY DEF Resolves, Stored
<1>h. Constructing = {"edge", "put"}
  BY DEF Constructing
<1>1. CASE DropCollections
  <2>1. j.at = "none" /\ job' = job
    BY <1>1, Dropped
  <2>2. j.ids = <<>>
    BY <2>1, JobFields DEF ShapeOf, Resolving
  <2> QED
    BY <2>1, <2>2, <1>h, <1>0
<1>2. CASE ~DropCollections
  <2>1. Resolves(j)
    <3>1. d \notin hurt
      BY <1>2, Keeps
    <3> QED
      BY <3>1 DEF HeldResolves
  <2>2. \A n \in Names : Stored(n) => There(n)
    BY <1>2, Keeps DEF Stored
  <2>3. \A e \in Edges : e[1] \in Names /\ e[2] \in Names
    BY DEF Edges
  <2>4. /\ \A k \in DOMAIN j.ids : There(j.ids[k]) /\ j.ids[k] \in Names
        /\ j.at \in Constructing => \A e \in j.todo : There(e[1]) /\ There(e[2])
    <3>1. /\ j.ids \in Seq(Names) /\ j.todo \subseteq Edges
      BY JobFields
    <3>2. \A k \in DOMAIN j.ids : j.ids[k] \in Names
      BY <3>1, ElementOfSeq, LenProperties
    <3> QED
      BY <2>1, <2>2, <2>3, <3>1, <3>2 DEF Resolves
  <2>e. \A k \in DOMAIN <<>> : FALSE
    OBVIOUS
  <2>5. CASE job'[y][d].ids = <<>> /\ job'[y][d].at \notin Constructing
    BY <2>5, <2>e, <1>0
  <2>6. CASE job'[y][d] = job[y][d]
    BY <2>6, <2>4, <1>0
  <2>7. CASE LookUpEntity(y, d)
    <3>1. PICK i \in Jobs : Become(y, d, i) /\ i.at = "upsert" /\ i.ids = j.ids
      BY <2>7, LookUpAims
    <3>2. job'[y][d] = i
      BY <3>1, BecomeOne
    <3> QED
      BY <3>1, <3>2, <2>4, <1>h, <1>0
  <2>8. CASE UpsertEntity(y, d)
    <3>1. PICK m \in Names, docs \in Seq(EntityDocs) : Upserted(y, d, m, docs)
      BY <2>8, Upserts
    <3>2. job'[y][d].at = "entity" /\ job'[y][d].ids = Append(j.ids, m) /\ There(m)
      BY <3>1 DEF Upserted, Stored
    <3>3. j.ids \in Seq(Names)
      BY JobFields
    <3>4. \A k \in DOMAIN Append(j.ids, m) : Append(j.ids, m)[k] = m \/ (k \in DOMAIN j.ids /\ Append(j.ids, m)[k] = j.ids[k])
      BY <3>3, AppendProperties, LenProperties
    <3> QED
      BY <3>2, <3>4, <2>4, <1>h, <1>0
  <2>9. CASE StoreEntityFails(y, d)
    BY <2>9, NextFails
  <2>10. CASE ReadGraph(y, d)
    <3>1. CASE job'[y][d] = Writing("failed")
      BY <3>1, <2>5, WritingHand, <1>h
    <3>2. CASE \E id \in [UNION {{r[1], r[2]} : r \in Related[d]} -> Names] :
                 /\ \A n \in DOMAIN id : id[n] \in IF IdsOf(n) = {} THEN {n} ELSE IdsOf(n)
                 /\ Valid(d, id) # {} /\ Valid(d, id) \in SUBSET Edges
                 /\ job'[y][d].at = "edge" /\ job'[y][d].todo = Valid(d, id) /\ job'[y][d].ids = <<>>
      <4>1. PICK id : Valid(d, id) \in SUBSET Edges /\ job'[y][d].todo = Valid(d, id) /\ job'[y][d].ids = <<>>
        BY <3>2
      <4>2. \A e \in Valid(d, id) : e \in Edges /\ Stored(e[1]) /\ Stored(e[2])
        BY <4>1 DEF Valid
      <4> QED
        BY <4>1, <4>2, <2>2, <2>3, <2>e, <1>0
    <3> QED
      BY <2>10, <3>1, <3>2, NextReads
  <2>11. CASE \E e \in Edges : FindRelation(y, d, e)
    <3>1. PICK e \in Edges : FindRelation(y, d, e)
      BY <2>11
    <3>2. PICK i \in Jobs : Become(y, d, i) /\ i.ids = j.ids /\ i.todo = j.todo
      BY <3>1, FindAims
    <3>3. job'[y][d] = i /\ j.at \in Constructing
      BY <3>1, <3>2, BecomeOne DEF FindRelation, Constructing
    <3> QED
      BY <3>2, <3>3, <2>4, <1>0
  <2>12. CASE StoreRelation(y, d) \/ StoreRelationFails(y, d)
    <3>1. j.at = "put" /\ (\/ job'[y][d] = Writing("completed")
                           \/ job'[y][d].at = "edge" /\ job'[y][d].todo \subseteq j.todo /\ job'[y][d].ids = <<>>)
      BY <2>12, NextPuts
    <3> QED
      BY <3>1, <2>4, <2>5, <2>e, WritingHand, <1>h, <1>0
  <2>13. CASE Detect(y, d) \/ StoreCommunities(y, d) \/ StoreCommunitiesFails(y, d)
    BY <2>13, <2>5, NextDetects, <1>h
  <2>14. CASE StoreMentions(y, d)
    BY <2>14, <2>5, NextMentions, WritingHand, <1>h
  <2>15. CASE job'[y][d] = NoJob \/ job'[y][d] = Queued \/ (job'[y][d].at = "write" /\ job'[y][d].ids = <<>>)
    BY <2>15, <2>5, Hands, FreshHands, <1>h
  <2>16. NextHand(y, d)
    BY HandsChange
  <2> QED
    BY <2>6, <2>7, <2>8, <2>9, <2>10, <2>11, <2>12, <2>13, <2>14, <2>15, <2>16 DEF NextHand, StepOf
<1> QED
  BY <1>1, <1>2

\* Nor does what is stored.
LEMMA ReferenceStep ==
    ASSUME IType, HeldResolves, ReferencesResolve, [Next]_vars
    PROVE  ReferencesResolve'
<1>0. \A e \in Edges : e[1] \in Names /\ e[2] \in Names
  BY DEF Edges
<1>1. CASE DropCollections
  BY <1>1, Dropped DEF ReferencesResolve
<1>2. CASE ~DropCollections
  <2>1. /\ \A n \in Names : Stored(n) => Stored(n)'
        /\ hurt \subseteq hurt'
        /\ \A e \in Edges : AllSources(relations[e]) \subseteq AllSources(relations'[e])
    BY <1>2, Keeps
  <2>2. ChangesOf
    BY Changes
  <2>3. ASSUME NEW n \in Names, NEW c \in Chunks, mentions'[<<n, c>>] > 0
        PROVE  Stored(n)' \/ c \in hurt'
    <3>1. CASE mentions'[<<n, c>>] = mentions[<<n, c>>]
      BY <3>1, <2>1, <2>3 DEF ReferencesResolve
    <3>2. ASSUME NEW y \in Executions, NEW d \in Chunks, StoreMentions(y, d), mentions'[<<n, c>>] # mentions[<<n, c>>]
          PROVE  Stored(n)' \/ c \in hurt'
      <4> DEFINE ids == job[y][d].ids
                 S == {i \in DOMAIN ids : ids[i] = n}
      <4>1. c = d /\ Cardinality(S) # 0
        BY <3>2 DEF StoreMentions
      <4>2. S # {}
        BY <4>1, FS_EmptySet
      <4>3. c \in hurt \/ Stored(n)
        BY <4>1, <4>2 DEF HeldResolves, Resolves
      <4> QED
        BY <4>3, <2>1
    <3> QED
      BY <3>1, <3>2, <2>2, <1>2 DEF ChangesOf
  <2>4. ASSUME NEW e \in Edges, Linked(e)'
        PROVE  \/ Stored(e[1])' /\ Stored(e[2])'
               \/ AllSources(relations'[e]) \cap hurt' # {}
    <3>1. CASE Linked(e)
      <4>1. \/ Stored(e[1]) /\ Stored(e[2])
            \/ AllSources(relations[e]) \cap hurt # {}
        BY <3>1 DEF ReferencesResolve
      <4> QED
        BY <4>1, <2>1, <1>0
    <3>2. ASSUME NEW y \in Executions, NEW d \in Chunks, StoreRelation(y, d), ~Linked(e)
          PROVE  \/ Stored(e[1])' /\ Stored(e[2])'
                 \/ AllSources(relations'[e]) \cap hurt' # {}
      <4>1. PICK f \in Edges, docs \in Seq(RelationDocs) : Put(y, d, f, docs)
        BY <3>2, Puts
      <4>2. e = f /\ relations'[e] = docs
        BY <4>1, <3>2, <2>4 DEF Put, Linked
      <4>3. d \in AllSources(docs) /\ e \in job[y][d].todo /\ job[y][d].at \in Constructing
        BY <4>1, <4>2, <3>2, <2>4 DEF Put, Linked, Constructing
      <4>4. d \in hurt \/ (Stored(e[1]) /\ Stored(e[2]))
        BY <4>3 DEF HeldResolves, Resolves
      <4> QED
        BY <4>2, <4>3, <4>4, <2>1, <1>0
    <3>3. CASE relations' = relations
      BY <3>3, <2>4, <3>1 DEF Linked
    <3> QED
      BY <3>1, <3>2, <3>3, <2>2, <1>2 DEF ChangesOf
  <2> QED
    BY <2>3, <2>4 DEF ReferencesResolve
<1> QED
  BY <1>1, <1>2

-----------------------------------------------------------------------------
(* Who met whom *)

\* A handler comes to where it has read by reading, and to an upsert by a lookup.
LEMMA ComesToWork ==
    ASSUME IType, [Next]_vars, NEW y \in Executions, NEW d \in Chunks
    PROVE  /\ job'[y][d].at \in Resolving => job[y][d].at \in Resolving \/ LookUpEntity(y, d)
           /\ job'[y][d].at = "upsert" => job'[y][d] = job[y][d] \/ LookUpEntity(y, d)
           /\ job'[y][d].at \in Constructing => job[y][d].at \in Constructing \/ ReadGraph(y, d)
           /\ job'[y][d].at = "put" => job'[y][d] = job[y][d] \/ \E e \in Edges : FindRelation(y, d, e)
<1> DEFINE Goal ==
           /\ job'[y][d].at \in Resolving => job[y][d].at \in Resolving \/ LookUpEntity(y, d)
           /\ job'[y][d].at = "upsert" => job'[y][d] = job[y][d] \/ LookUpEntity(y, d)
           /\ job'[y][d].at \in Constructing => job[y][d].at \in Constructing \/ ReadGraph(y, d)
           /\ job'[y][d].at = "put" => job'[y][d] = job[y][d] \/ \E e \in Edges : FindRelation(y, d, e)
<1> USE DEF Resolving, Constructing
<1>1. CASE job'[y][d].at \notin Resolving \cup Constructing
  BY <1>1
<1>2. CASE job'[y][d] = job[y][d]
  BY <1>2
<1>3. CASE LookUpEntity(y, d)
  <2>1. PICK i \in Jobs : Become(y, d, i) /\ i.at = "upsert"
    BY <1>3, LookUpAims
  <2>2. job'[y][d] = i
    BY <2>1, BecomeOne
  <2> QED
    BY <1>3, <2>1, <2>2
<1>4. CASE UpsertEntity(y, d)
  <2>1. PICK m \in Names, docs \in Seq(EntityDocs) : Upserted(y, d, m, docs)
    BY <1>4, Upserts
  <2> QED
    BY <2>1 DEF Upserted
<1>5. CASE StoreEntityFails(y, d)
  BY <1>5, NextFails
<1>6. CASE StoreMentions(y, d)
  BY <1>6, <1>1, NextMentions, WritingHand
<1>7. CASE ReadGraph(y, d)
  <2>1. job'[y][d] = Writing("failed") \/ job'[y][d].at = "edge"
    BY <1>7, NextReads
  <2> QED
    BY <1>1, <1>7, <2>1, WritingHand
<1>8. CASE \E e \in Edges : FindRelation(y, d, e)
  <2>1. PICK e \in Edges : FindRelation(y, d, e)
    BY <1>8
  <2>2. PICK i \in Jobs : Become(y, d, i) /\ i.at = "put"
    BY <2>1, FindAims
  <2>3. job'[y][d] = i /\ job[y][d].at = "edge"
    BY <2>1, <2>2, BecomeOne DEF FindRelation
  <2> QED
    BY <1>8, <2>2, <2>3
<1>9. CASE StoreRelation(y, d) \/ StoreRelationFails(y, d)
  <2>1. job[y][d].at = "put" /\ (job'[y][d] = Writing("completed") \/ job'[y][d].at = "edge")
    BY <1>9, NextPuts
  <2> QED
    BY <1>1, <2>1, WritingHand
<1>10. CASE Detect(y, d) \/ StoreCommunities(y, d) \/ StoreCommunitiesFails(y, d)
  BY <1>1, <1>10, NextDetects
<1>11. CASE job'[y][d] = NoJob \/ job'[y][d] = Queued \/ job'[y][d].at = "write"
  BY <1>1, <1>11, Hands, FreshHands
<1>12. NextHand(y, d)
  BY HandsChange
<1> HIDE DEF Goal
<1> QED
  BY <1>2, <1>3, <1>4, <1>5, <1>6, <1>7, <1>8, <1>9, <1>10, <1>11, <1>12 DEF NextHand, StepOf, Goal

\* A pair is the same either way round.
LEMMA MetEither == \A s, c, d : Met(s, c, d) <=> Met(s, d, c)
  <1>1. \A c, d : {c, d} = {d, c}
    OBVIOUS
  <1> QED
    BY <1>1 DEF Met

\* A handler that reads meets those of its stage that have read.
LEMMA ReadersMeet ==
    ASSUME IType, NEW y \in Executions, NEW d \in Chunks, NEW z \in Executions, NEW e \in Chunks, z # y \/ e # d
    PROVE  /\ LookUpEntity(y, d) /\ job[z][e].at \in Resolving => Met("resolution", d, e)'
           /\ ReadGraph(y, d) /\ job[z][e].at \in Constructing => Met("construction", d, e)'
  <1>1. ASSUME stage[y] = stage[z], job[z][e].at \notin {"none", "queued"}, met' = met \cup Meetings(y, d)
        PROVE  <<stage[y], {d, e}>> \in met'
    <2>1. AtWork(z, e) /\ <<z, e>> # <<y, d>>
      BY <1>1 DEF AtWork
    <2>2. <<stage[y], {d, e}>> \in Meetings(y, d)
      BY <1>1, <2>1 DEF Meetings
    <2> QED
      BY <1>1, <2>2
  <1>2. ASSUME LookUpEntity(y, d), job[z][e].at \in Resolving PROVE Met("resolution", d, e)'
    <2>1. stage[y] = "resolution" /\ stage[z] = "resolution" /\ met' = met \cup Meetings(y, d)
      BY <1>2, JobFields DEF LookUpEntity, ShapeOf
    <2> QED
      BY <1>1, <1>2, <2>1 DEF Met, Resolving
  <1>3. ASSUME ReadGraph(y, d), job[z][e].at \in Constructing PROVE Met("construction", d, e)'
    <2>1. stage[y] = "construction" /\ stage[z] = "construction" /\ met' = met \cup Meetings(y, d)
      BY <1>3, JobFields DEF ReadGraph, ShapeOf
    <2> QED
      BY <1>1, <1>3, <2>1 DEF Met, Constructing
  <1> QED
    BY <1>2, <1>3

\* Those that have read have met.
LEMMA TogetherStep ==
    ASSUME IType, TogetherInv, [Next]_vars
    PROVE  TogetherInv'
<1> SUFFICES ASSUME NEW x \in Executions, NEW y \in Executions, NEW c \in Chunks, NEW d \in Chunks, x # y \/ c # d
             PROVE  /\ job'[x][c].at \in Resolving /\ job'[y][d].at \in Resolving => Met("resolution", c, d)'
                    /\ job'[x][c].at \in Constructing /\ job'[y][d].at \in Constructing => Met("construction", c, d)'
  BY DEF TogetherInv
<1>1. CASE DropCollections
  <2>1. job' = job /\ \A m \in met : m[2] \subseteq InHand => m \in met'
    BY <1>1 DEF DropCollections
  <2>2. ASSUME job[x][c].at # "none", job[y][d].at # "none" PROVE {c, d} \subseteq InHand
    BY <2>2 DEF InHand
  <2> QED
    BY <2>1, <2>2 DEF TogetherInv, Met, Resolving, Constructing
<1>2. CASE ~DropCollections
  <2>1. met \subseteq met'
    BY <1>2, Keeps
  <2>2. ASSUME job'[x][c].at \in Resolving, job'[y][d].at \in Resolving PROVE Met("resolution", c, d)'
    <3>1. CASE job[x][c].at \in Resolving /\ job[y][d].at \in Resolving
      BY <2>1, <3>1 DEF TogetherInv, Met
    <3>2. CASE LookUpEntity(x, c)
      <4>1. job'[y][d] = job[y][d]
        BY <3>2, OtherHands
      <4> QED
        BY <2>2, <3>2, <4>1, ReadersMeet
    <3>3. CASE LookUpEntity(y, d)
      <4>1. job'[x][c] = job[x][c]
        BY <3>3, OtherHands
      <4>2. Met("resolution", d, c)'
        BY <2>2, <3>3, <4>1, ReadersMeet
      <4> QED
        BY <4>2, MetEither DEF Met
    <3> QED
      BY <2>2, <3>1, <3>2, <3>3, ComesToWork
  <2>3. ASSUME job'[x][c].at \in Constructing, job'[y][d].at \in Constructing PROVE Met("construction", c, d)'
    <3>1. CASE job[x][c].at \in Constructing /\ job[y][d].at \in Constructing
      BY <2>1, <3>1 DEF TogetherInv, Met
    <3>2. CASE ReadGraph(x, c)
      <4>1. job'[y][d] = job[y][d]
        BY <3>2, OtherHands
      <4> QED
        BY <2>3, <3>2, <4>1, ReadersMeet
    <3>3. CASE ReadGraph(y, d)
      <4>1. job'[x][c] = job[x][c]
        BY <3>3, OtherHands
      <4>2. Met("construction", d, c)'
        BY <2>3, <3>3, <4>1, ReadersMeet
      <4> QED
        BY <4>2, MetEither DEF Met
    <3> QED
      BY <2>3, <3>1, <3>2, <3>3, ComesToWork
  <2> QED
    BY <2>2, <2>3
<1> QED
  BY <1>1, <1>2

\* What an insert may come to be beside, it has met.
LEMMA RacedStep ==
    ASSUME IType, TogetherInv, RacedInv, [Next]_vars
    PROVE  RacedInv'
<1> SUFFICES ASSUME NEW x \in Executions, NEW c \in Chunks, NEW m \in Names,
                    job'[x][c].at = "upsert", job'[x][c].to = <<m>>
             PROVE  /\ job'[x][c].gone /\ Stored(m)' => MetOneOf("resolution", c, entities[m])'
                    /\ ~Stored(m)' => \A n \in Names : n # m /\ Stored(n)' /\ <<m, n>> \in Finds =>
                                                          MetOneOf("resolution", c, entities[n])'
  BY DEF RacedInv
<1>1. CASE DropCollections
  BY <1>1, Dropped
<1>2. CASE ~DropCollections /\ LookUpEntity(x, c)
  <2>1. PICK k \in Names, i \in Jobs :
           Become(x, c, i) /\ i.to = <<k>> /\ i.gone = ~Stored(k) /\ (Stored(k) \/ Candidates(k) = {})
    BY <1>2, LookUpAims
  <2>2. job'[x][c] = i
    BY <2>1, BecomeOne
  <2>3. k = m
    BY <2>1, <2>2
  <2>4. entities' = entities
    BY <1>2 DEF LookUpEntity, graphVars
  <2>5. job'[x][c].gone => ~Stored(m)
    BY <2>1, <2>2, <2>3
  <2>6. ~Stored(m) => \A n \in Names : Stored(n) => <<m, n>> \notin Finds
    BY <2>1, <2>3 DEF Candidates
  <2> QED
    BY <2>4, <2>5, <2>6 DEF Stored
<1>3. CASE ~DropCollections /\ job'[x][c] = job[x][c]
  <2>1. met \subseteq met' /\ \A n \in Names : (Stored(n) => Stored(n)') /\ AllSources(entities[n]) \subseteq AllSources(entities'[n])
    BY <1>3, Keeps
  <2>2. /\ job[x][c].gone /\ Stored(m) => MetOneOf("resolution", c, entities[m])
        /\ ~Stored(m) => \A n \in Names : n # m /\ Stored(n) /\ <<m, n>> \in Finds =>
                                              MetOneOf("resolution", c, entities[n])
    BY <1>3 DEF RacedInv
  <2>3. \A n \in Names : MetOneOf("resolution", c, entities[n]) => MetOneOf("resolution", c, entities[n])'
    BY <2>1 DEF MetOneOf, Met
  <2>4. CASE entities' = entities
    BY <1>3, <2>2, <2>3, <2>4 DEF Stored
  <2>5. ASSUME NEW y \in Executions, NEW d \in Chunks, UpsertEntity(y, d)
        PROVE  /\ job'[x][c].gone /\ Stored(m)' => MetOneOf("resolution", c, entities[m])'
               /\ ~Stored(m)' => \A n \in Names : n # m /\ Stored(n)' /\ <<m, n>> \in Finds =>
                                                     MetOneOf("resolution", c, entities[n])'
    <3>1. PICK k \in Names, docs \in Seq(EntityDocs) : Upserted(y, d, k, docs)
      BY <2>5, Upserts
    <3>2. job'[y][d].at = "entity" /\ job[y][d].at = "upsert" /\ met' = met
      BY <3>1 DEF Upserted
    <3>3. Met("resolution", c, d)'
      <4>1. x # y \/ c # d
        BY <3>2
      <4> QED
        BY <1>3, <3>2, <4>1 DEF TogetherInv, Resolving, Met
    <3>4. MetOneOf("resolution", c, entities[k])'
      <4>1. d \in AllSources(entities'[k])
        BY <3>1 DEF Upserted
      <4> QED
        BY <3>3, <4>1 DEF MetOneOf, Met
    <3>5. \A n \in Names : n # k => entities'[n] = entities[n]
      BY <3>1 DEF Upserted
    <3> QED
      BY <1>3, <2>1, <2>2, <2>3, <3>4, <3>5 DEF Stored
  <2>6. ChangesOf
    BY Changes
  <2> QED
    BY <1>3, <2>4, <2>5, <2>6 DEF ChangesOf
<1> QED
  BY <1>1, <1>2, <1>3, ComesToWork

\* So twins are of handlers that met.
LEMMA TwinStep ==
    ASSUME IType, RacedInv, TwinsWereRaced, [Next]_vars
    PROVE  TwinsWereRaced'
<1> DEFINE Raced(n, m) == \E c \in AllSources(entities[n]), d \in AllSources(entities[m]) : Met("resolution", c, d)
<1> SUFFICES ASSUME NEW n \in Names, NEW m \in Names,
                    \/ n = m /\ Twice(entities'[n])
                    \/ n # m /\ Stored(n)' /\ Stored(m)' /\ {<<n, m>>, <<m, n>>} \subseteq Finds
             PROVE  Raced(n, m)'
  BY DEF TwinsWereRaced, Twice
<1>1. CASE DropCollections
  <2>1. ~Stored(n)' /\ entities'[n] = <<>>
    BY <1>1, Dropped
  <2> QED
    BY <2>1, EmptySeq DEF Twice
<1>2. CASE ~DropCollections
  <2>1. met \subseteq met' /\ \A k \in Names : AllSources(entities[k]) \subseteq AllSources(entities'[k])
    BY <1>2, Keeps
  <2>2. \A k, l \in Names : Raced(k, l) => Raced(k, l)'
    BY <2>1 DEF Met
  <2>3. \A k, l \in Names : \/ k = l /\ Twice(entities[k])
                            \/ k # l /\ Stored(k) /\ Stored(l) /\ {<<k, l>>, <<l, k>>} \subseteq Finds
                            => Raced(k, l)
    BY DEF TwinsWereRaced
  <2>4. CASE entities' = entities
    BY <2>2, <2>3, <2>4 DEF Stored
  <2>5. ASSUME NEW y \in Executions, NEW d \in Chunks, UpsertEntity(y, d)
        PROVE  Raced(n, m)'
    <3>1. PICK k \in Names, docs \in Seq(EntityDocs) : Upserted(y, d, k, docs)
      BY <2>5, Upserts
    <3>2. \A l \in Names : l # k => entities'[l] = entities[l]
      BY <3>1 DEF Upserted
    <3>3. entities'[k] = docs /\ d \in AllSources(docs) /\ met' = met
      BY <3>1 DEF Upserted
    <3>4. ASSUME NEW l \in Names, MetOneOf("resolution", d, entities[l]) PROVE Raced(k, l)' /\ Raced(l, k)'
      <4>1. PICK e \in AllSources(entities[l]) : Met("resolution", d, e)
        BY <3>4 DEF MetOneOf
      <4>2. e \in AllSources(entities'[l]) /\ Met("resolution", d, e)' /\ Met("resolution", e, d)'
        BY <2>1, <4>1, MetEither DEF Met
      <4> QED
        BY <3>3, <4>2
    <3>5. /\ job[y][d].at = "upsert" /\ job[y][d].to = <<k>>
          /\ Twice(docs) => Twice(entities[k]) \/ (job[y][d].gone /\ Stored(k))
      BY <3>1 DEF Upserted
    <3>6. /\ job[y][d].gone /\ Stored(k) => MetOneOf("resolution", d, entities[k])
          /\ ~Stored(k) => \A l \in Names : l # k /\ Stored(l) /\ <<k, l>> \in Finds => MetOneOf("resolution", d, entities[l])
      BY <3>5 DEF RacedInv
    <3>7. CASE n = m /\ Twice(entities'[n])
      <4>1. CASE n # k
        BY <3>2, <3>7, <4>1, <2>2, <2>3
      <4>2. CASE n = k
        BY <3>3, <3>4, <3>5, <3>6, <3>7, <4>2, <2>2, <2>3
      <4> QED
        BY <4>1, <4>2
    <3>8. CASE n # m /\ Stored(n)' /\ Stored(m)' /\ {<<n, m>>, <<m, n>>} \subseteq Finds
      <4>1. CASE Stored(n) /\ Stored(m)
        BY <3>8, <4>1, <2>2, <2>3
      <4>2. CASE ~Stored(n)
        <5>1. n = k /\ Stored(m) /\ <<n, m>> \in Finds
          BY <3>2, <3>8, <4>2 DEF Stored
        <5> QED
          BY <3>4, <3>6, <3>8, <4>2, <5>1
      <4>3. CASE ~Stored(m)
        <5>1. m = k /\ Stored(n) /\ <<m, n>> \in Finds
          BY <3>2, <3>8, <4>3 DEF Stored
        <5> QED
          BY <3>4, <3>6, <3>8, <4>3, <5>1
      <4> QED
        BY <4>1, <4>2, <4>3
    <3> QED
      BY <3>7, <3>8
  <2>6. ChangesOf
    BY Changes
  <2> QED
    BY <1>2, <2>4, <2>5, <2>6 DEF ChangesOf
<1> QED
  BY <1>1, <1>2

-----------------------------------------------------------------------------
(* What is counted *)

\* What a handler read of a document's sources outlasts the stores of others.
LEMMA FreshKept ==
    ASSUME NEW s, NEW c, NEW d, NEW j \in Jobs, NEW old, NEW new, FreshOf(s, c, j, old), Grown(old, new, d),
           d = c => Met(s, c, c)', met \subseteq met', hurt \subseteq hurt'
    PROVE  /\ j.gone => j.fresh
           /\ j.fresh /\ c \in Sources(new) => Met(s, c, c)'
           /\ ~j.fresh => c \in Sources(new) \/ c \in hurt'
  <1>1. Met(s, c, c) => Met(s, c, c)'
    BY DEF Met
  <1>2. j.gone \in BOOLEAN /\ j.fresh \in BOOLEAN
    BY DEF Jobs
  <1> QED
    BY <1>1, <1>2 DEF FreshOf, Grown

\* So no handler counts a chunk it should not, or fails to.
LEMMA FreshStep ==
    ASSUME IType, TogetherInv, FreshInv, [Next]_vars
    PROVE  FreshInv'
<1> DEFINE Entity(x, c, m) == job[x][c].at = "upsert" /\ job[x][c].to = <<m>>
           Relation(x, c, e) == job[x][c].at = "put" /\ job[x][c].to = e
<1>1. ASSUME NEW x \in Executions, NEW c \in Chunks, NEW m \in Names, Entity(x, c, m)'
      PROVE  FreshOf("resolution", c, job[x][c], entities[m])'
  <2> DEFINE i == job'[x][c]
  <2> SUFFICES /\ i.gone => i.fresh
               /\ i.fresh /\ c \in Sources(entities'[m]) => Met("resolution", c, c)'
               /\ ~i.fresh => c \in Sources(entities'[m]) \/ c \in hurt'
    BY DEF FreshOf, Met
  <2>1. CASE DropCollections
    <3>1. job'[x][c] = job[x][c] /\ c \in hurt' /\ Sources(entities'[m]) = {}
      BY <1>1, <2>1, Dropped
    <3>2. i.gone => i.fresh
      BY <1>1, <3>1 DEF FreshInv, FreshOf
    <3> QED
      BY <3>1, <3>2
  <2>2. CASE LookUpEntity(x, c)
    <3>1. PICK k \in Names, j \in Jobs :
           Become(x, c, j) /\ j.to = <<k>> /\ j.gone = ~Stored(k) /\ j.fresh = (c \notin Sources(entities[k]))
      BY <2>2, LookUpAims
    <3>2. job'[x][c] = j
      BY <3>1, BecomeOne
    <3>3. k = m /\ entities' = entities
      BY <1>1, <2>2, <3>1, <3>2 DEF LookUpEntity, graphVars
    <3>4. ~Stored(m) => Sources(entities[m]) = {}
      BY DEF Stored, Sources
    <3> QED
      BY <3>1, <3>2, <3>3, <3>4
  <2>3. CASE ~DropCollections /\ job'[x][c] = job[x][c]
    <3>1. FreshOf("resolution", c, job[x][c], entities[m]) /\ job[x][c] \in Jobs
      BY <1>1, <2>3, JobFields DEF FreshInv
    <3>2. met \subseteq met' /\ hurt \subseteq hurt'
      BY <2>3, Keeps
    <3>3. ASSUME NEW y \in Executions, NEW d \in Chunks, UpsertEntity(y, d), entities'[m] # entities[m]
          PROVE  /\ i.gone => i.fresh
                 /\ i.fresh /\ c \in Sources(entities'[m]) => Met("resolution", c, c)'
                 /\ ~i.fresh => c \in Sources(entities'[m]) \/ c \in hurt'
      <4>1. PICK k \in Names, docs \in Seq(EntityDocs) : Upserted(y, d, k, docs)
        BY <3>3, Upserts
      <4>2. Grown(entities[m], entities'[m], d)
        BY <3>3, <4>1 DEF Upserted
      <4>3. d = c => Met("resolution", c, c)'
        <5>1. job[y][d].at = "upsert" /\ job'[y][d].at = "entity"
          BY <4>1 DEF Upserted
        <5>2. d = c => Met("resolution", c, c)
          BY <1>1, <2>3, <5>1 DEF TogetherInv, Resolving
        <5> QED
          BY <3>2, <5>2 DEF Met
      <4> QED
        BY <2>3, <3>1, <3>2, <4>2, <4>3, FreshKept
    <3>4. CASE entities'[m] = entities[m]
      BY <2>3, <3>1, <3>2, <3>4 DEF FreshOf, Met
    <3>5. ChangesOf
      BY Changes
    <3> QED
      BY <2>3, <3>3, <3>4, <3>5 DEF ChangesOf
  <2> QED
    BY <1>1, <2>1, <2>2, <2>3, ComesToWork
<1>2. ASSUME NEW x \in Executions, NEW c \in Chunks, NEW e \in Edges, Relation(x, c, e)'
      PROVE  FreshOf("construction", c, job[x][c], relations[e])'
  <2> DEFINE i == job'[x][c]
  <2> SUFFICES /\ i.gone => i.fresh
               /\ i.fresh /\ c \in Sources(relations'[e]) => Met("construction", c, c)'
               /\ ~i.fresh => c \in Sources(relations'[e]) \/ c \in hurt'
    BY DEF FreshOf, Met
  <2>1. CASE DropCollections
    <3>1. job'[x][c] = job[x][c] /\ c \in hurt' /\ Sources(relations'[e]) = {}
      BY <1>2, <2>1, Dropped
    <3>2. i.gone => i.fresh
      BY <1>2, <3>1 DEF FreshInv, FreshOf
    <3> QED
      BY <3>1, <3>2
  <2>2. CASE \E f \in Edges : FindRelation(x, c, f)
    <3>0. PICK f \in Edges : FindRelation(x, c, f)
      BY <2>2
    <3>1. PICK j \in Jobs :
           Become(x, c, j) /\ j.to = f /\ j.gone = ~Linked(f) /\ j.fresh = (c \notin Sources(relations[f]))
      BY <3>0, FindAims
    <3>2. job'[x][c] = j
      BY <3>1, BecomeOne
    <3>3. f = e /\ relations' = relations
      BY <1>2, <3>0, <3>1, <3>2 DEF FindRelation, graphVars
    <3>4. ~Linked(e) => Sources(relations[e]) = {}
      BY DEF Linked, Sources
    <3> QED
      BY <3>1, <3>2, <3>3, <3>4
  <2>3. CASE ~DropCollections /\ job'[x][c] = job[x][c]
    <3>1. FreshOf("construction", c, job[x][c], relations[e]) /\ job[x][c] \in Jobs
      BY <1>2, <2>3, JobFields DEF FreshInv
    <3>2. met \subseteq met' /\ hurt \subseteq hurt'
      BY <2>3, Keeps
    <3>3. ASSUME NEW y \in Executions, NEW d \in Chunks, StoreRelation(y, d), relations'[e] # relations[e]
          PROVE  /\ i.gone => i.fresh
                 /\ i.fresh /\ c \in Sources(relations'[e]) => Met("construction", c, c)'
                 /\ ~i.fresh => c \in Sources(relations'[e]) \/ c \in hurt'
      <4>1. PICK f \in Edges, docs \in Seq(RelationDocs) : Put(y, d, f, docs)
        BY <3>3, Puts
      <4>2. Grown(relations[e], relations'[e], d)
        BY <3>3, <4>1 DEF Put
      <4>3. d = c => Met("construction", c, c)'
        <5>1. job[y][d].at = "put" /\ (job'[y][d] = Writing("completed") \/ job'[y][d].at = "edge")
          BY <3>3, NextPuts
        <5>2. job'[y][d].at # "put"
          BY <5>1, WritingHand
        <5>3. d = c => Met("construction", c, c)
          BY <1>2, <2>3, <5>1, <5>2 DEF TogetherInv, Constructing
        <5> QED
          BY <3>2, <5>3 DEF Met
      <4> QED
        BY <2>3, <3>1, <3>2, <4>2, <4>3, FreshKept
    <3>4. CASE relations'[e] = relations[e]
      BY <2>3, <3>1, <3>2, <3>4 DEF FreshOf, Met
    <3>5. ChangesOf
      BY Changes
    <3> QED
      BY <2>3, <3>3, <3>4, <3>5 DEF ChangesOf
  <2> QED
    BY <1>2, <2>1, <2>2, <2>3, ComesToWork
<1> QED
  BY <1>1, <1>2 DEF FreshInv

\* The sources of a document are finitely many and counted, or one of them is excused.
DocRight(s, doc) ==
    /\ IsFiniteSet(doc.sources)
    /\ \/ doc.count = Cardinality(doc.sources)
       \/ \E c \in doc.sources : Met(s, c, c) \/ c \in hurt

Right(s, docs) == \A i \in DOMAIN docs : DocRight(s, docs[i])

\* The counts are right if those of all documents are.
LEMMA CountsAreRight ==
    FiniteInv /\ CountsAreTrue <=> /\ \A n \in Names : Right("resolution", entities[n])
                                   /\ \A e \in Edges : Right("construction", relations[e])
  BY DEF FiniteInv, CountsAreTrue, Right, DocRight

\* A new document is right, whose only source counts for one, or is hurt.
LEMMA InsertIsRight ==
    ASSUME NEW s, NEW c, NEW doc, doc.sources = {c}, doc.count = 1 \/ c \in hurt
    PROVE  DocRight(s, doc)
  BY FS_Singleton DEF DocRight

\* The first document stays right when the handler's chunk is added.
LEMMA NextIsRight ==
    ASSUME NEW s, NEW c, NEW doc, NEW new, NEW j \in Jobs, DocRight(s, doc), doc.count \in Nat,
           new.sources = doc.sources \cup {c}, new.count = doc.count + More(j),
           j.fresh /\ c \in doc.sources => Met(s, c, c),
           ~j.fresh => c \in doc.sources \/ c \in hurt
    PROVE  DocRight(s, new)
  <1>1. IsFiniteSet(new.sources)
    BY FS_AddElement DEF DocRight
  <1>2. CASE \E d \in doc.sources : Met(s, d, d) \/ d \in hurt
    BY <1>1, <1>2 DEF DocRight
  <1>3. CASE Met(s, c, c) \/ c \in hurt
    BY <1>1, <1>3 DEF DocRight
  <1>4. CASE doc.count = Cardinality(doc.sources) /\ ~(Met(s, c, c) \/ c \in hurt)
    <2>1. CASE j.fresh
      <3>1. Cardinality(new.sources) = Cardinality(doc.sources) + 1
        BY <1>4, <2>1, FS_AddElement DEF DocRight
      <3> QED
        BY <1>1, <1>4, <2>1, <3>1 DEF DocRight, More
    <2>2. CASE ~j.fresh
      <3>1. new.sources = doc.sources
        BY <1>4, <2>2
      <3>2. new.count = doc.count
        BY <2>2 DEF More
      <3> QED
        BY <1>1, <1>4, <3>1, <3>2 DEF DocRight
    <2> QED
      BY <2>1, <2>2
  <1> QED
    BY <1>2, <1>3, <1>4 DEF DocRight

\* A first document that is right in place of one leaves all right.
LEMMA FirstIsRight ==
    ASSUME NEW s, NEW D, NEW docs \in Seq(D), docs # <<>>, NEW doc \in D, DocRight(s, doc), Right(s, docs)
    PROVE  Right(s, FirstIs(docs, doc))
  <1>1. PICK new \in Seq(D) :
           /\ new = FirstIs(docs, doc)
           /\ DOMAIN new = DOMAIN docs /\ new[1] = doc
           /\ \A i \in DOMAIN docs : i # 1 => new[i] = docs[i]
    BY FirstParts
  <1> QED
    BY <1>1 DEF Right

\* So does one more at the end.
LEMMA AppendIsRight ==
    ASSUME NEW s, NEW D, NEW docs \in Seq(D), NEW doc \in D, NEW c, doc.sources = {c}, DocRight(s, doc), Right(s, docs)
    PROVE  Right(s, Append(docs, doc))
  <1>1. \A i \in DOMAIN Append(docs, doc) :
           Append(docs, doc)[i] = doc \/ (i \in DOMAIN docs /\ Append(docs, doc)[i] = docs[i])
    BY AppendGrows
  <1> QED
    BY <1>1 DEF Right

\* An upsert leaves the counts of its entity right.
LEMMA UpsertIsRight ==
    ASSUME IType, NEW x \in Executions, NEW c \in Chunks, NEW m \in Names, NEW docs \in Seq(EntityDocs),
           Upserted(x, c, m, docs), FreshInv, Right("resolution", entities[m])
    PROVE  Right("resolution", docs)
  <1>1. PICK j \in Jobs, old \in Seq(EntityDocs) :
           /\ j = job[x][c] /\ old = entities[m] /\ j.to = <<m>> /\ j.gone \in BOOLEAN /\ j.fresh \in BOOLEAN
           /\ FreshOf("resolution", c, j, old) /\ UpsertOf(j, c, old, docs)
           /\ Mentioned[c][Len(j.ids) + 1] \in Names
    <2>1. job[x][c] \in Jobs /\ entities[m] \in Seq(EntityDocs) /\ Mentioned[c][Len(job[x][c].ids) + 1] \in Names
      BY JobFields, NextName DEF IType, DocsInv, Upserted, ShapeOf
    <2> QED
      BY <2>1, JobFields DEF Upserted, FreshInv
  <1> DEFINE n0 == Mentioned[c][Len(j.ids) + 1]
             alias == IF j.to[1] = n0 THEN {} ELSE {n0}
             ins == NewEntity(c, More(j), alias)
             upd == NextEntity(old[1], c, More(j), alias)
  <1>2. More(j) \in Nat /\ alias \in SUBSET Names
    BY <1>1 DEF More
  <1>3. CASE docs = Append(old, ins) /\ (old = <<>> \/ j.gone)
    <2>1. ins \in EntityDocs /\ ins.sources = {c} /\ ins.count = More(j)
      BY <1>2 DEF NewEntity, EntityDocs
    <2> HIDE DEF ins
    <2>2. ins.count = 1 \/ c \in hurt
      <3>1. CASE j.fresh
        BY <2>1, <3>1 DEF More
      <3>2. CASE ~j.fresh
        BY <1>1, <1>3, <3>2 DEF FreshOf, Sources
      <3> QED
        BY <3>1, <3>2
    <2>3. DocRight("resolution", ins)
      BY <2>1, <2>2, InsertIsRight
    <2> QED
      BY <1>1, <1>3, <2>1, <2>3, AppendIsRight
  <1>4. CASE docs = FirstIs(old, upd) /\ old # <<>>
    <2>0. upd \in EntityDocs /\ upd.sources = old[1].sources \cup {c} /\ upd.count = old[1].count + More(j)
      BY <1>2, <1>4, UpdatedDoc DEF NextEntity
    <2> HIDE DEF upd
    <2>1. old[1] \in EntityDocs /\ 1 \in DOMAIN old
      BY <1>4, EmptySeq, ElementOfSeq, LenProperties
    <2>2. old[1].count \in Nat /\ DocRight("resolution", old[1])
      BY <1>1, <2>1 DEF Right, EntityDocs
    <2>3. /\ j.fresh /\ c \in old[1].sources => Met("resolution", c, c)
          /\ ~j.fresh => c \in old[1].sources \/ c \in hurt
      BY <1>1, <1>4 DEF FreshOf, Sources
    <2>4. DocRight("resolution", upd)
      BY <2>0, <2>2, <2>3, NextIsRight
    <2> QED
      BY <1>1, <1>4, <2>0, <2>4, FirstIsRight
  <1> QED
    BY <1>1, <1>3, <1>4 DEF UpsertOf

\* So does a store of a relation.
LEMMA PutIsRight ==
    ASSUME IType, NEW x \in Executions, NEW c \in Chunks, NEW e \in Edges, NEW docs \in Seq(RelationDocs),
           Put(x, c, e, docs), FreshInv, Right("construction", relations[e])
    PROVE  Right("construction", docs)
  <1>1. PICK j \in Jobs, old \in Seq(RelationDocs) :
           /\ j = job[x][c] /\ old = relations[e] /\ j.gone \in BOOLEAN /\ j.fresh \in BOOLEAN
           /\ FreshOf("construction", c, j, old) /\ RelationOf(j, c, old, docs)
    <2>1. job[x][c] \in Jobs /\ relations[e] \in Seq(RelationDocs)
      BY JobFields DEF IType, DocsInv
    <2> QED
      BY <2>1, JobFields DEF Put, FreshInv
  <1> DEFINE ins == NewRelation(c)
             upd == NextRelationDoc(old[1], c, More(j))
  <1>2. More(j) \in Nat
    BY <1>1 DEF More
  <1>3. CASE docs = Append(old, ins)
    <2>1. ins \in RelationDocs /\ ins.sources = {c} /\ ins.count = 1
      BY DEF NewRelation, RelationDocs
    <2> HIDE DEF ins
    <2>3. DocRight("construction", ins)
      BY <2>1, InsertIsRight
    <2> QED
      BY <1>1, <1>3, <2>1, <2>3, AppendIsRight
  <1>4. CASE docs = FirstIs(old, upd) /\ old # <<>>
    <2>1. old[1] \in RelationDocs /\ 1 \in DOMAIN old
      BY <1>4, EmptySeq, ElementOfSeq, LenProperties
    <2>0. upd \in RelationDocs /\ upd.sources = old[1].sources \cup {c} /\ upd.count = old[1].count + More(j)
      BY <1>2, <2>1 DEF NextRelationDoc, RelationDocs
    <2> HIDE DEF upd
    <2>2. old[1].count \in Nat /\ DocRight("construction", old[1])
      BY <1>1, <2>1 DEF Right, RelationDocs
    <2>3. /\ j.fresh /\ c \in old[1].sources => Met("construction", c, c)
          /\ ~j.fresh => c \in old[1].sources \/ c \in hurt
      BY <1>1, <1>4 DEF FreshOf, Sources
    <2>4. DocRight("construction", upd)
      BY <2>0, <2>2, <2>3, NextIsRight
    <2> QED
      BY <1>1, <1>4, <2>0, <2>4, FirstIsRight
  <1> QED
    BY <1>1, <1>3, <1>4 DEF RelationOf

\* So the counts are true and stay so.
LEMMA CountStep ==
    ASSUME IType, FreshInv, FiniteInv, CountsAreTrue, [Next]_vars
    PROVE  FiniteInv' /\ CountsAreTrue'
<1> DEFINE AllRight(s, docs) ==
              \A i \in DOMAIN docs : /\ IsFiniteSet(docs[i].sources)
                                     /\ \/ docs[i].count = Cardinality(docs[i].sources)
                                        \/ \E c \in docs[i].sources : <<s, {c, c}>> \in met' \/ c \in hurt'
<1>1. \A docs : docs = <<>> => AllRight("resolution", docs) /\ AllRight("construction", docs)
  OBVIOUS
<1>2. /\ \A n \in Names : Right("resolution", entities[n])
      /\ \A e \in Edges : Right("construction", relations[e])
  BY CountsAreRight
<1>3. ChangesOf
  BY Changes
<1>4. ASSUME NEW n \in Names PROVE AllRight("resolution", entities'[n])
  <2>1. CASE DropCollections
    BY <1>1, <2>1, Dropped
  <2>2. CASE ~DropCollections
    <3>1. met \subseteq met' /\ hurt \subseteq hurt'
      BY <2>2, Keeps
    <3>2. CASE Right("resolution", entities'[n])
      BY <3>1, <3>2 DEF Right, DocRight, Met
    <3>3. ASSUME NEW y \in Executions, NEW d \in Chunks, UpsertEntity(y, d) PROVE Right("resolution", entities'[n])
      <4>1. PICK m \in Names, docs \in Seq(EntityDocs) : Upserted(y, d, m, docs)
        BY <3>3, Upserts
      <4>2. Right("resolution", docs)
        BY <1>2, <4>1, UpsertIsRight
      <4>3. entities'[n] = docs \/ entities'[n] = entities[n]
        BY <4>1 DEF Upserted
      <4> QED
        BY <1>2, <4>2, <4>3
    <3> QED
      BY <1>2, <1>3, <2>2, <3>2, <3>3 DEF ChangesOf
  <2> QED
    BY <2>1, <2>2
<1>5. ASSUME NEW e \in Edges PROVE AllRight("construction", relations'[e])
  <2>1. CASE DropCollections
    BY <1>1, <2>1, Dropped
  <2>2. CASE ~DropCollections
    <3>1. met \subseteq met' /\ hurt \subseteq hurt'
      BY <2>2, Keeps
    <3>2. CASE Right("construction", relations'[e])
      BY <3>1, <3>2 DEF Right, DocRight, Met
    <3>3. ASSUME NEW y \in Executions, NEW d \in Chunks, StoreRelation(y, d) PROVE Right("construction", relations'[e])
      <4>1. PICK f \in Edges, docs \in Seq(RelationDocs) : Put(y, d, f, docs)
        BY <3>3, Puts
      <4>2. Right("construction", docs)
        BY <1>2, <4>1, PutIsRight
      <4>3. relations'[e] = docs \/ relations'[e] = relations[e]
        BY <4>1 DEF Put
      <4> QED
        BY <1>2, <4>2, <4>3
    <3> QED
      BY <1>2, <1>3, <2>2, <3>2, <3>3 DEF ChangesOf
  <2> QED
    BY <2>1, <2>2
<1> QED
  BY <1>4, <1>5 DEF FiniteInv, CountsAreTrue, Met

-----------------------------------------------------------------------------
(* What a status says *)

\* A status becomes completed by the handler that writes it or, in the communities,
\* by the batch; a clean ends with the statuses gone, or everything hurt.
StatusOf(c) ==
    /\ status'[c].resolution = "completed" => \/ status[c].resolution = "completed"
                                              \/ \E x \in Executions : /\ stage[x] = "resolution"
                                                                       /\ job[x][c].at = "write" /\ job[x][c].out = "completed"
    /\ status'[c].construction = "completed" => \/ status[c].construction = "completed"
                                                \/ \E x \in Executions : /\ stage[x] = "construction"
                                                                         /\ job[x][c].at = "write" /\ job[x][c].out = "completed"
    /\ status'[c].community = "completed" => \/ status[c].community = "completed"
                                             \/ /\ status[c].construction = "completed"
                                                /\ \E x \in Executions, d \in Chunks : BatchUpdate(x, d)
    /\ cleaning /\ ~cleaning' => \/ hurt' = Chunks
                                 \/ /\ job' = job /\ stage' = stage
                                    /\ c \notin hurt' => \A x \in Executions : job[x][c].at = "none"
                                    /\ \A s \in Stages : status'[c][s] = "absent"

\* Every step changes a chunk's status in one of these ways only.
LEMMA StatusChange ==
    ASSUME IType, [Next]_vars, NEW k \in Chunks
    PROVE  StatusOf(k)
<1>0. status \in [Chunks -> [Stages -> Outcomes]] /\ Stages = {"extraction", "resolution", "construction", "community"}
  BY DEF IType, TypeOK, Stages
<1>a. status' = status /\ cleaning' = cleaning => StatusOf(k)
  BY DEF StatusOf
<1>1. ASSUME NEW x \in Executions, NEW s \in Stages, StartStage(x, s) PROVE StatusOf(k)
  BY <1>1, <1>a DEF StartStage
<1>2. ASSUME NEW x \in Executions, CreateIndexes(x) PROVE StatusOf(k)
  BY <1>2, <1>a DEF CreateIndexes
<1>3. ASSUME NEW x \in Executions, NEW c \in Chunks, WriteStatus(x, c) PROVE StatusOf(k)
  <2>1. PICK s \in Stages, out \in Outcomes : s = stage[x] /\ out = job[x][c].out /\ (s = "community" => out = "failed")
    BY <1>3, JobFields DEF WriteStatus, ShapeOf
  <2>2. status' = [status EXCEPT ![c][s] = out] /\ cleaning' = cleaning /\ job[x][c].at = "write"
    BY <1>3, <2>1 DEF WriteStatus
  <2>3. \A t \in Stages : status'[k][t] = IF k = c /\ t = s THEN out ELSE status[k][t]
    BY <1>0, <2>2
  <2> QED
    BY <1>0, <2>1, <2>2, <2>3 DEF StatusOf
<1>4. ASSUME NEW x \in Executions, NEW c \in Chunks, WriteFails(x, c) PROVE StatusOf(k)
  BY <1>4, <1>a DEF WriteFails
<1>5. ASSUME NEW x \in Executions, NEW c \in Chunks, HandlerRaises(x, c) PROVE StatusOf(k)
  BY <1>5, <1>a DEF HandlerRaises
<1>6. ASSUME NEW x \in Executions, NEW c \in Chunks, NEW out \in Outcomes \ {"absent"}, Extract(x, c, out) PROVE StatusOf(k)
  BY <1>6, <1>a DEF Extract
<1>7. ASSUME NEW x \in Executions, NEW c \in Chunks, LookUpEntity(x, c) PROVE StatusOf(k)
  BY <1>7, <1>a DEF LookUpEntity
<1>8. ASSUME NEW x \in Executions, NEW c \in Chunks, UpsertEntity(x, c) PROVE StatusOf(k)
  BY <1>8, <1>a DEF UpsertEntity
<1>9. ASSUME NEW x \in Executions, NEW c \in Chunks, StoreEntityFails(x, c) PROVE StatusOf(k)
  BY <1>9, <1>a DEF StoreEntityFails
<1>10. ASSUME NEW x \in Executions, NEW c \in Chunks, StoreMentions(x, c) PROVE StatusOf(k)
  BY <1>10, <1>a DEF StoreMentions
<1>11. ASSUME NEW x \in Executions, NEW c \in Chunks, ReadGraph(x, c) PROVE StatusOf(k)
  BY <1>11, <1>a DEF ReadGraph
<1>12. ASSUME NEW x \in Executions, NEW c \in Chunks, NEW e \in Edges, FindRelation(x, c, e) PROVE StatusOf(k)
  BY <1>12, <1>a DEF FindRelation
<1>13. ASSUME NEW x \in Executions, NEW c \in Chunks, StoreRelation(x, c) PROVE StatusOf(k)
  BY <1>13, <1>a DEF StoreRelation
<1>14. ASSUME NEW x \in Executions, NEW c \in Chunks, StoreRelationFails(x, c) PROVE StatusOf(k)
  BY <1>14, <1>a DEF StoreRelationFails
<1>15. ASSUME NEW x \in Executions, NEW c \in Chunks, DetectSkip(x, c) PROVE StatusOf(k)
  BY <1>15, <1>a DEF DetectSkip
<1>16. ASSUME NEW x \in Executions, NEW c \in Chunks, DetectNothing(x, c) PROVE StatusOf(k)
  BY <1>16, <1>a DEF DetectNothing
<1>17. ASSUME NEW x \in Executions, NEW c \in Chunks, Detect(x, c) PROVE StatusOf(k)
  BY <1>17, <1>a DEF Detect
<1>18. ASSUME NEW x \in Executions, NEW c \in Chunks, StoreCommunities(x, c) PROVE StatusOf(k)
  BY <1>18, <1>a DEF StoreCommunities
<1>19. ASSUME NEW x \in Executions, NEW c \in Chunks, StoreCommunitiesFails(x, c) PROVE StatusOf(k)
  BY <1>19, <1>a DEF StoreCommunitiesFails
<1>20. ASSUME NEW x \in Executions, NEW c \in Chunks, BatchUpdate(x, c) PROVE StatusOf(k)
  <2>1. /\ status' = [d \in Chunks |-> IF status[d].construction = "completed"
                                   THEN [status[d] EXCEPT !.community = "completed"] ELSE status[d]]
        /\ cleaning' = cleaning
    BY <1>20 DEF BatchUpdate
  <2>2. CASE status[k].construction = "completed"
    <3>1. status'[k] = [status[k] EXCEPT !.community = "completed"]
      BY <2>1, <2>2
    <3>2. status'[k].resolution = status[k].resolution
      BY <1>0, <3>1
    <3> QED
      BY <1>20, <2>1, <2>2, <3>2 DEF StatusOf
  <2>3. CASE status[k].construction # "completed"
    <3>1. status'[k] = status[k]
      BY <2>1, <2>3
    <3> QED
      BY <2>1, <3>1 DEF StatusOf
  <2> QED
    BY <2>2, <2>3
<1>21. ASSUME DropCollections PROVE StatusOf(k)
  <2>1. status' = status /\ cleaning'
    BY <1>21 DEF DropCollections
  <2> QED
    BY <2>1 DEF StatusOf
<1>22. ASSUME ResetChunks PROVE StatusOf(k)
  <2>1. \A s \in Stages : status'[k][s] = "absent"
    BY <1>22 DEF ResetChunks
  <2>2. k \notin hurt' => \A x \in Executions : job[x][k].at = "none"
    BY <1>22 DEF ResetChunks, InHand
  <2>3. job' = job /\ stage' = stage
    BY <1>22 DEF ResetChunks
  <2> QED
    BY <1>0, <2>1, <2>2, <2>3 DEF StatusOf
<1>23. ASSUME Crash PROVE StatusOf(k)
  <2>1. status' = status /\ (cleaning => hurt' = Chunks)
    BY <1>23 DEF Crash
  <2> QED
    BY <2>1 DEF StatusOf
<1>24. ASSUME NEW s \in Stages, CleanStatus(s) PROVE StatusOf(k)
  <2>1. status' = [c \in Chunks |-> [status[c] EXCEPT ![s] = "absent"]] /\ cleaning' = cleaning
    BY <1>24 DEF CleanStatus
  <2>2. \A t \in Stages : status'[k][t] = IF t = s THEN "absent" ELSE status[k][t]
    BY <1>0, <2>1
  <2> QED
    BY <1>0, <2>1, <2>2 DEF StatusOf
<1>25. CASE UNCHANGED vars
  BY <1>25, <1>a DEF vars
<1> QED
  BY <1>1, <1>2, <1>3, <1>4, <1>5, <1>6, <1>7, <1>8, <1>9, <1>10, <1>11, <1>12,
     <1>13, <1>14, <1>15, <1>16, <1>17, <1>18, <1>19, <1>20, <1>21, <1>22, <1>23,
     <1>24, <1>25
     DEF Next, Handle

\* A handler comes to say completed at the end of its stage, and into a queue by
\* being due; one under the lock has detected there.
LEMMA ComesToEnd ==
    ASSUME IType, [Next]_vars, NEW y \in Executions, NEW d \in Chunks
    PROVE  /\ job'[y][d].at = "write" /\ job'[y][d].out = "completed" =>
                 \/ job'[y][d] = job[y][d] /\ stage'[y] = stage[y]
                 \/ stage'[y] = "extraction"
                 \/ StoreMentions(y, d) \/ StoreRelation(y, d) \/ StoreRelationFails(y, d)
           /\ job'[y][d].at = "queued" =>
                 \/ job'[y][d] = job[y][d] /\ stage'[y] = stage[y]
                 \/ d \in Due(stage'[y]) /\ UNCHANGED <<status, graphVars, cleaning, historyVars>>
           /\ job'[y][d].at \in InLock =>
                 \/ job'[y][d] = job[y][d]
                 \/ Detect(y, d) /\ job'[y][d].at = "store"
                 \/ (StoreCommunities(y, d) \/ StoreCommunitiesFails(y, d)) /\ job'[y][d].at = "batch"
<1> DEFINE Goal ==
           /\ job'[y][d].at = "write" /\ job'[y][d].out = "completed" =>
                 \/ job'[y][d] = job[y][d] /\ stage'[y] = stage[y]
                 \/ stage'[y] = "extraction"
                 \/ StoreMentions(y, d) \/ StoreRelation(y, d) \/ StoreRelationFails(y, d)
           /\ job'[y][d].at = "queued" =>
                 \/ job'[y][d] = job[y][d] /\ stage'[y] = stage[y]
                 \/ d \in Due(stage'[y]) /\ UNCHANGED <<status, graphVars, cleaning, historyVars>>
           /\ job'[y][d].at \in InLock =>
                 \/ job'[y][d] = job[y][d]
                 \/ Detect(y, d) /\ job'[y][d].at = "store"
                 \/ (StoreCommunities(y, d) \/ StoreCommunitiesFails(y, d)) /\ job'[y][d].at = "batch"
<1>a. InLock = {"store", "batch"}
  BY DEF InLock
<1>1. CASE job'[y][d].at \notin {"write", "queued", "store", "batch"}
  BY <1>1, <1>a
<1>2. CASE job'[y][d] = job[y][d] /\ (stage'[y] = stage[y] \/ job[y][d].at = "none")
  BY <1>2, <1>a
<1>3. CASE LookUpEntity(y, d)
  <2>1. PICK i \in Jobs : Become(y, d, i) /\ i.at = "upsert"
    BY <1>3, LookUpAims
  <2>2. job'[y][d] = i
    BY <2>1, BecomeOne
  <2> QED
    BY <1>1, <2>1, <2>2
<1>4. CASE UpsertEntity(y, d)
  <2>1. PICK m \in Names, docs \in Seq(EntityDocs) : Upserted(y, d, m, docs)
    BY <1>4, Upserts
  <2> QED
    BY <1>1, <2>1 DEF Upserted
<1>5. CASE StoreEntityFails(y, d)
  BY <1>1, <1>5, NextFails
<1>6. CASE StoreMentions(y, d)
  BY <1>6, <1>a, NextMentions, WritingHand
<1>7. CASE ReadGraph(y, d)
  <2>1. job'[y][d] = Writing("failed") \/ job'[y][d].at = "edge"
    BY <1>7, NextReads
  <2> QED
    BY <1>1, <1>a, <2>1, WritingHand
<1>8. CASE \E e \in Edges : FindRelation(y, d, e)
  <2>1. PICK e \in Edges : FindRelation(y, d, e)
    BY <1>8
  <2>2. PICK i \in Jobs : Become(y, d, i) /\ i.at = "put"
    BY <2>1, FindAims
  <2>3. job'[y][d] = i
    BY <2>2, BecomeOne
  <2> QED
    BY <1>1, <2>2, <2>3
<1>9. CASE StoreRelation(y, d) \/ StoreRelationFails(y, d)
  <2>1. job'[y][d] = Writing("completed") \/ job'[y][d].at = "edge"
    BY <1>9, NextPuts
  <2> QED
    BY <1>1, <1>9, <1>a, <2>1, WritingHand
<1>10. CASE Detect(y, d) \/ StoreCommunities(y, d) \/ StoreCommunitiesFails(y, d)
  BY <1>10, <1>a, NextDetects
<1>11. CASE job'[y][d] = NoJob
  BY <1>1, <1>11, Hands
<1>12. CASE job'[y][d] = Queued /\ d \in Due(stage'[y]) /\ UNCHANGED <<status, graphVars, cleaning, historyVars>>
  BY <1>12, <1>a, FreshHands
<1>13. CASE job'[y][d].at = "write" /\ (job'[y][d].out = "failed" \/ stage'[y] = "extraction")
  BY <1>13, <1>a
<1>14. NextHand(y, d)
  BY HandsChange
<1> HIDE DEF Goal
<1> QED
  BY <1>2, <1>3, <1>4, <1>5, <1>6, <1>7, <1>8, <1>9, <1>10, <1>11, <1>12, <1>13, <1>14 DEF NextHand, StepOf, Goal

\* What the names of a chunk stand for stays while nothing is dropped.
LEMMA StillNamed ==
    ASSUME IType, [Next]_vars, ~DropCollections, NEW c \in Chunks, NEW k \in 0..Len(Mentioned[c]), Named(c, k)
    PROVE  Named(c, k)'
  <1>1. \A i \in 1..k : Mentioned[c][i] \in Names
    BY KnowledgeGraphAssumption, ElementOfSeq, LenProperties DEF KnowledgeGraphAssumption
  <1>2. \A n \in Names : IdsOf(n) \subseteq IdsOf(n)'
    BY Keeps
  <1>3. \A i \in 1..k : IdsOf(Mentioned[c][i]) # {}
    BY DEF Named
  <1>4. \A i \in 1..k : IdsOf(Mentioned[c][i])' # {}
    BY <1>1, <1>2, <1>3
  <1> QED
    BY <1>4 DEF Named

\* An upsert names one more.
LEMMA UpsertNames ==
    ASSUME IType, [Next]_vars, ~DropCollections, NEW x \in Executions, NEW c \in Chunks, UpsertEntity(x, c),
           Named(c, Len(job[x][c].ids))
    PROVE  Len(job'[x][c].ids) \in 0..Len(Mentioned[c]) /\ Named(c, Len(job[x][c].ids))'
  <1>1. PICK m \in Names, docs \in Seq(EntityDocs) : Upserted(x, c, m, docs)
    BY Upserts
  <1>2. PICK k \in Nat : k = Len(job[x][c].ids) /\ k < Len(Mentioned[c]) /\ Len(Mentioned[c]) \in Nat
    BY <1>1, JobFields, LenProperties DEF Upserted, ShapeOf
  <1>3. Len(job'[x][c].ids) = k + 1
    BY <1>1, <1>2, JobFields, AppendProperties DEF Upserted
  <1>4. PICK n \in Names : n = Mentioned[c][k + 1]
    BY <1>2, NextName
  <1>5. m \in IdsOf(n)'
    <2>1. Stored(m)' /\ (m = n \/ \E i \in DOMAIN entities'[m] : n \in entities'[m][i].aliases)
      BY <1>1, <1>2, <1>4 DEF Upserted, Stored, Alias
    <2> QED
      BY <2>1 DEF IdsOf
  <1>6. Named(c, k)'
    BY <1>2, StillNamed
  <1>7. \A i \in 1..(k + 1) : i \in 1..k \/ i = k + 1
    BY <1>2
  <1>8. Named(c, k + 1)'
    <2>1. ASSUME NEW i \in 1..(k + 1) PROVE IdsOf(Mentioned[c][i])' # {}
      <3>1. CASE i \in 1..k
        BY <1>6, <3>1 DEF Named
      <3>2. CASE i = k + 1
        BY <1>4, <1>5, <3>2
      <3> QED
        BY <1>7, <3>1, <3>2
    <2> QED
      BY <2>1 DEF Named
  <1>9. k + 1 \in 0..Len(Mentioned[c])
    BY <1>2
  <1>10. Named(c, Len(job[x][c].ids))'
    <2>1. \A i \in 1..Len(job'[x][c].ids) : IdsOf(Mentioned[c][i])' # {}
      BY <1>3, <1>8 DEF Named
    <2> QED
      BY <2>1 DEF Named
  <1> QED
    BY <1>3, <1>9, <1>10

\* Every name of a chunk that counts as resolved stands for an id.
LEMMA ResolvedStep ==
    ASSUME IType, ResolvedInv, [Next]_vars
    PROVE  ResolvedInv'
<1> DEFINE All(c) == Named(c, Len(Mentioned[c]))
           Done(x, c) == \/ stage[x] = "resolution" /\ job[x][c].at = "write" /\ job[x][c].out = "completed"
                         \/ stage[x] = "construction" /\ job[x][c].at = "queued"
<1> SUFFICES ASSUME NEW c \in Chunks, ~cleaning', c \notin hurt'
             PROVE  /\ status'[c].resolution = "completed" => All(c)'
                    /\ \A x \in Executions :
                          /\ job'[x][c].at \in Resolving => Named(c, Len(job[x][c].ids))'
                          /\ Done(x, c)' => All(c)'
  BY DEF ResolvedInv
<1>1. ~DropCollections
  BY DEF DropCollections
<1>2. c \notin hurt
  BY <1>1, Keeps
<1>3. StatusOf(c) /\ Len(Mentioned[c]) \in Nat
  BY StatusChange, KnowledgeGraphAssumption, LenProperties DEF KnowledgeGraphAssumption
<1>4. CASE cleaning
  <2>1. /\ \A x \in Executions : job'[x][c].at = "none"
        /\ status'[c].resolution = "absent"
    BY <1>3, <1>4 DEF StatusOf, Stages
  <2> QED
    BY <2>1 DEF Resolving
<1>5. CASE ~cleaning
  <2>1. /\ status[c].resolution = "completed" => All(c)
        /\ \A x \in Executions : /\ job[x][c].at \in Resolving => Named(c, Len(job[x][c].ids))
                                 /\ Done(x, c) => All(c)
    BY <1>2, <1>5 DEF ResolvedInv
  <2>2. \A k \in 0..Len(Mentioned[c]) : Named(c, k) => Named(c, k)'
    BY <1>1, StillNamed
  <2>3. All(c) => All(c)'
    BY <1>3, <2>2
  <2>4. status'[c].resolution = "completed" => All(c)'
    BY <1>3, <2>1, <2>3 DEF StatusOf
  <2>5. ASSUME NEW x \in Executions, job'[x][c].at \in Resolving PROVE Named(c, Len(job[x][c].ids))'
    <3>1. CASE LookUpEntity(x, c)
      <4>1. PICK j \in Jobs : Become(x, c, j) /\ j.ids = job[x][c].ids
        BY <3>1, LookUpAims
      <4>2. job'[x][c].ids = job[x][c].ids
        BY <4>1, BecomeOne
      <4>3. PICK k \in 0..Len(Mentioned[c]) : k = Len(job[x][c].ids) /\ Named(c, k)
        <5>1. CASE job[x][c].at = "entity"
          BY <2>1, <5>1, JobFields DEF Resolving, ShapeOf
        <5>2. CASE job[x][c].at = "queued"
          <6>1. Len(job[x][c].ids) = 0
            BY <5>2, JobFields, EmptySeq DEF ShapeOf, Resolving
          <6> QED
            BY <1>3, <6>1 DEF Named
        <5> QED
          BY <3>1, <5>1, <5>2 DEF LookUpEntity
      <4>4. Named(c, k)'
        BY <2>2, <4>3
      <4> QED
        BY <4>2, <4>3, <4>4 DEF Named
    <3>2. CASE UpsertEntity(x, c)
      <4>1. Named(c, Len(job[x][c].ids))
        BY <2>1, <3>2 DEF UpsertEntity, Resolving
      <4> QED
        BY <1>1, <3>2, <4>1, UpsertNames
    <3>3. CASE StoreEntityFails(x, c)
      BY <3>3, NextFails
    <3>4. CASE job'[x][c] = job[x][c]
      <4>1. PICK k \in 0..Len(Mentioned[c]) : k = Len(job[x][c].ids) /\ Named(c, k)
        BY <2>1, <2>5, <3>4, JobFields DEF ShapeOf
      <4>2. Named(c, k)'
        BY <2>2, <4>1
      <4> QED
        BY <3>4, <4>1, <4>2 DEF Named
    <3>5. job'[x][c] # NoJob /\ job'[x][c] # Queued /\ job'[x][c].at # "write"
      BY <2>5, Hands, FreshHands DEF Resolving
    <3>6. ~StoreMentions(x, c)
      BY <3>5, NextMentions, WritingHand
    <3>7. job[x][c].at \in Resolving \/ LookUpEntity(x, c)
      BY <2>5, ComesToWork
    <3>8. CASE job[x][c].at \in Resolving
      BY <3>1, <3>2, <3>3, <3>4, <3>5, <3>6, <3>8, HandsChange
         DEF NextHand, StepOf, Resolving, ReadGraph, FindRelation, StoreRelation, StoreRelationFails, Detect,
             StoreCommunities, StoreCommunitiesFails
    <3> QED
      BY <3>1, <3>7, <3>8
  <2>6. ASSUME NEW x \in Executions, Done(x, c)' PROVE All(c)'
    <3>1. CASE stage'[x] = "resolution" /\ job'[x][c].at = "write" /\ job'[x][c].out = "completed"
      <4>1. CASE job'[x][c] = job[x][c] /\ stage'[x] = stage[x]
        BY <2>1, <2>3, <3>1, <4>1
      <4>2. CASE StoreMentions(x, c)
        <5>1. job[x][c].at \in Resolving /\ Len(job[x][c].ids) = Len(Mentioned[c])
          BY <4>2, NextMentions DEF Resolving
        <5>2. All(c)
          BY <2>1, <5>1
        <5> QED
          BY <2>3, <5>2
      <4>3. ~(StoreRelation(x, c) \/ StoreRelationFails(x, c))
        BY <3>1, NextPuts
      <4> QED
        BY <3>1, <4>1, <4>2, <4>3, ComesToEnd
    <3>2. CASE stage'[x] = "construction" /\ job'[x][c].at = "queued"
      <4>1. CASE job'[x][c] = job[x][c] /\ stage'[x] = stage[x]
        BY <2>1, <2>3, <3>2, <4>1
      <4>2. CASE c \in Due(stage'[x])
        BY <2>1, <2>3, <3>2, <4>2 DEF Due
      <4> QED
        BY <3>2, <4>1, <4>2, ComesToEnd
    <3> QED
      BY <2>6, <3>1, <3>2
  <2> QED
    BY <2>4, <2>5, <2>6
<1> QED
  BY <1>4, <1>5

-----------------------------------------------------------------------------
(* What construction stores *)

\* An insert that came too late has met the one that came before it.
LEMMA InsertStep ==
    ASSUME IType, TogetherInv, InsertInv, [Next]_vars
    PROVE  InsertInv'
<1> SUFFICES ASSUME NEW x \in Executions, NEW c \in Chunks, NEW e \in Edges, job'[x][c].at = "put", job'[x][c].to = e
             PROVE  /\ job'[x][c].gone /\ Linked(e)' => \E d \in Chunks : Met("construction", c, d)'
                    /\ ~job'[x][c].gone => Linked(e)' \/ c \in hurt'
  BY DEF InsertInv
<1>1. CASE DropCollections
  <2>1. c \in hurt' /\ ~Linked(e)'
    BY <1>1, Dropped
  <2> QED
    BY <2>1
<1>2. CASE \E f \in Edges : FindRelation(x, c, f)
  <2>1. PICK f \in Edges : FindRelation(x, c, f)
    BY <1>2
  <2>2. PICK j \in Jobs : Become(x, c, j) /\ j.to = f /\ j.gone = ~Linked(f)
    BY <2>1, FindAims
  <2>3. job'[x][c] = j
    BY <2>2, BecomeOne
  <2>4. f = e /\ relations' = relations
    BY <2>1, <2>2, <2>3 DEF FindRelation, graphVars
  <2> QED
    BY <2>2, <2>3, <2>4 DEF Linked
<1>3. CASE ~DropCollections /\ job'[x][c] = job[x][c]
  <2>1. met \subseteq met' /\ hurt \subseteq hurt' /\ (Linked(e) => Linked(e)')
    BY <1>3, Keeps
  <2>2. /\ job[x][c].gone /\ Linked(e) => \E d \in Chunks : Met("construction", c, d)
        /\ ~job[x][c].gone => Linked(e) \/ c \in hurt
    BY <1>3 DEF InsertInv
  <2>3. \A d : Met("construction", c, d) => Met("construction", c, d)'
    BY <2>1 DEF Met
  <2>4. ASSUME Linked(e)', ~Linked(e) PROVE \E d \in Chunks : Met("construction", c, d)'
    <3>1. PICK y \in Executions, d \in Chunks : StoreRelation(y, d)
      BY <1>3, <2>4, Changes DEF ChangesOf, Linked
    <3>2. job[y][d].at = "put" /\ (job'[y][d] = Writing("completed") \/ job'[y][d].at = "edge")
      BY <3>1, NextPuts
    <3>3. job'[y][d].at # "put"
      BY <3>2, WritingHand
    <3>4. Met("construction", c, d)
      <4>1. x # y \/ c # d
        BY <1>3, <3>2, <3>3
      <4> QED
        BY <1>3, <3>2, <4>1 DEF TogetherInv, Constructing
    <3> QED
      BY <2>3, <3>4
  <2> QED
    BY <1>3, <2>1, <2>2, <2>3, <2>4
<1> QED
  BY <1>1, <1>2, <1>3, ComesToWork

\* What is stowed stays so while nothing is dropped, and the edge just stored is.
LEMMA StillStowed ==
    ASSUME IType, [Next]_vars, ~DropCollections, NEW c \in Chunks, NEW todo, NEW rest, Stowed(c, todo),
           \A e \in Edges : e \in todo => e \in rest \/ c \in AllSources(relations'[e])
    PROVE  Stowed(c, rest)'
  <1>1. Related[c] \subseteq Edges
    BY KnowledgeGraphAssumption DEF KnowledgeGraphAssumption
  <1>2. ASSUME NEW r \in Related[c], KeptOr(c, r, todo) PROVE KeptOr(c, r, rest)'
    <2>1. PICK a \in IdsOf(r[1]), b \in IdsOf(r[2]) : <<a, b>> \in todo \/ c \in AllSources(relations[<<a, b>>])
      BY <1>2 DEF KeptOr
    <2>2. r[1] \in Names /\ r[2] \in Names
      BY <1>1 DEF Edges
    <2>3. a \in Names /\ b \in Names /\ <<a, b>> \in Edges
      BY DEF IdsOf, Edges
    <2>4. a \in IdsOf(r[1])' /\ b \in IdsOf(r[2])'
      BY <2>2, Keeps
    <2>5. <<a, b>> \in rest \/ c \in AllSources(relations'[<<a, b>>])
      BY <2>1, <2>3, Keeps
    <2> QED
      BY <2>4, <2>5 DEF KeptOr
  <1> QED
    BY <1>2 DEF Stowed

\* A handler that has read the graph is to store what its chunk relates.
LEMMA ReadingStows ==
    ASSUME IType, NEW x \in Executions, NEW c \in Chunks, ReadGraph(x, c), Named(c, Len(Mentioned[c])),
           job'[x][c].at \in Constructing
    PROVE  Stowed(c, job'[x][c].todo)
  <1>0. job'[x][c] # Writing("failed")
    BY WritingHand DEF Constructing
  <1>1. PICK id \in [UNION {{r[1], r[2]} : r \in Related[c]} -> Names] :
                 /\ \A n \in DOMAIN id : id[n] \in IF IdsOf(n) = {} THEN {n} ELSE IdsOf(n)
                 /\ Valid(c, id) # {} /\ Valid(c, id) \in SUBSET Edges
                 /\ job'[x][c].at = "edge" /\ job'[x][c].todo = Valid(c, id) /\ job'[x][c].ids = <<>>
    BY <1>0, NextReads, Zenon
  <1>2. \A r \in Related[c] : r \in Edges /\ r[1] \in Names /\ r[2] \in Names /\ r[1] \in DOMAIN id /\ r[2] \in DOMAIN id
    BY <1>1, KnowledgeGraphAssumption DEF KnowledgeGraphAssumption, Edges
  <1>3. \A n \in DOMAIN id : n \in Names /\ (Stored(id[n]) => id[n] \in IdsOf(n))
    <2> TAKE n \in DOMAIN id
    <2>1. n \in Names
      <3>1. PICK r \in Related[c] : n = r[1] \/ n = r[2]
        BY <1>1
      <3> QED
        BY <1>2, <3>1
    <2>2. IdsOf(n) # {} => id[n] \in IdsOf(n)
      BY <1>1
    <2>3. IdsOf(n) = {} => id[n] = n
      BY <1>1
    <2>4. Stored(n) => n \in IdsOf(n)
      BY <2>1 DEF IdsOf
    <2> QED
      BY <2>1, <2>2, <2>3, <2>4
  <1>4. \A n, m : m \in IdsOf(n) => Stored(m)
    BY DEF IdsOf
  <1>5. \E r \in Related[c] : KeptOr(c, r, Valid(c, id))
    <2>1. PICK e \in Valid(c, id) : TRUE
      BY <1>1
    <2>2. PICK r \in Related[c] : e = <<id[r[1]], id[r[2]]>> /\ Stored(id[r[1]]) /\ Stored(id[r[2]])
      BY DEF Valid, Translated
    <2> QED
      BY <1>2, <1>3, <2>2 DEF KeptOr
  <1>6. ASSUME NEW r \in Related[c], {r[1], r[2]} \subseteq Own(c) PROVE KeptOr(c, r, Valid(c, id))
    <2>0. DOMAIN Mentioned[c] = 1..Len(Mentioned[c])
      BY KnowledgeGraphAssumption, LenProperties DEF KnowledgeGraphAssumption
    <2>1. \A n \in Own(c) : IdsOf(n) # {}
      BY <2>0 DEF Own, Named
    <2>2. id[r[1]] \in IdsOf(r[1]) /\ id[r[2]] \in IdsOf(r[2])
      BY <1>1, <1>2, <1>6, <2>1
    <2>3. <<id[r[1]], id[r[2]]>> \in Valid(c, id)
      BY <1>4, <2>2 DEF Valid, Translated
    <2> QED
      BY <2>2, <2>3 DEF KeptOr
  <1> QED
    BY <1>1, <1>5, <1>6 DEF Stowed

\* After a store, the chunk's other relations are left to store.
LEMMA PuttingStows ==
    ASSUME IType, [Next]_vars, InsertInv, NEW x \in Executions, NEW c \in Chunks, StoreRelation(x, c),
           c \notin hurt, ~\E d \in Chunks : Met("construction", c, d), Stowed(c, job[x][c].todo)
    PROVE  /\ job'[x][c].at \in Constructing => Stowed(c, job[x][c].todo)'
           /\ job'[x][c].at = "write" => Stowed(c, {})'
  <1>1. PICK e \in Edges, docs \in Seq(RelationDocs) : Put(x, c, e, docs)
    BY Puts
  <1>2. c \in AllSources(relations'[e])
    <2>1. job[x][c].at = "put" /\ job[x][c].to = e /\ job[x][c].gone \in BOOLEAN
      BY <1>1, JobFields DEF Put
    <2>2. ~(job[x][c].gone /\ Linked(e)) /\ ~(~job[x][c].gone /\ ~Linked(e))
      BY <2>1 DEF InsertInv
    <2> QED
      BY <1>1, <2>2 DEF Put
  <1>3. ~DropCollections
    BY <1>1 DEF DropCollections, Put
  <1>4. /\ job[x][c].to = e
        /\ \/ job'[x][c] = Writing("completed") /\ job[x][c].todo \ {e} = {}
           \/ job'[x][c].at = "edge" /\ job'[x][c].todo = job[x][c].todo \ {e}
    BY <1>1, NextPuts DEF Put
  <1>5. CASE job'[x][c] = Writing("completed") /\ job[x][c].todo \ {e} = {}
    <2>1. Stowed(c, {})'
      BY <1>2, <1>3, <1>5, StillStowed
    <2> QED
      BY <1>5, <2>1, WritingHand DEF Constructing
  <1>6. CASE job'[x][c].at = "edge" /\ job'[x][c].todo = job[x][c].todo \ {e}
    <2>1. PICK rest : rest = job'[x][c].todo
      OBVIOUS
    <2>2. \A f \in Edges : f \in job[x][c].todo => f \in rest \/ c \in AllSources(relations'[f])
      BY <1>2, <1>6, <2>1
    <2>3. Stowed(c, rest)'
      BY <1>3, <2>2, StillStowed
    <2>4. Stowed(c, job[x][c].todo)'
      BY <2>1, <2>3 DEF Stowed, KeptOr
    <2> QED
      BY <1>6, <2>4
  <1> QED
    BY <1>4, <1>5, <1>6

\* So a chunk whose construction counts as completed is stowed.
LEMMA StowedStep ==
    ASSUME IType, ResolvedInv, InsertInv, StowedInv, [Next]_vars
    PROVE  StowedInv'
<1> DEFINE Done(x, c) == stage[x] = "construction" /\ job[x][c].at = "write" /\ job[x][c].out = "completed"
<1> SUFFICES ASSUME NEW c \in Chunks, ~Excused(c)'
             PROVE  /\ status'[c].construction = "completed" => Stowed(c, {})'
                    /\ \A x \in Executions :
                          /\ job'[x][c].at \in Constructing => Stowed(c, job[x][c].todo)'
                          /\ Done(x, c)' => Stowed(c, {})'
  BY DEF StowedInv
<1>1. ~cleaning' /\ c \notin hurt' /\ (\A d \in Chunks : ~Met("construction", c, d)') /\ ~DropCollections
  BY DEF Excused, DropCollections
<1>2. c \notin hurt /\ (\A d \in Chunks : ~Met("construction", c, d))
  BY <1>1, Keeps DEF Met
<1>3. StatusOf(c)
  BY StatusChange
<1>4. CASE cleaning
  <2>1. /\ \A x \in Executions : job'[x][c].at = "none"
        /\ status'[c].construction = "absent"
    BY <1>1, <1>3, <1>4 DEF StatusOf, Stages
  <2> QED
    BY <2>1 DEF Constructing
<1>5. CASE ~cleaning
  <2>1. /\ status[c].construction = "completed" => Stowed(c, {})
        /\ \A x \in Executions : /\ job[x][c].at \in Constructing => Stowed(c, job[x][c].todo)
                                 /\ Done(x, c) => Stowed(c, {})
    BY <1>2, <1>5 DEF StowedInv, Excused
  <2>2. \A todo : Stowed(c, todo) => Stowed(c, todo)'
    BY <1>1, StillStowed
  <2>3. status'[c].construction = "completed" => Stowed(c, {})'
    BY <1>3, <2>1, <2>2 DEF StatusOf
  <2>4. ASSUME NEW x \in Executions, job'[x][c].at \in Constructing PROVE Stowed(c, job[x][c].todo)'
    <3> SUFFICES ASSUME NEW todo, todo = job'[x][c].todo PROVE Stowed(c, todo)'
      BY DEF Stowed, KeptOr
    <3>1. CASE job'[x][c].todo = job[x][c].todo /\ job[x][c].at \in Constructing
      BY <2>1, <2>2, <3>1
    <3>2. CASE ReadGraph(x, c)
      <4>1. stage[x] = "construction" /\ job[x][c].at = "queued"
        BY <3>2 DEF ReadGraph
      <4>2. Named(c, Len(Mentioned[c]))
        BY <1>2, <1>5, <4>1 DEF ResolvedInv
      <4>3. Stowed(c, job'[x][c].todo)
        BY <2>4, <3>2, <4>2, ReadingStows
      <4> QED
        BY <2>2, <4>3
    <3>3. CASE StoreRelation(x, c)
      <4>1. job[x][c].at \in Constructing
        BY <3>3 DEF StoreRelation, Constructing
      <4>2. Stowed(c, job[x][c].todo)'
        BY <1>2, <2>1, <2>4, <3>3, <4>1, PuttingStows
      <4> QED
        BY <4>2 DEF Stowed, KeptOr
    <3>4. CASE StoreRelationFails(x, c)
      BY <1>1, <3>4 DEF StoreRelationFails
    <3>5. CASE \E e \in Edges : FindRelation(x, c, e)
      <4>1. PICK e \in Edges : FindRelation(x, c, e)
        BY <3>5
      <4>2. PICK j \in Jobs : Become(x, c, j) /\ j.todo = job[x][c].todo
        BY <4>1, FindAims
      <4>3. job'[x][c].todo = job[x][c].todo /\ job[x][c].at = "edge"
        BY <4>1, <4>2, BecomeOne DEF FindRelation
      <4> QED
        BY <3>1, <4>3 DEF Constructing
    <3>6. job'[x][c] # NoJob /\ job'[x][c] # Queued /\ job'[x][c].at # "write"
      BY <2>4, Hands, FreshHands DEF Constructing
    <3>7. CASE job[x][c].at \in Constructing
      BY <3>1, <3>3, <3>4, <3>5, <3>6, <3>7, HandsChange
         DEF NextHand, StepOf, Constructing, ReadGraph, LookUpEntity, UpsertEntity, StoreEntityFails, StoreMentions,
             Detect, StoreCommunities, StoreCommunitiesFails
    <3> QED
      BY <2>4, <3>2, <3>7, ComesToWork
  <2>5. ASSUME NEW x \in Executions, Done(x, c)' PROVE Stowed(c, {})'
    <3>1. CASE job'[x][c] = job[x][c] /\ stage'[x] = stage[x]
      BY <2>1, <2>2, <2>5, <3>1
    <3>2. CASE StoreRelation(x, c)
      <4>1. job[x][c].at \in Constructing
        BY <3>2 DEF StoreRelation, Constructing
      <4> QED
        BY <1>2, <2>1, <2>5, <3>2, <4>1, PuttingStows
    <3>3. CASE StoreRelationFails(x, c)
      BY <1>1, <3>3 DEF StoreRelationFails
    <3>4. ~StoreMentions(x, c)
      BY <2>5, NextMentions
    <3> QED
      BY <2>5, <3>1, <3>2, <3>3, <3>4, ComesToEnd
  <2> QED
    BY <2>3, <2>4, <2>5
<1> QED
  BY <1>4, <1>5

\* And that is what the property asks for.
LEMMA StowedIsStored == StowedInv => CompletedIsStored
  BY DEF StowedInv, Stowed, KeptOr, Excused, CompletedIsStored, Own

-----------------------------------------------------------------------------
(* What a detection covers *)

\* What a store adds is late while a detection is under way.
LEMMA AddsAreLate ==
    ASSUME IType, [Next]_vars, ~DropCollections, NEW e \in Edges, NEW c \in Chunks,
           c \in AllSources(relations'[e]), c \notin AllSources(relations[e]), Belated(c)
    PROVE  c \in late'
  <1>1. PICK y \in Executions, d \in Chunks : StoreRelation(y, d)
    BY Changes DEF ChangesOf
  <1>2. PICK f \in Edges, docs \in Seq(RelationDocs) : Put(y, d, f, docs)
    BY <1>1, Puts
  <1>3. c = d
    BY <1>2 DEF Put
  <1> QED
    BY <1>2, <1>3 DEF Put

\* What covers the relations goes on covering them during a detection.
LEMMA StillCovered ==
    ASSUME IType, [Next]_vars, ~DropCollections, Detecting, NEW edges, Covered(edges)
    PROVE  Covered(edges)'
  <1>1. ASSUME NEW c \in Chunks, NEW e \in Edges, c \notin late' \cup hurt', c \in AllSources(relations'[e])
        PROVE  e \in edges
    <2>1. c \notin late \cup hurt
      BY <1>1, Keeps
    <2>2. c \in AllSources(relations[e])
      BY <1>1, AddsAreLate DEF Belated
    <2> QED
      BY <2>1, <2>2 DEF Covered
  <1> QED
    BY <1>1 DEF Covered

\* After a clean there is nothing to cover.
LEMMA DroppedCovers ==
    ASSUME IType, DropCollections, NEW edges
    PROVE  Covered(edges)'
  BY Dropped DEF Covered

\* A detection reads every relation, and stores no less than it read, unless the
\* communities are there already.
LEMMA ReadStep ==
    ASSUME IType, ReadInv, [Next]_vars
    PROVE  ReadInv'
<1>1. ASSUME NEW x \in Executions, NEW d \in Chunks, job'[x][d].at = "store" PROVE Covered(job[x][d].todo)'
  <2> SUFFICES ASSUME NEW todo, todo = job'[x][d].todo PROVE Covered(todo)'
    BY DEF Covered
  <2>1. CASE DropCollections
    BY <2>1, DroppedCovers
  <2>2. CASE ~DropCollections /\ job'[x][d] = job[x][d]
    <3>1. Detecting /\ Covered(todo)
      BY <1>1, <2>2 DEF Detecting, ReadInv
    <3> QED
      BY <2>2, <3>1, StillCovered
  <2>3. CASE Detect(x, d)
    <3>1. todo = {e \in Edges : Linked(e)} /\ relations' = relations
      BY <2>3, NextDetects DEF Detect, graphVars
    <3>2. \A e \in Edges : ~Linked(e) => AllSources(relations[e]) = {}
      BY DEF Linked, AllSources
    <3> QED
      BY <3>1, <3>2 DEF Covered
  <2> QED
    BY <1>1, <2>1, <2>2, <2>3, ComesToEnd DEF InLock
<1>2. ASSUME Detecting', communities'.stored PROVE Covered(communities.over)'
  <2> SUFFICES ASSUME NEW over, over = communities'.over PROVE Covered(over)'
    BY DEF Covered
  <2>1. CASE DropCollections
    BY <2>1, DroppedCovers
  <2>2. ASSUME NEW y \in Executions, NEW d \in Chunks, StoreCommunities(y, d) PROVE Covered(over)'
    <3>1. job[y][d].at = "store" /\ UNCHANGED <<relations, late, hurt>>
      BY <2>2 DEF StoreCommunities, historyVars
    <3>2. over = communities.over \cup job[y][d].todo \/ (communities.stored /\ over = communities.over)
      BY <2>2 DEF StoreCommunities
    <3>3. Detecting
      BY <3>1 DEF Detecting
    <3>4. Covered(job[y][d].todo) /\ (communities.stored => Covered(communities.over))
      BY <3>1, <3>3 DEF ReadInv
    <3> QED
      BY <3>1, <3>2, <3>4 DEF Covered
  <2>3. CASE communities' = communities /\ ~DropCollections
    <3>1. CASE Detecting
      BY <1>2, <2>3, <3>1, StillCovered DEF ReadInv
    <3>2. CASE ~Detecting
      <4>1. PICK y \in Executions, d \in Chunks : job'[y][d].at \in InLock
        BY <1>2 DEF Detecting, InLock
      <4>2. job[y][d].at \notin InLock
        BY <3>2 DEF Detecting, InLock
      <4>3. ~communities.stored
        BY <4>1, <4>2, ComesToEnd DEF Detect, StoreCommunities, StoreCommunitiesFails, InLock
      <4> QED
        BY <1>2, <2>3, <4>3
    <3> QED
      BY <3>1, <3>2
  <2> QED
    BY <2>1, <2>2, <2>3, Changes DEF ChangesOf
<1> QED
  BY <1>1, <1>2 DEF ReadInv

\* What a detection is about to mark is excused if its communities are gone.
LEMMA GoneStep ==
    ASSUME IType, GoneInv, [Next]_vars
    PROVE  GoneInv'
<1> DEFINE Done(x, c) == stage[x] = "construction" /\ job[x][c].at = "write" /\ job[x][c].out = "completed"
<1> SUFFICES ASSUME ~communities'.stored, NEW z \in Executions, NEW b \in Chunks, job'[z][b].at = "batch",
                    NEW c \in Chunks, c \notin late' \cup hurt'
             PROVE  /\ status'[c].construction = "completed" => cleaning'
                    /\ \A x \in Executions : ~Done(x, c)'
  BY DEF GoneInv
<1>1. CASE DropCollections
  <2>1. \A x \in Executions : job[x][c].at = "none"
    BY <1>1, Dropped
  <2> QED
    BY <1>1, <2>1, Dropped
<1>2. CASE ~DropCollections
  <2>1. c \notin late \cup hurt
    BY <1>2, Keeps
  <2>2. ~communities.stored
    BY <1>2, Changes DEF ChangesOf, StoreCommunities
  <2>3. job[z][b].at = "batch"
    <3>1. ~StoreCommunities(z, b) /\ ~StoreCommunitiesFails(z, b)
      BY DEF StoreCommunities, StoreCommunitiesFails
    <3> QED
      BY <3>1, ComesToEnd DEF InLock
  <2>4. (status[c].construction = "completed" => cleaning) /\ \A x \in Executions : ~Done(x, c)
    BY <2>1, <2>2, <2>3 DEF GoneInv
  <2>5. status'[c].construction = "completed" => cleaning'
    <3>1. StatusOf(c)
      BY StatusChange
    <3>2. cleaning /\ ~cleaning' => status'[c].construction = "absent"
      BY <3>1 DEF StatusOf, Stages
    <3> QED
      BY <2>4, <3>1, <3>2 DEF StatusOf
  <2>6. ASSUME NEW x \in Executions PROVE ~Done(x, c)'
    <3>1. ~(job'[x][c] = job[x][c] /\ stage'[x] = stage[x] /\ Done(x, c)')
      BY <2>4
    <3>2. ~StoreRelation(x, c)
      <4>1. Belated(c)
        BY <2>3 DEF Belated, Detecting
      <4> QED
        BY <4>1, Puts DEF Put
    <3>3. ~StoreRelationFails(x, c)
      BY DEF StoreRelationFails
    <3>4. StoreMentions(x, c) => stage'[x] = "resolution"
      BY NextMentions
    <3> QED
      BY <3>1, <3>2, <3>3, <3>4, ComesToEnd
  <2> QED
    BY <2>5, <2>6
<1> QED
  BY <1>1, <1>2

\* So a chunk whose communities count as completed is covered by them.
LEMMA CoveredStep ==
    ASSUME IType, ReadInv, GoneInv, CompletedIsCovered, [Next]_vars
    PROVE  CompletedIsCovered'
<1> SUFFICES ASSUME NEW c \in Chunks, status'[c].community = "completed", ~cleaning', c \notin late' \cup hurt'
             PROVE  communities'.stored /\ \A e \in Edges : c \in AllSources(relations'[e]) => e \in communities'.over
  BY DEF CompletedIsCovered
<1>1. ~DropCollections
  BY DEF DropCollections
<1>2. c \notin late \cup hurt
  BY <1>1, Keeps
<1>3. StatusOf(c)
  BY StatusChange
<1>4. ~cleaning
  BY <1>3 DEF StatusOf, Stages
<1>5. CASE status[c].community = "completed"
  <2>1. communities.stored /\ \A e \in Edges : c \in AllSources(relations[e]) => e \in communities.over
    BY <1>2, <1>4, <1>5 DEF CompletedIsCovered
  <2>2. communities'.stored /\ communities.over \subseteq communities'.over
    BY <1>1, <2>1, Changes DEF ChangesOf, StoreCommunities
  <2>3. \A e \in Edges : c \in AllSources(relations'[e]) => c \in AllSources(relations[e])
    BY <1>1, <1>5, AddsAreLate DEF Belated
  <2> QED
    BY <2>1, <2>2, <2>3
<1>6. ASSUME status[c].construction = "completed", NEW x \in Executions, NEW d \in Chunks, BatchUpdate(x, d)
      PROVE  communities'.stored /\ \A e \in Edges : c \in AllSources(relations'[e]) => e \in communities'.over
  <2>1. job[x][d].at = "batch" /\ communities' = communities /\ relations' = relations
    BY <1>6 DEF BatchUpdate, graphVars
  <2>2. Detecting
    BY <2>1 DEF Detecting
  <2>3. communities.stored
    BY <1>2, <1>4, <1>6, <2>1 DEF GoneInv
  <2>4. Covered(communities.over)
    BY <2>2, <2>3 DEF ReadInv
  <2> QED
    BY <1>2, <2>1, <2>3, <2>4 DEF Covered
<1> QED
  BY <1>3, <1>5, <1>6 DEF StatusOf

-----------------------------------------------------------------------------
(* The theorems *)

\* Nothing is stored, in hand or known at first.
LEMMA InitInv == Init => IInv
<1> SUFFICES ASSUME Init PROVE IInv
  OBVIOUS
<1>1. IType
  BY TypeInit
<1>2. /\ \A n \in Names : entities[n] = <<>>
      /\ \A e \in Edges : relations[e] = <<>>
      /\ \A n \in Names, c \in Chunks : mentions[<<n, c>>] = 0
      /\ ~communities.stored
      /\ \A x \in Executions, c \in Chunks : job[x][c] = NoJob
  BY DEF Init
<1>3. \A x \in Executions, c \in Chunks : /\ job[x][c].at = "none" /\ job[x][c].ids = <<>>
  BY <1>2, Hands
<1>4. \A c \in Chunks : /\ status[c].resolution = "absent" /\ status[c].construction = "absent"
                        /\ status[c].community = "absent"
  BY DEF Init, Stages
<1>5. /\ \A docs : docs = <<>> => AllSources(docs) = {} /\ ~Twice(docs) /\ DOMAIN docs = {}
  BY EmptySeq DEF AllSources, Twice
<1>6. ReferenceInv
  BY <1>2, <1>3 DEF ReferenceInv, HeldResolves, Resolves, ReferencesResolve, Stored, Linked, Constructing
<1>7. TogetherInv
  BY <1>3 DEF TogetherInv, Resolving, Constructing
<1>8. TwinInv
  BY <1>2, <1>3, <1>5 DEF TwinInv, RacedInv, TwinsWereRaced, Stored
<1>9. CountInv
  BY <1>2, <1>3, <1>5 DEF CountInv, FreshInv, FiniteInv, CountsAreTrue
<1>10. ResolvedInv /\ StowedInv /\ InsertInv
  BY <1>3, <1>4 DEF ResolvedInv, StowedInv, InsertInv, Resolving, Constructing
<1>11. CoverInv
  BY <1>2, <1>3, <1>4 DEF CoverInv, ReadInv, GoneInv, CompletedIsCovered
<1> QED
  BY <1>1, <1>6, <1>7, <1>8, <1>9, <1>10, <1>11 DEF IInv, IType

\* Every step keeps the invariant.
LEMMA NextInv == IInv /\ [Next]_vars => IInv'
<1> SUFFICES ASSUME IInv, [Next]_vars PROVE IInv'
  OBVIOUS
<1>1. IType
  BY DEF IInv, IType
<1>2. IType'
  BY <1>1, TypeStep
<1>3. ReferenceInv'
  BY <1>1, HeldStep, ReferenceStep DEF IInv, ReferenceInv
<1>4. TogetherInv' /\ TwinInv'
  BY <1>1, TogetherStep, RacedStep, TwinStep DEF IInv, TwinInv
<1>5. CountInv'
  BY <1>1, FreshStep, CountStep DEF IInv, CountInv
<1>6. ResolvedInv' /\ StowedInv' /\ InsertInv'
  BY <1>1, ResolvedStep, StowedStep, InsertStep DEF IInv
<1>7. CoverInv'
  BY <1>1, ReadStep, GoneStep, CoveredStep DEF IInv, CoverInv
<1> QED
  BY <1>2, <1>3, <1>4, <1>5, <1>6, <1>7 DEF IInv, IType

\* The invariant holds of every state the stages reach.
THEOREM Invariance == Spec => []IInv
  BY InitInv, NextInv, PTL DEF Spec

\* The statuses, collections, handlers and history keep their types.
THEOREM TypeCorrect == Spec => []TypeOK
<1>1. IInv => TypeOK
  BY DEF IInv
<1> QED
  BY <1>1, Invariance, PTL

\* No mention and no end of a relation leads nowhere: the validation of the entities
\* and the order of the stores see to that, but for errors swallowed on the way.
THEOREM NothingDangles == Spec => []ReferencesResolve
<1>1. IInv => ReferencesResolve
  BY DEF IInv, ReferenceInv
<1> QED
  BY <1>1, Invariance, PTL

\* Two entities for one thing come only of two handlers at work together: find_one,
\* the candidates and the upsert suffice for one handler at a time.
THEOREM TwinsNeedARace == Spec => []TwinsWereRaced
<1>1. IInv => TwinsWereRaced
  BY DEF IInv, TwinInv
<1> QED
  BY <1>1, Invariance, PTL

\* source_count is the number of source_chunks, but for a chunk in two hands at once.
THEOREM CountsHold == Spec => []CountsAreTrue
<1>1. IInv => CountsAreTrue
  BY DEF IInv, CountInv
<1> QED
  BY <1>1, Invariance, PTL

\* A completed construction has stored the relations of the chunk's own names.
THEOREM CompletedStored == Spec => []CompletedIsStored
<1>1. IInv => CompletedIsStored
  BY StowedIsStored DEF IInv
<1> QED
  BY <1>1, Invariance, PTL

\* Completed communities cover the chunk's relations, but for those stored late.
THEOREM CompletedCovered == Spec => []CompletedIsCovered
<1>1. IInv => CompletedIsCovered
  BY DEF IInv, CoverInv
<1> QED
  BY <1>1, Invariance, PTL

\* What is stored, the sources it is credited to, and the ids a name stands for are
\* not forgotten by any step but a clean.
OnlyCleansForget ==
    [][\/ DropCollections
       \/ /\ \A n \in Names : /\ IdsOf(n) \subseteq IdsOf(n)'
                              /\ AllSources(entities[n]) \subseteq AllSources(entities[n])'
          /\ \A e \in Edges : AllSources(relations[e]) \subseteq AllSources(relations[e])']_vars

\* The upserts, inserts and updates of all handlers, in any order, only ever add.
THEOREM StoresOnlyAdd == Spec => OnlyCleansForget
<1>1. IType /\ [Next]_vars => \/ DropCollections
                              \/ /\ \A n \in Names : /\ IdsOf(n) \subseteq IdsOf(n)'
                                                     /\ AllSources(entities[n]) \subseteq AllSources(entities[n])'
                                 /\ \A e \in Edges : AllSources(relations[e]) \subseteq AllSources(relations[e])'
  BY Keeps
<1>2. IInv => IType
  BY DEF IInv, IType
<1> QED
  BY <1>1, <1>2, Invariance, PTL DEF Spec, OnlyCleansForget
=============================================================================
