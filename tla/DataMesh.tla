------------------------------- MODULE DataMesh --------------------------------
(***************************************************************************)
(* The data mesh memory (agent-sdk, datamesh.py) behind the MCP memory     *)
(* tools: memories stored as points of a vector database and consolidated. *)
(* A consolidation reads the points of a collection, writes one point for  *)
(* each cluster of similar ones, deletes the originals and then what is    *)
(* too old: each is a request of its own, which may fail before or after   *)
(* it took effect, and the call may be cancelled.                          *)
(*                                                                         *)
(* The code awaits the results of a client; given qdrant-client's blocking *)
(* one, each request takes effect and then the await raises.  Time is a    *)
(* count of max_age periods, and similar vectors are those of one class:   *)
(* the placeholder embedding, a zero vector, is similar to nothing.        *)
(***************************************************************************)
EXTENDS Naturals, Sequences, FiniteSets, FiniteSetsExt

CONSTANTS
  Memory,   \* the ids of the entries that are stored
  Kinds,    \* what they may be: [type, domain, vec]
  MaxNow,   \* bound on time
  MaxMerges \* bound on how often a point is merged again

ASSUME MeshAssumption == MaxNow \in Nat

VARIABLES
  client,   \* [awaitable, vectors]: how the client answers, whether a scroll has vectors
  now,      \* periods of max_age_days since the start
  points,   \* the database: [id, coll, domain, vec, created, holds]
  stored,   \* the entries memory_store has made
  job       \* the consolidation under way

mesh == <<client, now, points, stored, job>>

Domain == {"siem", "threat_intel", "case_mgmt", "response", "hunt", "agent"}

Resting == [at |-> "idle", domain |-> "none", clusters |-> {}, merging |-> {},
            into |-> <<>>, left |-> {}]

MeshInit ==
  /\ client \in [awaitable : BOOLEAN, vectors : BOOLEAN]
  /\ now = 0
  /\ points = {}
  /\ stored = {}
  /\ job = Resting

MeshTypeOK ==
  /\ now \in 0 .. MaxNow
  /\ \A p, q \in points : p.id = q.id => p = q
  /\ \A p \in points : p.holds \subseteq Memory /\ p.created <= now
  /\ job.at \in {"idle", "merge", "delete", "archive"}

-----------------------------------------------------------------------------
(* Collections. *)

CollectionForMemory(type, domain) ==
  CASE type \in {"episodic", "semantic", "procedural", "reflective"} -> type
    [] type \notin {"episodic", "semantic", "procedural", "reflective"} /\ domain = "siem" -> "alerts"
    [] type \notin {"episodic", "semantic", "procedural", "reflective"} /\ domain = "threat_intel"
         -> "threat_intel"
    [] type \notin {"episodic", "semantic", "procedural", "reflective"} /\ domain = "case_mgmt"
         -> "cases"
    [] OTHER -> "episodic"

CollectionForDomain(domain) ==
  CASE domain = "siem" -> "alerts" [] domain = "threat_intel" -> "threat_intel"
    [] domain = "case_mgmt" -> "cases" [] OTHER -> "episodic"

-----------------------------------------------------------------------------
(* Requests. *)

\* Whether a request may take effect and whether it may return: a blocking
\* client's never does.
Outcome == {o \in [effect : BOOLEAN, returns : BOOLEAN] :
              o.returns => o.effect /\ client.awaitable}

Upsert(p) == {q \in points : q.id # p.id} \cup {p}

Without(ids) == {q \in points : q.id \notin ids}

StorePoint(p) == \E o \in Outcome : points' = IF o.effect THEN Upsert(p) ELSE points

\* A new id for each entry, under whose hash its point is.  The tool stores without an
\* embedding, which makes the vector zero; DataMeshMemory.store takes one.
MemoryStore(m, kind) ==
  /\ m \notin stored
  /\ stored' = stored \cup {m}
  /\ StorePoint([id |-> <<m>>, coll |-> CollectionForMemory(kind.type, kind.domain),
                 domain |-> kind.domain, vec |-> kind.vec, created |-> now, holds |-> {m}])
  /\ UNCHANGED <<client, now, job>>

Wait ==
  /\ now < MaxNow
  /\ now' = now + 1
  /\ UNCHANGED <<client, points, stored, job>>

-----------------------------------------------------------------------------
(* Consolidation. *)

Old(p) == now - p.created >= 1
Ancient(p) == now - p.created >= 2

\* The similar ones among the memories that were read, if they have vectors.
Clusters(memories) ==
  {c \in {{p \in memories : p.vec = v} : v \in {q.vec : q \in memories} \ {"zero"}} :
     client.vectors /\ Cardinality(c) >= 2}

\* Nothing is done, not even archiving, with fewer than two old memories.
Consolidate(d) ==
  LET memories == {p \in points : p.coll = CollectionForDomain(d) /\ Old(p)}
      clusters == Clusters(memories)
  IN
  /\ job = Resting
  /\ client.awaitable
  /\ Cardinality(memories) >= 2
  /\ \A p \in memories : Len(p.id) <= MaxMerges
  /\ job' = [Resting EXCEPT !.at = IF clusters = {} THEN "archive" ELSE "merge", !.domain = d,
                            !.clusters = clusters,
                            !.left = memories \ UNION clusters]
  /\ UNCHANGED <<client, now, points, stored>>

\* memory_consolidate; one at a time (see the README).
MemoryConsolidate(d) == d \in Domain /\ Consolidate(d)

\* Bug variant: the content is the first memory's.
MutHeadOnly(head, cluster, d) ==
  [id |-> <<"consolidated">> \o head.id, coll |-> head.coll, domain |-> d, vec |-> head.vec,
   created |-> Min({p.created : p \in cluster}), holds |-> head.holds]

\* The point that stands for a cluster: its id is derived from the first
\* memory's, its domain is the one asked for, its date the earliest.
MergedPoint(head, cluster, d) ==
  [id |-> <<"consolidated">> \o head.id, coll |-> head.coll, domain |-> d, vec |-> head.vec,
   created |-> Min({p.created : p \in cluster}), holds |-> UNION {p.holds : p \in cluster}]

Later(clusters) == IF clusters = {} THEN "archive" ELSE "merge"

\* The first of a cluster is whichever the scroll returned first.
MergeCluster ==
  /\ job.at = "merge"
  /\ \E cluster \in job.clusters : \E head \in cluster, o \in Outcome :
       LET point == MergedPoint(head, cluster, job.domain)
           rest == job.clusters \ {cluster}
       IN /\ points' = IF o.effect THEN Upsert(point) ELSE points
          /\ job' = IF o.returns
                    THEN [job EXCEPT !.at = "delete", !.clusters = rest, !.merging = cluster,
                                     !.into = point.id]
                    ELSE [job EXCEPT !.at = Later(rest), !.clusters = rest]
  /\ UNCHANGED <<client, now, stored>>

DeleteOriginals ==
  /\ job.at = "delete"
  /\ \E o \in Outcome :
       points' = IF o.effect THEN Without({p.id : p \in job.merging}) ELSE points
  /\ job' = [job EXCEPT !.at = Later(job.clusters), !.merging = {}, !.into = <<>>]
  /\ UNCHANGED <<client, now, stored>>

Archive ==
  /\ job.at = "archive"
  /\ \E p \in job.left, o \in Outcome :
       /\ points' = IF o.effect /\ Ancient(p) THEN Without({p.id}) ELSE points
       /\ job' = [job EXCEPT !.left = @ \ {p}]
  /\ UNCHANGED <<client, now, stored>>

\* Its statistics are returned, or the call is cancelled.
EndJob ==
  /\ job # Resting
  /\ job' = Resting
  /\ UNCHANGED <<client, now, points, stored>>

MeshNext ==
  \/ \E m \in Memory, kind \in Kinds : MemoryStore(m, kind)
  \/ Wait
  \/ \E d \in Domain : MemoryConsolidate(d)
  \/ MergeCluster \/ DeleteOriginals \/ Archive \/ EndJob

-----------------------------------------------------------------------------
Held == UNION {p.holds : p \in points}

(* With requests that fail at any point, calls that are cancelled and        *)
(* memories stored in between, a consolidation loses what a memory says only *)
(* by archiving it, when it is twice the age limit and in no cluster, or     *)
(* when the point it writes has the id of a memory in the cluster, which it  *)
(* then deletes.                                                             *)
ConsolidationKeepsContents ==
  [][\A m \in Held \ Held' :
       \/ job.at = "archive" /\ \E p \in job.left : m \in p.holds /\ Ancient(p)
       \/ job.at = "delete" /\ job.into \in {p.id : p \in job.merging}]_mesh
================================================================================
