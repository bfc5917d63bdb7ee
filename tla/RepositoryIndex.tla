--------------------------- MODULE RepositoryIndex ---------------------------
(***************************************************************************)
(* The chunks of the repository per commit (rag/indexer.py: one            *)
(* transaction deletes a commit's rows and adds new ones; rag/retriever.py *)
(* for the planner).  The database runs READ COMMITTED: a DELETE finds the *)
(* rows committed when it starts, waits for transactions that are deleting *)
(* the same ones, and does not look for new rows afterwards.  A chunk's    *)
(* path and first line are unique within a commit; the rows are sent all   *)
(* at once, with the commit of the transaction.                            *)
(***************************************************************************)
EXTENDS Worktree

CONSTANTS
  Chunks,   \* chunks of a commit that has any
  Blanks    \* sets of commits without a chunk to consider

ASSUME ChunkBound == Chunks \in Nat \ {0} /\ Blanks \subseteq SUBSET Commits

VARIABLES
  blank,     \* the commits in which there is nothing to index
  rows,      \* committed copies of a commit's files, cut into chunks
  reading,   \* reading[j]: what j is indexing
  sha,       \* sha[j]: the channel commit_sha: {} if unknown
  context    \* context[j]: the commits whose code is in j's prompt

(* History, read by properties only.                                       *)
VARIABLES
  collided,  \* jobs whose last index another job's rows have refused
  barren     \* commits of which an index without a chunk was made

indexVars == <<blank, rows, reading, sha, context, collided, barren>>

(* How files can differ from the commit they are filed under: they are not *)
(* all checked out, they are edited, or they are files that git ignores.   *)
Extras == {"unfinished", "uncommitted", "ignored"}

(* by: whose copy; size: its chunks; chunks: how many there are so far.    *)
Copies ==
  [commit : Commits, extra : SUBSET Extras, by : Jobs \X (1..MaxPasses),
   size : {0, Chunks}, chunks : 0..Chunks]

(* A copy under way, and the rows its transaction deletes.                 *)
Reading == [copy : Copies, old : SUBSET Copies]

Nothing(j) ==
  [copy |-> [commit |-> Upstream, extra |-> {}, by |-> <<j, 1>>,
             size |-> 0, chunks |-> 0],
   old |-> {}]

InitIndex ==
  /\ blank \in Blanks
  /\ rows = {}
  /\ reading = [j \in Jobs |-> Nothing(j)]
  /\ sha = [j \in Jobs |-> {}]
  /\ context = [j \in Jobs |-> {}]
  /\ collided = {} /\ barren = {}

(* _index_repository returns; commit_sha is overwritten either way.        *)
Indexed(j, commits) ==
  /\ Goes(j, "planner")
  /\ sha' = [sha EXCEPT ![j] = commits]
  /\ reading' = [reading EXCEPT ![j] = Nothing(j)]
  /\ UNCHANGED <<blank, context>>
-----------------------------------------------------------------------------
(* HEAD and the files are read at once.  The indexer takes every file it   *)
(* finds below the clone, whatever git knows of it.                        *)
Extra(t) ==
  {x \in Extras :
     \/ x = "unfinished" /\ tree[t].stage # "ready"
     \/ x = "uncommitted" /\ tree[t].edits # tree[t].head
     \/ x = "ignored" /\ tree[t].ignored}

(* A copy of all the files of its commit, with or without others.          *)
Whole(copy) == copy.extra \subseteq {"ignored"}

Sizes(copy) ==
  IF copy.commit \in blank
  THEN IF copy.extra = {} THEN {0} ELSE {0, Chunks}
  ELSE IF Whole(copy) THEN {Chunks} ELSE {0, Chunks}

ReadTree(j) ==
  LET t == taskOf[j]
      copy == [commit |-> Head(t), extra |-> Extra(t), by |-> <<j, pass[j]>>,
               size |-> 0, chunks |-> 0]
  IN
  /\ at[j] = "read"
  /\ IF HasHead(t)
       THEN /\ \E size \in Sizes(copy) :
                 reading' = [reading EXCEPT ![j].copy = [copy EXCEPT !.size = size]]
            /\ Goes(j, "delete")
            /\ UNCHANGED <<blank, sha, context>>
       ELSE Indexed(j, {})
  /\ NoTrouble
  /\ UNCHANGED <<rows, collided, barren, taskOf, pass, tree, torn>>

(* A slip: the index of the whole repository is dropped.                   *)
OldRowsAll(j) == rows

OldRows(j) == {r \in rows : r.commit = reading[j].copy.commit}

DeleteStarts(j) ==
  /\ at[j] = "delete"
  /\ reading' = [reading EXCEPT ![j].old = OldRows(j)]
  /\ Goes(j, "lock")
  /\ NoTrouble
  /\ UNCHANGED <<blank, rows, sha, context, collided, barren, taskOf, pass, tree,
                 torn>>

(* The DELETE gets the locks of its rows.                                  *)
DeleteEnds(j) ==
  /\ at[j] = "lock"
  /\ \A k \in Jobs \ {j} :
       at[k] = "embed" => reading[k].old \intersect reading[j].old = {}
  /\ Goes(j, "embed")
  /\ NoTrouble
  /\ UNCHANGED <<indexVars, taskOf, pass, tree, torn>>

(* A slip: the rows are committed chunk by chunk.                          *)
EmbedCommits(j) ==
  /\ at[j] = "embed" /\ reading[j].copy.chunks < reading[j].copy.size
  /\ reading' = [reading EXCEPT ![j].copy.chunks = @ + 1]
  /\ rows' = (rows \ ({reading[j].copy} \union reading[j].old))
                \union {reading'[j].copy}
  /\ NoTrouble
  /\ UNCHANGED <<at, blank, sha, context, collided, barren, taskOf, pass, tree,
                 torn>>

Embed(j) ==
  /\ at[j] = "embed" /\ reading[j].copy.chunks < reading[j].copy.size
  /\ reading' = [reading EXCEPT ![j].copy.chunks = @ + 1]
  /\ NoTrouble
  /\ UNCHANGED <<at, blank, rows, sha, context, collided, barren, taskOf, pass,
                 tree, torn>>

(* All chunks are there: the rows are sent.                                *)
Flushes(j) == at[j] = "embed" /\ reading[j].copy.chunks = reading[j].copy.size

(* The committed rows j's copy can clash with: those of its commit which   *)
(* its own DELETE has not found.                                           *)
Clashing(j) ==
  LET copy == reading[j].copy
  IN  {r \in rows \ reading[j].old : r.commit = copy.commit /\ copy.size > 0}

(* Two copies of all the files of a commit have its chunks in common;      *)
(* others may have.                                                        *)
MustClash(j) ==
  \E r \in Clashing(j) :
    r.commit \notin blank /\ Whole(r) /\ Whole(reading[j].copy)

(* A row that another transaction is deleting is waited for.               *)
WaitsFor(j, k) == at[k] = "embed" /\ reading[k].old \intersect Clashing(j) # {}
Waits(j) == \E k \in Jobs \ {j} : WaitsFor(j, k)

(* Both have sent rows and one waits: if the other comes to wait as well,  *)
(* the database gives up one of the two.                                   *)
Entangled(j) ==
  \E k \in Jobs \ {j} : Flushes(k) /\ (WaitsFor(j, k) \/ WaitsFor(k, j))

CommitIndex(j) ==
  LET copy == reading[j].copy IN
  /\ Flushes(j) /\ ~MustClash(j) /\ ~Waits(j)
  /\ rows' = (rows \ reading[j].old)
                \union (IF copy.size > 0 THEN {copy} ELSE {})
  /\ Indexed(j, {copy.commit})
  /\ collided' = collided \ {j}
  /\ barren' = barren \union (IF copy.size = 0 THEN {copy.commit} ELSE {})
  /\ NoTrouble
  /\ UNCHANGED <<taskOf, pass, tree, torn>>

(* The unique constraint refuses a row, or the transaction is given up: it *)
(* is rolled back and the node goes on without an index.                   *)
IndexCollides(j) ==
  /\ Flushes(j)
  /\ (Clashing(j) # {} /\ ~Waits(j)) \/ Entangled(j)
  /\ Indexed(j, {})
  /\ collided' = collided \union {j}
  /\ NoTrouble
  /\ UNCHANGED <<rows, barren, taskOf, pass, tree, torn>>

(* Any exception: the transaction is rolled back and the node goes on.     *)
IndexFails(j) ==
  /\ at[j] \in {"delete", "lock", "embed"}
  /\ Indexed(j, {})
  /\ Trouble(j)
  /\ UNCHANGED <<rows, collided, barren, taskOf, pass, tree, torn>>

IndexStep(j) ==
  \/ ReadTree(j) \/ DeleteStarts(j) \/ DeleteEnds(j) \/ Embed(j)
  \/ CommitIndex(j) \/ IndexCollides(j)

(* What retrieve selects from: without a commit, the whole repository.     *)
Visible(j) == {r.commit : r \in {s \in rows : sha[j] # {} => s.commit \in sha[j]}}

(* The best chunks, as far as the prompt has room for them: none if the    *)
(* first of them is too long.                                              *)
Retrieve(j) ==
  /\ at[j] = "planner"
  /\ \E found \in SUBSET Visible(j) : context' = [context EXCEPT ![j] = found]
  /\ Goes(j, "coder")
  /\ NoTrouble
  /\ UNCHANGED <<blank, rows, reading, sha, collided, barren, taskOf, pass, tree,
                 torn>>

(* A retrieval that raises gives an empty context.                         *)
RetrieveFails(j) ==
  /\ at[j] = "planner"
  /\ context' = [context EXCEPT ![j] = {}]
  /\ Goes(j, "coder")
  /\ Trouble(j)
  /\ UNCHANGED <<blank, rows, reading, sha, collided, barren, taskOf, pass, tree,
                 torn>>

IndexTypes ==
  /\ blank \subseteq Commits /\ barren \subseteq Commits /\ collided \subseteq Jobs
  /\ rows \subseteq Copies
  /\ reading \in [Jobs -> Reading]
  /\ sha \in [Jobs -> SUBSET Commits] /\ context \in [Jobs -> SUBSET Commits]
=============================================================================
