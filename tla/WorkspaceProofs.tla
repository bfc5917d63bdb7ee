----------------------------- MODULE WorkspaceProofs -----------------------------
(***************************************************************************)
(* The clone, the index and the pull request that jobs share, for any      *)
(* finite set of jobs, any assignment of them to tasks, and any number of  *)
(* passes, chunks, fetches and troubles.                                   *)
(*                                                                         *)
(* Each property needs to know what the places in a job's program mean:    *)
(* how far the clone is (CloneInv), which commit is at hand (PushInv),     *)
(* whether the pull request is open (OpenInv), what the transaction of the *)
(* index will delete (IndexInv).  A job that has its task for itself also  *)
(* knows the files (FilesInv), which commit it reads (SightInv), and, if   *)
(* nothing failed, the whole delivery (CycleInv).                          *)
(***************************************************************************)
EXTENDS Workspace, FiniteSetTheorems, TLAPS

(* The passes in which a job of t may have written its changes: one edit   *)
(* for each at most, and one for each checkout that failed, which bounds   *)
(* the content of the directory.                                           *)
Unwritten ==
  {"idle", "discover", "repository", "clone", "fetch", "checkout", "read",
   "delete", "lock", "embed", "planner", "coder"}

Written(t) ==
  {w \in Jobs \X (1..MaxPasses) :
     /\ taskOf[w[1]] = t
     /\ w[2] <= pass[w[1]]
     /\ w[2] = pass[w[1]] => at[w[1]] \notin Unwritten}

CountInv ==
  \A t \in Tasks : tree[t].edits <= Cardinality(Written(t)) + troubles

TypeInv == TypeOK /\ CountInv

(* One git clone runs in a directory; commits there come after it, and     *)
(* they never lose an edit.                                                *)
CloneInv ==
  /\ \A t \in Tasks :
       /\ tree[t].head <= tree[t].edits
       /\ tree[t].stage # "ready" => tree[t].head = 0
  /\ \A j \in Jobs :
       /\ at[j] = "fetch" => tree[taskOf[j]].stage = "fetching"
       /\ at[j] = "checkout" => tree[taskOf[j]].stage = "checkout"
  /\ \A j, k \in Jobs :
       at[j] \in {"fetch", "checkout"} /\ at[k] \in {"fetch", "checkout"}
       /\ taskOf[j] = taskOf[k] => j = k

Holding == {"auth", "upstream", "fork", "create", "patch", "record"}

PushInv ==
  /\ \A t \in Tasks : remote[t] <= tree[t].head
  /\ \A j \in Jobs : LET t == taskOf[j] IN
       /\ recorded[j] <= tree[t].head
       /\ at[j] \in Holding => commit[j] <= tree[t].head
       /\ at[j] \in {"create", "patch", "record"} =>
            commit[j] <= remote[t] \/ j \in unpushed
       /\ recorded[j] <= remote[t] \/ j \in unpushed

OpenInv ==
  \A j \in Jobs :
    /\ at[j] = "patch" => pr[j]
    /\ at[j] = "record" => open[taskOf[j]]
    /\ pr[j] => open[taskOf[j]]

(* The rows a transaction deletes are of the commit it indexes; so a       *)
(* commit that is indexed stays so, unless there is nothing of it to       *)
(* store.  A job that nobody has ever run beside finds all rows of its     *)
(* commit.                                                                 *)
Stored(c) == (\E r \in rows : r.commit = c) \/ c \in barren

IndexInv ==
  /\ OneWholeCopy
  /\ \A j \in Jobs :
       /\ reading[j].copy.by[1] = j
       /\ at[j] \notin {"lock", "embed"} => reading[j].old = {}
       /\ \A r \in reading[j].old : r.commit = reading[j].copy.commit
       /\ at[j] \in {"delete", "lock", "embed"} =>
            reading[j].copy.size \in Sizes(reading[j].copy)
       /\ at[j] = "planner" => \A c \in sha[j] : Stored(c)
       /\ Sole(j) => /\ j \notin collided
                     /\ at[j] \in {"lock", "embed"} => OldRows(j) \subseteq reading[j].old

(* The files of a job that has its task for itself.                        *)
Cloned ==
  {"read", "delete", "lock", "embed", "planner", "coder", "deliver", "auth",
   "upstream", "fork", "create", "patch", "record", "feedback"}

Committed ==
  {"repository", "read", "delete", "lock", "embed", "planner", "coder", "auth",
   "upstream", "fork", "create", "patch", "record", "feedback", "done"}

FilesInv ==
  /\ \A j \in Jobs : LET t == taskOf[j] IN Alone(j) =>
       /\ at[j] \in {"idle", "discover", "clone"} => ~Occupied(t)
       /\ at[j] = "repository" => ~Occupied(t) \/ tree[t].stage = "ready"
       /\ at[j] \in {"fetch", "checkout"} => tree[t].edits = 0
       /\ at[j] \in Cloned => tree[t].stage = "ready"
       /\ t \notin skipped \union torn =>
            /\ at[j] \in Committed => tree[t].edits = tree[t].head
            /\ at[j] \in {"delete", "lock", "embed"} => Whole(reading[j].copy)
  /\ IndexedIsCommitted

(* The commit it reads, indexes and retrieves is the one in its clone.     *)
SightInv ==
  \A j \in Jobs : LET t == taskOf[j] IN Alone(j) =>
    /\ at[j] \in {"delete", "lock", "embed"} => reading[j].copy.commit = Head(t)
    /\ j \notin troubled \union collided =>
         /\ at[j] = "planner" => sha[j] = {Head(t)}
         /\ at[j] = "coder" => context[j] \subseteq {Head(t)}

(* What the last delivery left: nothing, or a pull request of n edits.     *)
LeftAt(j, n) ==
  LET t == taskOf[j] IN
  /\ recorded[j] = n /\ remote[t] = n
  /\ pr[j] <=> n > 0
  /\ open[t] <=> n > 0

(* The commit of all edits is on GitHub.                                   *)
Pushed(j) ==
  LET t == taskOf[j] IN
  {commit[j], remote[t], tree[t].head} = {tree[t].edits}

CycleInv ==
  \A j \in Jobs : LET t == taskOf[j] IN Alone(j) /\ j \notin troubled =>
    /\ t \notin skipped \union torn /\ j \notin unpushed
    /\ ownFork =>
         /\ at[j] \notin Holding \union Ended => LeftAt(j, tree[t].head)
         /\ at[j] = "done" => LeftAt(j, tree[t].head)
         /\ at[j] \in {"auth", "upstream"} =>
              /\ commit[j] = tree[t].edits /\ tree[t].head = tree[t].edits
              /\ \E n \in 0..tree[t].head : LeftAt(j, n)
         /\ at[j] = "fork" =>
              /\ commit[j] = tree[t].edits /\ tree[t].head = tree[t].edits
              /\ LeftAt(j, 0)
         /\ at[j] = "create" => Pushed(j) /\ ~pr[j] /\ ~open[t] /\ recorded[j] = 0
         /\ at[j] = "patch" => Pushed(j) /\ pr[j] /\ open[t] /\ tree[t].head > 0
         /\ at[j] = "record" => Pushed(j) /\ open[t] /\ tree[t].head > 0

(* The inductive invariant.                                                *)
IInv ==
  /\ TypeInv /\ CloneInv /\ PushInv /\ OpenInv /\ IndexInv /\ FilesInv
  /\ SightInv /\ CycleInv
-----------------------------------------------------------------------------
(* Types.                                                                  *)
Places ==
  {"idle", "discover", "repository", "clone", "fetch", "checkout", "read",
   "delete", "lock", "embed", "planner", "coder", "deliver", "auth", "upstream",
   "fork", "create", "patch", "record", "feedback"} \union Ended

LEMMA ContentRange ==
  /\ \E n \in Nat : Content = 0..n
  /\ \A W \in SUBSET (Jobs \X (1..MaxPasses)) :
       /\ IsFiniteSet(W) /\ Cardinality(W) \in Nat
       /\ \A m \in 0..MaxTroubles, n \in Nat : n <= Cardinality(W) + m => n \in Content
<1> DEFINE Passes == Jobs \X (1..MaxPasses)
<1>1. /\ IsFiniteSet(Jobs) /\ Cardinality(Jobs) \in Nat
      /\ IsFiniteSet(1..MaxPasses) /\ Cardinality(1..MaxPasses) = MaxPasses
      /\ MaxPasses \in Nat
  <2>1. IsFiniteSet(Jobs) /\ MaxPasses \in Nat \ {0} /\ 1 \in Int /\ MaxPasses \in Int
    BY WorkBounds
  <2>2. IsFiniteSet(1..MaxPasses) /\ Cardinality(1..MaxPasses) = MaxPasses
    BY <2>1, FS_Interval
  <2> QED BY <2>1, <2>2, FS_CardinalityType
<1>2. IsFiniteSet(Passes) /\ Cardinality(Passes) = Cardinality(Jobs) * MaxPasses
  BY <1>1, FS_Product
<1>3. /\ Content = 0..(Cardinality(Passes) + MaxTroubles)
      /\ Cardinality(Passes) \in Nat /\ MaxTroubles \in Nat
  BY <1>2, FS_CardinalityType, WorkBounds DEF Content
<1> HIDE DEF Passes
<1>4. ASSUME NEW W \in SUBSET Passes
      PROVE  /\ IsFiniteSet(W) /\ Cardinality(W) \in Nat
             /\ \A m \in 0..MaxTroubles, n \in Nat :
                  n <= Cardinality(W) + m => n \in Content
  <2>1. IsFiniteSet(W) /\ Cardinality(W) <= Cardinality(Passes)
    BY <1>2, FS_Subset
  <2>2. Cardinality(W) \in Nat
    BY <2>1, FS_CardinalityType
  <2> QED BY <1>3, <2>1, <2>2
<1>5. Cardinality(Passes) + MaxTroubles \in Nat
  BY <1>3
<1> QED BY <1>3, <1>4, <1>5 DEF Passes

(* Where a job may go, and what every step of it leaves alone.             *)
LEMMA Control ==
  ASSUME TypeOK, NEW j \in Jobs, JobStep(j)
  PROVE  /\ taskOf' = taskOf /\ ownFork' = ownFork
         /\ \E where \in Places \ {"idle"} : at' = [at EXCEPT ![j] = where]
         /\ at[j] \notin {"idle"} \union Ended
         /\ \/ /\ pass' = pass
               /\ at[j] \in Unwritten \/ at'[j] \notin Unwritten
            \/ /\ at[j] = "feedback" /\ pass[j] < MaxPasses
               /\ pass' = [pass EXCEPT ![j] = @ + 1]
<1> USE DEF Goes, NodeRaises, Places, Ended, Unwritten, github, deliveryVars
<1>1. at \in [Jobs -> Places] /\ taskOf[j] \in Tasks
  BY DEF TypeOK, WorkTypes
<1>2. CASE Fetch(j)
  <2>1. CASE UNCHANGED at
    <3>1. at' = [at EXCEPT ![j] = "discover"]
      BY <1>1, <1>2, <2>1 DEF Fetch
    <3> QED BY <1>1, <1>2, <2>1, <3>1 DEF Fetch
  <2>2. CASE at' = [at EXCEPT ![j] = "repository"] \/ at' = [at EXCEPT ![j] = "failed"]
    BY <1>1, <1>2, <2>2 DEF Fetch
  <2> QED BY <1>2, <2>1, <2>2 DEF Fetch
<1>3. CASE Works(j)
  <2>1. taskOf' = taskOf /\ ownFork' = ownFork /\ pass' = pass
    BY <1>3 DEF Works, RepositoryNode, CloneStep, CloneBegins, CloneFetched,
                CloneEnds, CloneFails
  <2>2. at[j] \in {"repository", "clone", "fetch", "checkout"}
    BY <1>3 DEF Works, RepositoryNode, CloneStep, CloneBegins, CloneFetched,
                CloneEnds, CloneFails
  <2>3. \E where \in Places \ {"idle"} : at' = [at EXCEPT ![j] = where]
    BY <1>3 DEF Works, RepositoryNode, CloneStep, CloneBegins, CloneFetched,
                CloneEnds, CloneFails
  <2> QED BY <2>1, <2>2, <2>3
<1>4. CASE Indexes(j)
  <2>1. taskOf' = taskOf /\ ownFork' = ownFork /\ pass' = pass
    BY <1>4 DEF Indexes, IndexStep, ReadTree, DeleteStarts, DeleteEnds, Embed,
                CommitIndex, IndexCollides, IndexFails, Retrieve, RetrieveFails
  <2>2. at[j] \in {"read", "delete", "lock", "embed", "planner"}
    BY <1>4 DEF Indexes, IndexStep, ReadTree, DeleteStarts, DeleteEnds, Embed,
                CommitIndex, IndexCollides, IndexFails, Retrieve, RetrieveFails,
                Flushes
  <2>3. at' = [at EXCEPT ![j] = "embed"] \/ ~Embed(j)
    BY <1>1 DEF Embed
  <2>4. \E where \in Places \ {"idle"} : at' = [at EXCEPT ![j] = where]
    BY <1>4, <2>3 DEF Indexes, IndexStep, ReadTree, DeleteStarts, DeleteEnds,
                      CommitIndex, IndexCollides, IndexFails, Retrieve, RetrieveFails, Indexed
  <2> QED BY <2>1, <2>2, <2>4
<1>5. CASE Codes(j)
  BY <1>1, <1>5 DEF Codes, WriteChanges
<1>6. CASE DeliveryStep(j) \/ DeliveryTrouble(j)
  <2>1. taskOf' = taskOf /\ ownFork' = ownFork /\ pass' = pass
    BY <1>6 DEF DeliveryStep, DeliveryTrouble, CommitWork, DescribeFails,
                AuthAnswers, UpstreamAnswers, ForkAnswers, CreateAnswers,
                PatchAnswers, CallFails, Record, RecordFails
  <2>2. at[j] \in Holding \union {"deliver"}
    BY <1>6 DEF DeliveryStep, DeliveryTrouble, CommitWork, DescribeFails,
                AuthAnswers, UpstreamAnswers, ForkAnswers, CreateAnswers,
                PatchAnswers, CallFails, Record, RecordFails, Holding
  <2>3. \E where \in Holding \union {"deliver", "feedback", "failed"} :
          at' = [at EXCEPT ![j] = where]
    BY <1>6 DEF DeliveryStep, DeliveryTrouble, CommitWork, DescribeFails,
                AuthAnswers, UpstreamAnswers, ForkAnswers, CreateAnswers,
                PatchAnswers, CallFails, Record, RecordFails, DeliveryEndsBadly,
                Holding
  <2> QED BY <1>1, <2>1, <2>2, <2>3 DEF Holding
<1>7. CASE Feedback(j) /\ UNCHANGED <<indexVars, fetches>>
  BY <1>1, <1>7 DEF Feedback
<1> QED BY <1>2, <1>3, <1>4, <1>5, <1>6, <1>7 DEF JobStep, Delivers

LEMMA WorkTyped ==
  ASSUME TypeOK, NEW j \in Jobs
  PROVE  /\ taskOf[j] \in Tasks /\ at \in [Jobs -> Places]
         /\ tree \in [Tasks -> Directory]
         /\ \A t \in Tasks : /\ tree[t].stage \in Stages
                             /\ tree[t].head \in Content /\ tree[t].head \in Nat
                             /\ tree[t].edits \in Content /\ tree[t].edits \in Nat
                             /\ tree[t].ignored \in BOOLEAN
  BY ContentRange DEF TypeOK, WorkTypes, Directory, Places

(* A step of one job leaves the others, and the tasks it does not work on, *)
(* as they are.                                                            *)
LEMMA OthersIndex ==
  ASSUME TypeOK, NEW j \in Jobs, JobStep(j), NEW k \in Jobs \ {j}
  PROVE  /\ reading'[k] = reading[k] /\ sha'[k] = sha[k] /\ context'[k] = context[k]
         /\ (k \in troubled' <=> k \in troubled)
         /\ (k \in collided' <=> k \in collided)
         /\ fetches'[k] = fetches[k]
<1> USE DEF Trouble, NoTrouble, indexVars
<1>1. /\ reading \in [Jobs -> Reading] /\ sha \in [Jobs -> SUBSET Commits]
      /\ context \in [Jobs -> SUBSET Commits] /\ DOMAIN fetches = Jobs
  BY DEF TypeOK, IndexTypes
<1>2. CASE Fetch(j)
  BY <1>1, <1>2 DEF Fetch
<1>3. CASE Works(j)
  BY <1>3 DEF Works, RepositoryNode, CloneStep, CloneBegins, CloneFetched,
              CloneEnds, CloneFails
<1>4. CASE Indexes(j)
  <2>1. CASE ReadTree(j)
    BY <1>1, <1>4, <2>1 DEF Indexes, ReadTree, Indexed
  <2>2. CASE DeleteStarts(j) \/ DeleteEnds(j) \/ Embed(j)
    BY <1>1, <1>4, <2>2 DEF Indexes, DeleteStarts, DeleteEnds, Embed
  <2>3. CASE CommitIndex(j) \/ IndexCollides(j) \/ IndexFails(j)
    BY <1>1, <1>4, <2>3 DEF Indexes, CommitIndex, IndexCollides, IndexFails, Indexed
  <2>4. CASE Retrieve(j) \/ RetrieveFails(j)
    BY <1>1, <1>4, <2>4 DEF Indexes, Retrieve, RetrieveFails
  <2> QED BY <1>4, <2>1, <2>2, <2>3, <2>4 DEF Indexes, IndexStep
<1>5. CASE Codes(j)
  BY <1>1, <1>5 DEF Codes, WriteChanges
<1>6. CASE Delivers(j)
  <2>1. k \in troubled' <=> k \in troubled
    BY <1>6 DEF Delivers, DeliveryStep, DeliveryTrouble, CommitWork, DescribeFails,
                AuthAnswers, UpstreamAnswers, ForkAnswers, CreateAnswers, Pushes,
                PatchAnswers, CallFails, Record, RecordFails, Feedback
  <2> QED BY <1>6, <2>1 DEF Delivers
<1> QED BY <1>2, <1>3, <1>4, <1>5, <1>6 DEF JobStep

(* Of a step's history: a clone is only torn by a call of its own that     *)
(* fails.                                                                  *)
LEMMA TornGrows ==
  ASSUME NEW j \in Jobs, JobStep(j)
  PROVE  /\ torn \subseteq torn' /\ torn' \subseteq torn \union {taskOf[j]}
         /\ torn' = torn \/ Trouble(j)
  BY DEF JobStep, Fetch, Works, RepositoryNode, CloneStep, CloneBegins,
         CloneFetched, CloneEnds, CloneFails, ClonedAway, HalfCheckedOut, Codes,
         WriteChanges, Indexes, IndexStep, ReadTree, DeleteStarts, DeleteEnds,
         Embed, CommitIndex, IndexCollides, IndexFails, Retrieve, RetrieveFails,
         Delivers, DeliveryStep, DeliveryTrouble, CommitWork, DescribeFails,
         AuthAnswers, UpstreamAnswers, ForkAnswers, CreateAnswers, PatchAnswers,
         Record, CallFails, RecordFails, Feedback

(* What has a chunk is settled at the start.                               *)
LEMMA IndexGrows ==
  ASSUME NEW j \in Jobs, JobStep(j)
  PROVE  blank' = blank /\ barren \subseteq barren'
  BY DEF JobStep, Fetch, Works, Codes, Delivers, Indexes, IndexStep, ReadTree,
         DeleteStarts, DeleteEnds, Embed, CommitIndex, IndexCollides, IndexFails,
         Retrieve, RetrieveFails, Indexed, indexVars

LEMMA OthersDelivery ==
  ASSUME TypeOK, NEW j \in Jobs, JobStep(j), NEW k \in Jobs \ {j}
  PROVE  /\ commit'[k] = commit[k] /\ pr'[k] = pr[k] /\ recorded'[k] = recorded[k]
         /\ (k \in unpushed' <=> k \in unpushed)
<1> USE DEF github, deliveryVars
<1>1. /\ commit \in [Jobs -> Content] /\ recorded \in [Jobs -> Content]
      /\ pr \in [Jobs -> BOOLEAN]
  BY DEF TypeOK, DeliveryTypes
<1>2. CASE Fetch(j) \/ Works(j) \/ Indexes(j) \/ Codes(j)
  BY <1>2 DEF Fetch, Works, Indexes, Codes
<1>3. CASE CommitWork(j) \/ DescribeFails(j)
  BY <1>1, <1>3 DEF CommitWork, DescribeFails, DeliveryEndsBadly
<1>4. CASE AuthAnswers(j) \/ CreateAnswers(j) \/ CallFails(j)
  BY <1>1, <1>4 DEF AuthAnswers, CreateAnswers, CallFails, DeliveryEndsBadly
<1>5. CASE UpstreamAnswers(j) \/ ForkAnswers(j)
  BY <1>5 DEF UpstreamAnswers, ForkAnswers, Pushes
<1>6. CASE PatchAnswers(j) \/ Record(j) \/ RecordFails(j) \/ Feedback(j)
  BY <1>1, <1>6 DEF PatchAnswers, Record, RecordFails, Feedback
<1> QED BY <1>2, <1>3, <1>4, <1>5, <1>6
        DEF JobStep, Delivers, DeliveryStep, DeliveryTrouble

LEMMA OtherTasks ==
  ASSUME TypeOK, NEW j \in Jobs, JobStep(j), NEW t \in Tasks \ {taskOf[j]}
  PROVE  /\ tree'[t] = tree[t] /\ remote'[t] = remote[t] /\ open'[t] = open[t]
         /\ (t \in skipped' <=> t \in skipped) /\ (t \in torn' <=> t \in torn)
<1> USE DEF github, deliveryVars
<1>1. /\ tree \in [Tasks -> Directory] /\ remote \in [Tasks -> Content]
      /\ open \in [Tasks -> BOOLEAN] /\ taskOf[j] \in Tasks
  BY WorkTyped DEF TypeOK, DeliveryTypes
<1>2. CASE Fetch(j) \/ Indexes(j)
  BY <1>2 DEF Fetch, Indexes, IndexStep, ReadTree, DeleteStarts, DeleteEnds, Embed,
              CommitIndex, IndexCollides, IndexFails, Retrieve, RetrieveFails
<1>3. CASE Works(j)
  BY <1>1, <1>3 DEF Works, RepositoryNode, CloneStep, CloneBegins, CloneFetched,
                    CloneEnds, CloneFails, ClonedAway, HalfCheckedOut
<1>4. CASE Codes(j)
  BY <1>1, <1>4 DEF Codes, WriteChanges
<1>5. CASE CommitWork(j) \/ DescribeFails(j)
  BY <1>1, <1>5 DEF CommitWork, DescribeFails, CommitsAll
<1>6. CASE UpstreamAnswers(j) \/ ForkAnswers(j)
  BY <1>1, <1>6 DEF UpstreamAnswers, ForkAnswers, Pushes
<1>7. CASE AuthAnswers(j) \/ CreateAnswers(j) \/ CallFails(j)
  BY <1>1, <1>7 DEF AuthAnswers, CreateAnswers, CallFails
<1>8. CASE PatchAnswers(j) \/ Record(j) \/ RecordFails(j) \/ Feedback(j)
  BY <1>8 DEF PatchAnswers, Record, RecordFails, Feedback
<1> QED BY <1>2, <1>3, <1>4, <1>5, <1>6, <1>7, <1>8
        DEF JobStep, Delivers, DeliveryStep, DeliveryTrouble
-----------------------------------------------------------------------------
(* What a step of j does to its directory.                                 *)
Quiet(j) ==
  /\ tree' = tree
  /\ at[j] \notin {"fetch", "checkout"} /\ at'[j] \notin {"fetch", "checkout"}

Keeps(t) == tree'[t].edits = tree[t].edits /\ tree'[t].head = tree[t].head

BeginsClone(j) == LET t == taskOf[j] IN
  /\ at[j] = "clone" /\ at'[j] = "fetch" /\ ~Occupied(t)
  /\ tree'[t].stage = "fetching" /\ Keeps(t)

FetchesClone(j) == LET t == taskOf[j] IN
  /\ at[j] = "fetch" /\ at'[j] = "checkout"
  /\ tree'[t].stage = "checkout" /\ Keeps(t)

EndsClone(j) == LET t == taskOf[j] IN
  /\ at[j] = "checkout" /\ at'[j] = "read"
  /\ tree'[t].stage = "ready" /\ tree'[t].head = tree[t].head
  /\ tree'[t].edits \in {0, tree[t].edits}

LosesClone(j) == LET t == taskOf[j] IN
  /\ at[j] = "fetch" /\ at'[j] \in {"repository", "failed"}
  /\ tree'[t].stage = "absent" /\ tree'[t].edits = 0 /\ tree'[t].head = 0
  /\ ~tree'[t].ignored

TearsClone(j) == LET t == taskOf[j] IN
  /\ at[j] = "checkout" /\ at'[j] \in {"repository", "failed"}
  /\ tree'[t].stage = "ready" /\ tree'[t].head = tree[t].head
  /\ tree'[t].edits \in {1, tree[t].edits + 1}
  /\ t \in torn' /\ Trouble(j)

Edits(j) == LET t == taskOf[j] IN
  /\ at[j] = "coder" /\ at'[j] = "deliver"
  /\ tree'[t].stage = tree[t].stage /\ tree'[t].head = tree[t].head
  /\ \/ tree'[t].edits = tree[t].edits
     \/ tree'[t].edits = tree[t].edits + 1

CommitsEdits(j) == LET t == taskOf[j] IN
  /\ at[j] = "deliver" /\ at'[j] = "auth" /\ tree[t].stage = "ready"
  /\ tree'[t].stage = "ready"
  /\ tree'[t].edits = tree[t].edits /\ tree'[t].head = tree[t].edits

LEMMA TreeStep ==
  ASSUME TypeOK, NEW j \in Jobs, JobStep(j)
  PROVE  /\ tree' = [u \in Tasks |-> tree'[u]]
         /\ tree'[taskOf[j]] = [stage |-> tree'[taskOf[j]].stage,
                                head |-> tree'[taskOf[j]].head,
                                edits |-> tree'[taskOf[j]].edits,
                                ignored |-> tree'[taskOf[j]].ignored,
                                branch |-> tree'[taskOf[j]].branch]
         /\ tree'[taskOf[j]].ignored \in BOOLEAN /\ tree'[taskOf[j]].branch \in BOOLEAN
         /\ \/ Quiet(j) \/ BeginsClone(j) \/ FetchesClone(j) \/ EndsClone(j)
            \/ LosesClone(j) \/ TearsClone(j) \/ Edits(j) \/ CommitsEdits(j)
<1> DEFINE t == taskOf[j]
           Shaped == /\ tree' = [u \in Tasks |-> tree'[u]]
                     /\ tree'[t] = [stage |-> tree'[t].stage, head |-> tree'[t].head,
                                    edits |-> tree'[t].edits,
                                    ignored |-> tree'[t].ignored,
                                    branch |-> tree'[t].branch]
                     /\ tree'[t].ignored \in BOOLEAN /\ tree'[t].branch \in BOOLEAN
<1> USE DEF Goes, Keeps
<1>1. /\ t \in Tasks /\ at \in [Jobs -> Places] /\ tree \in [Tasks -> Directory]
  BY WorkTyped
<1>2. /\ tree[t] = [stage |-> tree[t].stage, head |-> tree[t].head,
                    edits |-> tree[t].edits, ignored |-> tree[t].ignored,
                    branch |-> tree[t].branch]
      /\ tree[t].ignored \in BOOLEAN /\ tree[t].branch \in BOOLEAN
  BY <1>1 DEF Directory
<1>3. tree' = tree => Shaped
  BY <1>1, <1>2
<1>4. CASE CloneBegins(j) /\ ~Occupied(t)
  <2>1. /\ at' = [at EXCEPT ![j] = "fetch"] /\ at[j] = "clone"
        /\ tree' = [tree EXCEPT ![t].stage = "fetching"]
    BY <1>4 DEF CloneBegins
  <2>2. tree'[t] = [stage |-> "fetching", head |-> tree[t].head,
                    edits |-> tree[t].edits, ignored |-> tree[t].ignored,
                    branch |-> tree[t].branch]
    BY <1>1, <1>2, <2>1
  <2> QED BY <1>1, <1>2, <1>4, <2>1, <2>2 DEF BeginsClone
<1>5. CASE CloneFetched(j)
  <2>1. /\ at' = [at EXCEPT ![j] = "checkout"] /\ at[j] = "fetch"
        /\ tree' = [tree EXCEPT ![t].stage = "checkout"]
    BY <1>5 DEF CloneFetched
  <2>2. tree'[t] = [stage |-> "checkout", head |-> tree[t].head,
                    edits |-> tree[t].edits, ignored |-> tree[t].ignored,
                    branch |-> tree[t].branch]
    BY <1>1, <1>2, <2>1
  <2> QED BY <1>1, <1>2, <2>1, <2>2 DEF FetchesClone
<1>6. CASE CloneEnds(j)
  <2>1. at' = [at EXCEPT ![j] = "read"] /\ at[j] = "checkout"
    BY <1>6 DEF CloneEnds
  <2>2. PICK kept \in {0, tree[t].edits} :
          tree' = [tree EXCEPT ![t].stage = "ready", ![t].edits = kept]
    BY <1>6 DEF CloneEnds
  <2>3. tree'[t] = [stage |-> "ready", head |-> tree[t].head, edits |-> kept,
                    ignored |-> tree[t].ignored, branch |-> tree[t].branch]
    BY <1>1, <1>2, <2>2
  <2> QED BY <1>1, <1>2, <2>1, <2>2, <2>3 DEF EndsClone
<1>7. CASE CloneFails(j) /\ at[j] = "fetch"
  <2>1. /\ at[j] = "fetch" /\ tree' = [tree EXCEPT ![t] = Absent]
        /\ at' = [at EXCEPT ![j] = "repository"] \/ at' = [at EXCEPT ![j] = "failed"]
    BY <1>7 DEF CloneFails, ClonedAway, NodeRaises
  <2>2. tree'[t] = Absent
    BY <1>1, <2>1
  <2> QED BY <1>1, <2>1, <2>2 DEF LosesClone, Absent
<1>8. CASE Codes(j)
  <2>1. at' = [at EXCEPT ![j] = "deliver"] /\ at[j] = "coder"
    BY <1>8 DEF Codes, WriteChanges
  <2>2. PICK n \in {0, 1}, more \in BOOLEAN :
          tree' = [tree EXCEPT ![t].edits = @ + n, ![t].ignored = @ \/ more]
    BY <1>8 DEF Codes, WriteChanges
  <2>3. tree'[t] = [stage |-> tree[t].stage, head |-> tree[t].head,
                    edits |-> tree[t].edits + n,
                    ignored |-> tree[t].ignored \/ more,
                    branch |-> tree[t].branch]
    BY <1>1, <1>2, <2>2
  <2>4. tree[t].edits + 0 = tree[t].edits
    BY WorkTyped
  <2> QED BY <1>1, <1>2, <2>1, <2>2, <2>3, <2>4 DEF Edits
<1>9. CASE CommitWork(j) /\ tree[t].stage = "ready"
  <2>1. /\ at' = [at EXCEPT ![j] = "auth"] /\ at[j] = "deliver"
        /\ tree' = [tree EXCEPT ![t].branch = TRUE, ![t].head = tree[t].edits]
    BY <1>9 DEF CommitWork, CommitsAll
  <2>2. tree'[t] = [stage |-> tree[t].stage, head |-> tree[t].edits,
                    edits |-> tree[t].edits, ignored |-> tree[t].ignored,
                    branch |-> TRUE]
    BY <1>1, <1>2, <2>1
  <2> QED BY <1>1, <1>2, <1>9, <2>1, <2>2 DEF CommitsEdits
<1>10. CASE Fetch(j) \/ Indexes(j) \/ RepositoryNode(j)
            \/ (CloneBegins(j) /\ Occupied(t)) \/ (CloneFails(j) /\ at[j] = "clone")
  <2>1. tree' = tree
    BY <1>10 DEF Fetch, Indexes, IndexStep, ReadTree, DeleteStarts, DeleteEnds,
                 Embed, CommitIndex, IndexCollides, IndexFails, Retrieve, RetrieveFails,
                 RepositoryNode, CloneBegins, CloneFails
  <2>2. at[j] \notin {"fetch", "checkout"} /\ at'[j] \notin {"fetch", "checkout"}
    BY <1>1, <1>10 DEF Fetch, Indexes, IndexStep, ReadTree, DeleteStarts,
                 DeleteEnds, Embed, CommitIndex, IndexCollides, IndexFails, Retrieve,
                 RetrieveFails, Indexed, RepositoryNode, CloneBegins, CloneFails,
                 NodeRaises, Flushes
  <2> QED BY <1>3, <2>1, <2>2 DEF Quiet
<1>11. CASE \/ CommitWork(j) /\ tree[t].stage # "ready"
            \/ DescribeFails(j) \/ AuthAnswers(j) \/ UpstreamAnswers(j)
            \/ ForkAnswers(j) \/ CreateAnswers(j) \/ PatchAnswers(j) \/ Record(j)
            \/ CallFails(j) \/ RecordFails(j) \/ Feedback(j)
  <2>1. tree' = tree
    BY <1>11 DEF CommitWork, DescribeFails, AuthAnswers, UpstreamAnswers,
                 ForkAnswers, CreateAnswers, PatchAnswers, Record, CallFails,
                 RecordFails, Feedback
  <2>2. at[j] \notin {"fetch", "checkout"} /\ at'[j] \notin {"fetch", "checkout"}
    BY <1>1, <1>11 DEF CommitWork, DescribeFails, AuthAnswers, UpstreamAnswers,
                 ForkAnswers, CreateAnswers, PatchAnswers, Record, CallFails,
                 RecordFails, Feedback, DeliveryEndsBadly, NodeRaises
  <2> QED BY <1>3, <2>1, <2>2 DEF Quiet
<1>12. CASE CloneFails(j) /\ at[j] = "checkout"
  <2>1. /\ at[j] = "checkout" /\ t \in torn' /\ Trouble(j)
        /\ at' = [at EXCEPT ![j] = "repository"] \/ at' = [at EXCEPT ![j] = "failed"]
    BY <1>12 DEF CloneFails, HalfCheckedOut, NodeRaises
  <2>2. PICK kept \in {0, tree[t].edits} :
          tree' = [tree EXCEPT ![t].stage = "ready", ![t].edits = kept + 1]
    BY <1>12 DEF CloneFails, HalfCheckedOut
  <2>3. tree'[t] = [stage |-> "ready", head |-> tree[t].head, edits |-> kept + 1,
                    ignored |-> tree[t].ignored, branch |-> tree[t].branch]
    BY <1>1, <1>2, <2>2
  <2>4. kept + 1 \in {1, tree[t].edits + 1}
    BY <2>2
  <2> QED BY <1>1, <1>2, <2>1, <2>2, <2>3, <2>4 DEF TearsClone
<1> QED
  BY <1>4, <1>5, <1>6, <1>7, <1>8, <1>9, <1>10, <1>11, <1>12
  DEF JobStep, Works, CloneStep, CloneFails, Delivers, DeliveryStep, DeliveryTrouble

LEMMA TroubleTypes ==
  ASSUME TypeOK, NEW j \in Jobs, JobStep(j)
  PROVE  /\ troubles' \in 0..MaxTroubles /\ troubled' \subseteq Jobs
         /\ troubles \in Nat /\ troubles' \in Nat /\ troubles <= troubles'
         /\ Trouble(j) => troubles' = troubles + 1
<1>1. troubles \in 0..MaxTroubles /\ troubled \subseteq Jobs /\ MaxTroubles \in Nat
  BY WorkBounds DEF TypeOK, WorkTypes
<1>2. NoTrouble \/ Trouble(j)
  BY DEF JobStep, Fetch, Works, RepositoryNode, CloneStep, CloneBegins,
         CloneFetched, CloneEnds, CloneFails, Indexes, IndexStep, ReadTree,
         DeleteStarts, DeleteEnds, Embed, CommitIndex, IndexCollides, IndexFails, Retrieve,
         RetrieveFails, Codes, WriteChanges, Delivers, DeliveryStep,
         DeliveryTrouble, CommitWork, DescribeFails, AuthAnswers,
         UpstreamAnswers, ForkAnswers, Pushes, CreateAnswers, PatchAnswers,
         Record, CallFails, RecordFails, Feedback
<1> QED BY <1>1, <1>2 DEF NoTrouble, Trouble

(* Every edit is the first of its job in its pass.                         *)
LEMMA WrittenGrows ==
  ASSUME TypeOK, NEW j \in Jobs, JobStep(j), NEW t \in Tasks
  PROVE  /\ Written(t) \subseteq Written(t)'
         /\ Edits(j) /\ t = taskOf[j] =>
              <<j, pass[j]>> \in Written(t)' /\ <<j, pass[j]>> \notin Written(t)
<1>1. /\ pass \in [Jobs -> 1..MaxPasses] /\ at \in [Jobs -> Places]
      /\ MaxPasses \in Nat
  BY WorkTyped, WorkBounds DEF TypeOK, WorkTypes
<1>2. /\ taskOf' = taskOf
      /\ \A k \in Jobs \ {j} : at'[k] = at[k] /\ pass'[k] = pass[k]
  BY <1>1, Control
<1>3. \/ pass'[j] = pass[j] /\ (at[j] \in Unwritten \/ at'[j] \notin Unwritten)
      \/ pass'[j] = pass[j] + 1
  BY <1>1, Control
<1>4. ASSUME NEW w \in Written(t) PROVE w \in Written(t)'
  <2>1. /\ w \in Jobs \X (1..MaxPasses) /\ w[1] \in Jobs /\ w[2] \in 1..MaxPasses
        /\ taskOf[w[1]] = t /\ w[2] <= pass[w[1]]
        /\ w[2] = pass[w[1]] => at[w[1]] \notin Unwritten
    BY DEF Written
  <2>2. CASE w[1] # j
    BY <1>2, <2>1, <2>2 DEF Written
  <2>3. CASE w[1] = j
    <3>1. w[2] <= pass'[j] /\ (w[2] = pass'[j] => at'[j] \notin Unwritten)
      BY <1>1, <1>3, <2>1, <2>3
    <3> QED BY <1>2, <2>1, <2>3, <3>1 DEF Written
  <2> QED BY <2>2, <2>3
<1>5. ASSUME Edits(j), t = taskOf[j]
      PROVE  <<j, pass[j]>> \in Written(t)' /\ <<j, pass[j]>> \notin Written(t)
  <2>1. at[j] = "coder" /\ at'[j] = "deliver"
    BY <1>5 DEF Edits
  <2>2. at[j] \in Unwritten /\ at'[j] \notin Unwritten
    BY <2>1 DEF Unwritten
  <2>3. pass'[j] = pass[j]
    BY <2>1, Control
  <2> DEFINE w == <<j, pass[j]>>
  <2>4. w \in Jobs \X (1..MaxPasses) /\ w[1] = j /\ w[2] = pass[j]
    BY <1>1
  <2> HIDE DEF w
  <2>5. w \notin Written(t)
    BY <2>2, <2>4 DEF Written
  <2>6. w \in Written(t)'
    BY <1>1, <1>2, <1>5, <2>2, <2>3, <2>4 DEF Written
  <2> QED BY <2>5, <2>6 DEF w
<1> QED BY <1>4, <1>5

LEMMA CountStep ==
  ASSUME TypeInv, NEW j \in Jobs, JobStep(j)
  PROVE  CountInv' /\ tree' \in [Tasks -> Directory]
<1>1. /\ taskOf[j] \in Tasks /\ tree \in [Tasks -> Directory]
      /\ \A t \in Tasks : /\ tree[t].stage \in Stages
                          /\ tree[t].head \in Content /\ tree[t].head \in Nat
                          /\ tree[t].edits \in Content /\ tree[t].edits \in Nat
  BY WorkTyped DEF TypeInv
<1>2. ASSUME NEW t \in Tasks
      PROVE  /\ tree'[t].edits <= Cardinality(Written(t)') + troubles'
             /\ tree'[t].edits \in Content
             /\ tree'[t].head \in Content /\ tree'[t].stage \in Stages
  <2>1. /\ IsFiniteSet(Written(t)) /\ IsFiniteSet(Written(t)')
        /\ Cardinality(Written(t)) \in Nat /\ Cardinality(Written(t)') \in Nat
        /\ tree[t].edits <= Cardinality(Written(t)) + troubles
    <3>1. /\ Written(t) \in SUBSET (Jobs \X (1..MaxPasses))
          /\ Written(t)' \in SUBSET (Jobs \X (1..MaxPasses))
      BY DEF Written
    <3>2. IsFiniteSet(Written(t)) /\ Cardinality(Written(t)) \in Nat
      BY <3>1, ContentRange
    <3>3. IsFiniteSet(Written(t)') /\ Cardinality(Written(t)') \in Nat
      BY <3>1, ContentRange
    <3> QED BY <3>2, <3>3 DEF TypeInv, CountInv
  <2>2. Cardinality(Written(t)) <= Cardinality(Written(t)')
    BY <2>1, WrittenGrows, FS_Subset DEF TypeInv
  <2>3. /\ troubles \in Nat /\ troubles' \in Nat /\ troubles <= troubles'
        /\ Trouble(j) => troubles' = troubles + 1
        /\ \A n \in Nat : n <= Cardinality(Written(t)') + troubles' => n \in Content
    <3>1. Written(t)' \in SUBSET (Jobs \X (1..MaxPasses))
      BY DEF Written
    <3> QED BY <3>1, ContentRange, TroubleTypes DEF TypeInv
  <2>4. 0 \in Content /\ {"absent", "fetching", "checkout", "ready"} = Stages
    BY ContentRange DEF Stages
  <2>5. CASE t # taskOf[j] \/ Quiet(j)
    <3>1. tree'[t] = tree[t]
      BY <2>5, OtherTasks DEF TypeInv, Quiet
    <3> QED BY <1>1, <2>1, <2>2, <2>3, <3>1
  <2>6. CASE t = taskOf[j] /\ Edits(j)
    <3> DEFINE w == <<j, pass[j]>>
    <3>1. w \in Written(t)' /\ w \notin Written(t) /\ Written(t) \subseteq Written(t)'
      BY <2>6, WrittenGrows DEF TypeInv
    <3>2. /\ IsFiniteSet(Written(t) \union {w})
          /\ Cardinality(Written(t) \union {w}) = Cardinality(Written(t)) + 1
      BY <2>1, <3>1, FS_AddElement
    <3>3. Written(t) \union {w} \in SUBSET Written(t)'
      BY <3>1
    <3>4. Cardinality(Written(t) \union {w}) <= Cardinality(Written(t)')
      BY <2>1, <3>3, FS_Subset
    <3>5. tree'[t].edits \in {tree[t].edits, tree[t].edits + 1}
          /\ tree'[t].stage = tree[t].stage /\ tree'[t].head = tree[t].head
      BY <2>6 DEF Edits
    <3>6. tree'[t].edits <= Cardinality(Written(t)') + troubles' /\ tree'[t].edits \in Nat
      BY <1>1, <2>1, <2>3, <3>2, <3>4, <3>5
    <3> QED BY <1>1, <2>3, <3>5, <3>6
  <2>7. CASE /\ t = taskOf[j]
             /\ BeginsClone(j) \/ FetchesClone(j) \/ EndsClone(j) \/ LosesClone(j)
                \/ CommitsEdits(j)
    <3>1. /\ tree'[t].edits \in {0, tree[t].edits} /\ tree'[t].stage \in Stages
          /\ tree'[t].head \in {0, tree[t].edits, tree[t].head}
      BY <2>4, <2>7 DEF BeginsClone, FetchesClone, EndsClone, LosesClone,
                        CommitsEdits, Keeps
    <3> QED BY <1>1, <2>1, <2>2, <2>3, <2>4, <3>1
  <2>8. CASE t = taskOf[j] /\ TearsClone(j)
    <3>1. /\ tree'[t].edits \in {1, tree[t].edits + 1} /\ tree'[t].stage \in Stages
          /\ tree'[t].head = tree[t].head /\ troubles' = troubles + 1
      BY <2>3, <2>4, <2>8 DEF TearsClone
    <3>2. tree'[t].edits <= Cardinality(Written(t)') + troubles' /\ tree'[t].edits \in Nat
      BY <1>1, <2>1, <2>2, <2>3, <3>1
    <3> QED BY <1>1, <2>3, <3>1, <3>2
  <2> QED BY <2>5, <2>6, <2>7, <2>8, TreeStep DEF TypeInv
<1>3. CountInv'
  BY <1>2 DEF CountInv
<1>4. \A t \in Tasks : tree'[t] \in Directory
  <2> SUFFICES ASSUME NEW t \in Tasks PROVE tree'[t] \in Directory
    OBVIOUS
  <2>1. CASE t # taskOf[j]
    BY <1>1, <2>1, OtherTasks DEF TypeInv
  <2>2. CASE t = taskOf[j]
    <3>1. /\ tree'[t] = [stage |-> tree'[t].stage, head |-> tree'[t].head,
                         edits |-> tree'[t].edits, ignored |-> tree'[t].ignored,
                         branch |-> tree'[t].branch]
          /\ tree'[t].ignored \in BOOLEAN /\ tree'[t].branch \in BOOLEAN
      BY <2>2, TreeStep DEF TypeInv
    <3> QED BY <1>2, <3>1 DEF Directory
  <2> QED BY <2>1, <2>2
<1>5. tree' = [u \in Tasks |-> tree'[u]]
  BY TreeStep DEF TypeInv
<1> QED BY <1>3, <1>4, <1>5

LEMMA CopyTypes ==
  ASSUME TypeOK, NEW j \in Jobs
  PROVE  /\ reading \in [Jobs -> Reading] /\ rows \subseteq Copies
         /\ sha \in [Jobs -> SUBSET Commits] /\ context \in [Jobs -> SUBSET Commits]
         /\ reading[j] = [copy |-> reading[j].copy, old |-> reading[j].old]
         /\ reading[j].copy \in Copies /\ reading[j].old \subseteq Copies
         /\ reading[j].copy =
              [commit |-> reading[j].copy.commit, extra |-> reading[j].copy.extra,
               by |-> reading[j].copy.by, size |-> reading[j].copy.size,
               chunks |-> reading[j].copy.chunks]
         /\ reading[j].copy.commit \in Commits
         /\ reading[j].copy.size \in {0, Chunks}
         /\ reading[j].copy.chunks \in 0..Chunks
         /\ Nothing(j) \in Reading
         /\ Head(taskOf[j]) \in Commits
<1>1. /\ reading \in [Jobs -> Reading] /\ rows \subseteq Copies
      /\ sha \in [Jobs -> SUBSET Commits] /\ context \in [Jobs -> SUBSET Commits]
  BY DEF TypeOK, IndexTypes
<1>2. /\ reading[j] = [copy |-> reading[j].copy, old |-> reading[j].old]
      /\ reading[j].copy \in Copies /\ reading[j].old \subseteq Copies
  BY <1>1 DEF Reading
<1>3. /\ reading[j].copy =
              [commit |-> reading[j].copy.commit, extra |-> reading[j].copy.extra,
               by |-> reading[j].copy.by, size |-> reading[j].copy.size,
               chunks |-> reading[j].copy.chunks]
      /\ reading[j].copy.commit \in Commits
      /\ reading[j].copy.size \in {0, Chunks}
      /\ reading[j].copy.chunks \in 0..Chunks
  BY <1>2 DEF Copies
<1>4. 0 \in Content /\ 0 \in 0..Chunks /\ 1 \in 1..MaxPasses
  BY ContentRange, ChunkBound, WorkBounds
<1>5. Nothing(j) \in Reading
  <2>1. Upstream \in Commits /\ <<j, 1>> \in Jobs \X (1..MaxPasses)
    BY <1>4 DEF Commits
  <2>2. [commit |-> Upstream, extra |-> {}, by |-> <<j, 1>>, size |-> 0,
         chunks |-> 0] \in Copies
    BY <1>4, <2>1 DEF Copies
  <2> QED BY <2>2 DEF Nothing, Reading
<1>6. Head(taskOf[j]) \in Commits
  <2>1. taskOf[j] \in Tasks /\ tree[taskOf[j]].head \in Content
    BY WorkTyped
  <2> QED BY <2>1 DEF Head, Commits
<1> QED BY <1>1, <1>2, <1>3, <1>5, <1>6

(* What ReadTree finds, and what Embed makes of a copy.                    *)
Found(j) ==
  [commit |-> Head(taskOf[j]), extra |-> Extra(taskOf[j]), by |-> <<j, pass[j]>>,
   size |-> 0, chunks |-> 0]

LEMMA ReadMoves ==
  ASSUME TypeOK, NEW j \in Jobs, ReadTree(j), HasHead(taskOf[j])
  PROVE  /\ at[j] = "read" /\ at' = [at EXCEPT ![j] = "delete"]
         /\ UNCHANGED <<blank, rows, sha, context, collided, barren>>
         /\ \E c \in Copies :
              /\ reading' = [reading EXCEPT ![j] = [copy |-> c, old |-> reading[j].old]]
              /\ c.commit = Head(taskOf[j]) /\ c.extra = Extra(taskOf[j])
              /\ c.by[1] = j /\ c.size \in Sizes(c)
<1>1. PICK size \in Sizes(Found(j)) :
        reading' = [reading EXCEPT ![j].copy = [Found(j) EXCEPT !.size = size]]
  BY DEF ReadTree, Found
<1> DEFINE c == [commit |-> Head(taskOf[j]), extra |-> Extra(taskOf[j]),
                 by |-> <<j, pass[j]>>, size |-> size, chunks |-> 0]
<1>2. /\ Head(taskOf[j]) \in Commits /\ pass[j] \in 1..MaxPasses /\ 0 \in 0..Chunks
      /\ Extra(taskOf[j]) \in SUBSET Extras /\ size \in {0, Chunks}
  <2>1. Head(taskOf[j]) \in Commits
    BY CopyTypes
  <2>2. pass[j] \in 1..MaxPasses /\ 0 \in 0..Chunks
    BY ChunkBound DEF TypeOK, WorkTypes
  <2>3. Extra(taskOf[j]) \in SUBSET Extras
    BY DEF Extra
  <2>4. size \in {0, Chunks}
    BY DEF Sizes
  <2> QED BY <2>1, <2>2, <2>3, <2>4
<1>3. [Found(j) EXCEPT !.size = size] = c
  BY DEF Found
<1>4. c \in Copies
  BY <1>2 DEF Copies
<1>5. c.size \in Sizes(c)
  <2>1. Sizes(c) = Sizes(Found(j))
    BY DEF Sizes, Whole, Found
  <2> QED BY <2>1
<1>6. c.commit = Head(taskOf[j]) /\ c.extra = Extra(taskOf[j]) /\ c.by[1] = j
  OBVIOUS
<1> HIDE DEF c
<1>7. reading' = [reading EXCEPT ![j] = [copy |-> c, old |-> reading[j].old]]
  <2>1. reading' = [reading EXCEPT ![j] = [reading[j] EXCEPT !.copy = c]]
    BY <1>1, <1>3
  <2>2. reading[j] = [copy |-> reading[j].copy, old |-> reading[j].old]
    BY CopyTypes
  <2>3. [reading[j] EXCEPT !.copy = c] = [copy |-> c, old |-> reading[j].old]
    BY <2>2
  <2> QED BY <2>1, <2>3
<1>8. /\ at[j] = "read" /\ at' = [at EXCEPT ![j] = "delete"]
      /\ UNCHANGED <<blank, rows, sha, context, collided, barren>>
  BY DEF ReadTree, Goes
<1> QED BY <1>4, <1>5, <1>6, <1>7, <1>8

LEMMA EmbedMoves ==
  ASSUME TypeOK, NEW j \in Jobs, Embed(j)
  PROVE  /\ at[j] = "embed" /\ at' = at
         /\ UNCHANGED <<blank, rows, sha, context, collided, barren>>
         /\ \E c \in Copies :
              /\ reading' = [reading EXCEPT ![j] = [copy |-> c, old |-> reading[j].old]]
              /\ c.commit = reading[j].copy.commit /\ c.extra = reading[j].copy.extra
              /\ c.by = reading[j].copy.by /\ c.size = reading[j].copy.size
<1> DEFINE o == reading[j].copy
           c == [commit |-> o.commit, extra |-> o.extra, by |-> o.by,
                 size |-> o.size, chunks |-> o.chunks + 1]
<1>1. reading' = [reading EXCEPT ![j] = [reading[j] EXCEPT !.copy =
                                           [o EXCEPT !.chunks = @ + 1]]]
  BY DEF Embed
<1>2. /\ o = [commit |-> o.commit, extra |-> o.extra, by |-> o.by,
              size |-> o.size, chunks |-> o.chunks]
      /\ o \in Copies /\ o.chunks \in 0..Chunks /\ o.size \in {0, Chunks}
      /\ o.chunks < o.size /\ Chunks \in Nat
  BY CopyTypes, ChunkBound DEF Embed
<1>3. c \in Copies
  <2>1. /\ o.commit \in Commits /\ o.extra \in SUBSET Extras
        /\ o.by \in Jobs \X (1..MaxPasses) /\ o.chunks + 1 \in 0..Chunks
    BY <1>2 DEF Copies
  <2> QED BY <1>2, <2>1 DEF Copies
<1>4. [o EXCEPT !.chunks = @ + 1] = c
  BY <1>2
<1>5. c.commit = o.commit /\ c.extra = o.extra /\ c.by = o.by /\ c.size = o.size
  OBVIOUS
<1> HIDE DEF c
<1>6. reading' = [reading EXCEPT ![j] = [copy |-> c, old |-> reading[j].old]]
  <2>1. reading[j] = [copy |-> reading[j].copy, old |-> reading[j].old]
    BY CopyTypes
  <2>2. [reading[j] EXCEPT !.copy = c] = [copy |-> c, old |-> reading[j].old]
    BY <2>1
  <2> QED BY <1>1, <1>4, <2>2
<1>7. /\ at[j] = "embed" /\ at' = at
      /\ UNCHANGED <<blank, rows, sha, context, collided, barren>>
  BY DEF Embed
<1> QED BY <1>3, <1>5, <1>6, <1>7

LEMMA IndexStepTypes ==
  ASSUME TypeOK, NEW j \in Jobs, JobStep(j)
  PROVE  IndexTypes'
<1>1. /\ reading \in [Jobs -> Reading] /\ rows \subseteq Copies
      /\ sha \in [Jobs -> SUBSET Commits] /\ context \in [Jobs -> SUBSET Commits]
      /\ reading[j] = [copy |-> reading[j].copy, old |-> reading[j].old]
      /\ reading[j].copy \in Copies /\ reading[j].old \subseteq Copies
      /\ reading[j].copy.commit \in Commits
      /\ Nothing(j) \in Reading
      /\ blank \subseteq Commits /\ barren \subseteq Commits /\ collided \subseteq Jobs
  BY CopyTypes DEF TypeOK, IndexTypes
<1>2. ASSUME NEW c \in Copies, NEW o \in SUBSET Copies,
             reading' = [reading EXCEPT ![j] = [copy |-> c, old |-> o]],
             UNCHANGED <<blank, rows, sha, context, collided, barren>>
      PROVE  IndexTypes'
  <2>1. [copy |-> c, old |-> o] \in Reading
    BY DEF Reading
  <2> QED BY <1>1, <1>2, <2>1 DEF IndexTypes
<1>3. CASE ReadTree(j)
  <2>1. CASE HasHead(taskOf[j])
    BY <1>1, <1>2, <1>3, <2>1, ReadMoves
  <2>2. CASE ~HasHead(taskOf[j])
    BY <1>1, <1>3, <2>2 DEF ReadTree, Indexed, IndexTypes
  <2> QED BY <2>1, <2>2
<1>4. CASE DeleteStarts(j)
  <2>1. /\ reading' = [reading EXCEPT ![j] = [reading[j] EXCEPT !.old = OldRows(j)]]
        /\ UNCHANGED <<blank, rows, sha, context, collided, barren>>
        /\ OldRows(j) \in SUBSET Copies
    BY <1>1, <1>4 DEF DeleteStarts, OldRows
  <2>2. [reading[j] EXCEPT !.old = OldRows(j)] =
          [copy |-> reading[j].copy, old |-> OldRows(j)]
    BY <1>1
  <2> QED BY <1>1, <1>2, <2>1, <2>2
<1>5. CASE Embed(j)
  BY <1>1, <1>2, <1>5, EmbedMoves
<1>6. CASE CommitIndex(j)
  <2>1. /\ rows' \subseteq Copies /\ barren' \subseteq Commits
        /\ collided' \subseteq Jobs /\ blank' = blank
    BY <1>1, <1>6 DEF CommitIndex, Indexed
  <2> QED BY <1>1, <1>6, <2>1 DEF CommitIndex, Indexed, IndexTypes
<1>7. CASE IndexFails(j) \/ IndexCollides(j)
  BY <1>1, <1>7 DEF IndexFails, IndexCollides, Indexed, IndexTypes
<1>8. CASE Retrieve(j) \/ RetrieveFails(j)
  <2>1. Visible(j) \subseteq Commits
    BY <1>1 DEF Visible, Copies
  <2>2. \E found \in SUBSET Commits : context' = [context EXCEPT ![j] = found]
    BY <1>8, <2>1 DEF Retrieve, RetrieveFails
  <2> QED BY <1>1, <1>8, <2>2 DEF Retrieve, RetrieveFails, IndexTypes
<1>9. CASE Codes(j)
  BY <1>1, <1>9 DEF Codes, IndexTypes
<1>10. CASE UNCHANGED indexVars
  BY <1>10 DEF indexVars, TypeOK, IndexTypes
<1> QED
  BY <1>3, <1>4, <1>5, <1>6, <1>7, <1>8, <1>9, <1>10
  DEF JobStep, Fetch, Works, Indexes, IndexStep, DeleteEnds, Delivers

LEMMA DeliveryStepTypes ==
  ASSUME TypeOK, NEW j \in Jobs, JobStep(j), tree' \in [Tasks -> Directory]
  PROVE  DeliveryTypes'
<1> USE DEF github, deliveryVars
<1>1. /\ DeliveryTypes /\ taskOf[j] \in Tasks /\ 0 \in Content
      /\ tree[taskOf[j]].head \in Content /\ tree'[taskOf[j]].head \in Content
  BY WorkTyped, ContentRange DEF TypeOK, Directory
<1>2. CASE Fetch(j) \/ Works(j) \/ Indexes(j) \/ Codes(j)
  BY <1>1, <1>2 DEF Fetch, Works, Indexes, Codes, DeliveryTypes
<1>3. CASE CommitWork(j) \/ DescribeFails(j)
  BY <1>1, <1>3 DEF CommitWork, DescribeFails, DeliveryEndsBadly, DeliveryTypes
<1>4. CASE AuthAnswers(j) \/ CreateAnswers(j) \/ CallFails(j)
  BY <1>1, <1>4 DEF AuthAnswers, CreateAnswers, CallFails, DeliveryEndsBadly,
                    DeliveryTypes
<1>5. CASE UpstreamAnswers(j) \/ ForkAnswers(j)
  BY <1>1, <1>5 DEF UpstreamAnswers, ForkAnswers, Pushes, DeliveryTypes
<1>6. CASE PatchAnswers(j) \/ Record(j) \/ RecordFails(j)
  BY <1>1, <1>6 DEF PatchAnswers, Record, RecordFails, DeliveryTypes
<1>7. CASE Feedback(j)
  <2>1. PICK asks \in BOOLEAN : asked' = [asked EXCEPT ![j] = @ \/ asks]
    BY <1>7 DEF Feedback, PollAsks
  <2>2. asked' \in [Jobs -> BOOLEAN]
    BY <1>1, <2>1 DEF DeliveryTypes
  <2> QED BY <1>1, <1>7, <2>2 DEF Feedback, DeliveryTypes
<1> QED BY <1>2, <1>3, <1>4, <1>5, <1>6, <1>7
        DEF JobStep, Delivers, DeliveryStep, DeliveryTrouble

LEMMA JobTypes ==
  ASSUME TypeInv, NEW j \in Jobs, JobStep(j)
  PROVE  TypeInv'
<1>1. TypeOK /\ CountInv' /\ tree' \in [Tasks -> Directory]
  BY CountStep DEF TypeInv
<1>2. at' \in [Jobs -> Places] /\ taskOf' \in [Jobs -> Tasks]
  <2>1. PICK where \in Places : at' = [at EXCEPT ![j] = where]
    BY <1>1, Control
  <2> QED BY <1>1, <2>1, Control, WorkTyped DEF TypeOK, WorkTypes
<1>3. pass' \in [Jobs -> 1..MaxPasses]
  <2>1. pass \in [Jobs -> 1..MaxPasses] /\ MaxPasses \in Nat
    BY <1>1, WorkBounds DEF TypeOK, WorkTypes
  <2>2. CASE pass' = pass
    BY <2>1, <2>2
  <2>3. CASE pass[j] < MaxPasses /\ pass' = [pass EXCEPT ![j] = @ + 1]
    BY <2>1, <2>3
  <2> QED BY <1>1, <2>2, <2>3, Control
<1>4. WorkTypes'
  <2>1. torn' \subseteq Tasks
    BY <1>1, TornGrows, WorkTyped DEF TypeOK, WorkTypes
  <2> QED BY <1>1, <1>2, <1>3, <2>1, TroubleTypes DEF WorkTypes, Places
<1>5. fetches' \in [Jobs -> 0..(MaxFetches - 1)]
  <2>1. fetches \in [Jobs -> 0..(MaxFetches - 1)] /\ MaxFetches \in Nat \ {0}
    BY <1>1, FetchBound DEF TypeOK
  <2>2. CASE Fetch(j)
    <3>1. PICK outcome \in Outcomes :
            IF TriesAgain(j, outcome)
              THEN fetches' = [fetches EXCEPT ![j] = @ + 1]
              ELSE fetches' = [fetches EXCEPT ![j] = 0]
      BY <2>2 DEF Fetch
    <3>2. CASE TriesAgain(j, outcome)
      BY <2>1, <3>1, <3>2 DEF TriesAgain
    <3>3. CASE ~TriesAgain(j, outcome)
      BY <2>1, <3>1, <3>3
    <3> QED BY <3>2, <3>3
  <2>3. CASE UNCHANGED fetches
    BY <2>1, <2>3
  <2> QED BY <2>2, <2>3 DEF JobStep, Works, Indexes, Codes, Delivers
<1> QED BY <1>1, <1>4, <1>5, IndexStepTypes, DeliveryStepTypes DEF TypeInv, TypeOK

(* A submission, and the death of the process.                             *)
LEMMA StartTypes ==
  ASSUME TypeInv, NEW j \in Jobs, Start(j)
  PROVE  TypeInv'
<1> USE DEF indexVars, deliveryVars, NoTrouble
<1>1. /\ at' = [at EXCEPT ![j] = "discover"] /\ at[j] = "idle"
      /\ UNCHANGED <<taskOf, pass, tree, troubles, troubled, torn, indexVars,
                     deliveryVars, fetches>>
  BY DEF Start, Goes
<1>2. TypeOK'
  BY <1>1 DEF TypeInv, TypeOK, WorkTypes, IndexTypes, DeliveryTypes
<1>3. \A t \in Tasks : Written(t)' = Written(t)
  <2>1. at \in [Jobs -> Places]
    BY WorkTyped DEF TypeInv
  <2>2. \A k \in Jobs : at'[k] \in Unwritten <=> at[k] \in Unwritten
    BY <1>1, <2>1 DEF Unwritten
  <2> QED BY <1>1, <2>2 DEF Written
<1>4. CountInv'
  BY <1>1, <1>3 DEF TypeInv, CountInv
<1> QED BY <1>2, <1>4 DEF TypeInv

LEMMA CrashTypes == TypeInv /\ Crash => TypeInv'
<1> SUFFICES ASSUME TypeInv, Crash PROVE TypeInv'
  OBVIOUS
<1> USE DEF deliveryVars
<1>1. /\ at \in [Jobs -> Places]
      /\ at' = [k \in Jobs |-> IF at[k] \in Ended \union {"idle"} THEN at[k]
                               ELSE "dead"]
      /\ reading' = [k \in Jobs |-> Nothing(k)]
      /\ troubles < MaxTroubles /\ troubles' = troubles + 1 /\ troubled' = Jobs
      /\ UNCHANGED <<taskOf, pass, tree, torn, blank, rows, sha, context, collided,
                     barren, deliveryVars, fetches>>
  BY WorkTyped DEF Crash, TypeInv, TypeOK, WorkTypes, Places
<1>2. /\ at' \in [Jobs -> Places] /\ troubles' \in 0..MaxTroubles
      /\ reading' \in [Jobs -> Reading]
  <2>1. troubles \in 0..MaxTroubles /\ MaxTroubles \in Nat
    BY WorkBounds DEF TypeInv, TypeOK, WorkTypes
  <2>2. \A k \in Jobs : Nothing(k) \in Reading
    BY CopyTypes DEF TypeInv
  <2> QED BY <1>1, <2>1, <2>2 DEF Places, Ended
<1>3. TypeOK'
  BY <1>1, <1>2 DEF TypeInv, TypeOK, WorkTypes, IndexTypes, DeliveryTypes, Places
<1>4. ASSUME NEW t \in Tasks
      PROVE  tree[t].edits <= Cardinality(Written(t)') + troubles'
  <2>1. /\ Written(t) \in SUBSET (Jobs \X (1..MaxPasses))
        /\ Written(t)' \in SUBSET (Jobs \X (1..MaxPasses))
    BY DEF Written
  <2>2. Written(t) \subseteq Written(t)'
    <3>1. \A k \in Jobs : at[k] \notin Unwritten => at'[k] \notin Unwritten
      BY <1>1 DEF Unwritten
    <3> QED BY <1>1, <3>1 DEF Written
  <2>3. IsFiniteSet(Written(t)') /\ Cardinality(Written(t)') \in Nat
    BY <2>1, ContentRange
  <2>4. Cardinality(Written(t)) \in Nat
    BY <2>1, ContentRange
  <2>5. Cardinality(Written(t)) <= Cardinality(Written(t)')
    BY <2>2, <2>3, FS_Subset
  <2>6. /\ tree[t].edits <= Cardinality(Written(t)) + troubles
        /\ tree[t].edits \in Nat /\ troubles \in Nat
    BY ContentRange, WorkBounds DEF TypeInv, TypeOK, WorkTypes, Directory, CountInv
  <2> QED BY <1>1, <2>3, <2>4, <2>5, <2>6
<1> QED BY <1>1, <1>3, <1>4 DEF TypeInv, CountInv

LEMMA TypeStep == TypeInv /\ [Next]_vars => TypeInv'
<1> SUFFICES ASSUME TypeInv, [Next]_vars PROVE TypeInv'
  OBVIOUS
<1>1. UNCHANGED vars => TypeInv'
  BY DEF vars, workVars, indexVars, deliveryVars, TypeInv, TypeOK, WorkTypes,
         IndexTypes, DeliveryTypes, CountInv, Written
<1> QED BY <1>1, CrashTypes, StartTypes, JobTypes DEF Next, Rest
-----------------------------------------------------------------------------
LEMMA StartMoves ==
  ASSUME TypeOK, NEW j \in Jobs, Start(j)
  PROVE  /\ at[j] = "idle" /\ at'[j] = "discover"
         /\ \A k \in Jobs \ {j} : at'[k] = at[k]
         /\ UNCHANGED <<taskOf, pass, tree, troubles, troubled, torn, blank, rows,
                        reading, sha, context, collided, barren, ownFork, remote,
                        open, commit, pr, recorded, asked, unpushed, skipped>>
  BY WorkTyped DEF Start, Goes, NoTrouble, indexVars, deliveryVars

LEMMA CrashMoves ==
  ASSUME Crash
  PROVE  /\ \A k \in Jobs : \/ at'[k] = at[k] /\ at[k] \in Ended \union {"idle"}
                            \/ at'[k] = "dead"
         /\ \A k \in Jobs : reading'[k] = Nothing(k)
         /\ troubled' = Jobs
         /\ UNCHANGED <<taskOf, pass, tree, torn, blank, rows, sha, context, collided,
                        barren, ownFork, remote, open, commit, pr, recorded, asked,
                        unpushed, skipped>>
  BY DEF Crash, deliveryVars

LEMMA Untouched ==
  ASSUME UNCHANGED vars
  PROVE  UNCHANGED <<at, taskOf, pass, tree, troubles, troubled, torn, blank, rows,
                     reading, sha, context, collided, barren, ownFork, remote, open,
                     commit, pr, recorded, asked, unpushed, skipped>>
  BY DEF vars, workVars, indexVars, deliveryVars

LEMMA NextCases ==
  [Next]_vars => \/ UNCHANGED vars \/ Crash
                 \/ \E j \in Jobs : Start(j) \/ JobStep(j)
  BY DEF Next, Rest

(* A step of one job, seen from the jobs: the others stay where they are.  *)
LEMMA JobMoves ==
  ASSUME TypeOK, NEW j \in Jobs, JobStep(j)
  PROVE  /\ taskOf' = taskOf /\ ownFork' = ownFork
         /\ \A k \in Jobs \ {j} : at'[k] = at[k] /\ pass'[k] = pass[k]
         /\ at[j] \notin {"idle"} \union Ended
         /\ at'[j] \in Places /\ at'[j] # "idle"
<1>1. at \in [Jobs -> Places] /\ pass \in [Jobs -> 1..MaxPasses]
  BY WorkTyped DEF TypeOK, WorkTypes
<1> QED BY <1>1, Control

LEMMA CloneKept == TypeInv /\ CloneInv /\ [Next]_vars => CloneInv'
<1> SUFFICES ASSUME TypeInv, CloneInv, [Next]_vars PROVE CloneInv'
  OBVIOUS
<1>1. TypeOK
  BY DEF TypeInv
<1>2. CASE UNCHANGED vars
  BY <1>2, Untouched DEF CloneInv
<1>3. CASE Crash
  BY <1>3, CrashMoves DEF CloneInv, Ended
<1>4. ASSUME NEW j \in Jobs, Start(j) PROVE CloneInv'
  BY <1>1, <1>4, StartMoves DEF CloneInv
<1>5. ASSUME NEW j \in Jobs, JobStep(j) PROVE CloneInv'
  <2> DEFINE t == taskOf[j]
  <2>1. /\ taskOf' = taskOf /\ t \in Tasks
        /\ \A k \in Jobs \ {j} : at'[k] = at[k]
        /\ \A u \in Tasks \ {t} : tree'[u] = tree[u]
        /\ \A u \in Tasks : tree[u].head \in Nat /\ tree[u].edits \in Nat
        /\ \A k \in Jobs : taskOf[k] \in Tasks
    BY <1>1, <1>5, JobMoves, OtherTasks, WorkTyped DEF TypeOK, WorkTypes
  <2>2. /\ \A u \in Tasks : /\ tree[u].head <= tree[u].edits
                            /\ tree[u].stage # "ready" => tree[u].head = 0
        /\ \A k \in Jobs : /\ at[k] = "fetch" => tree[taskOf[k]].stage = "fetching"
                           /\ at[k] = "checkout" => tree[taskOf[k]].stage = "checkout"
        /\ \A k, l \in Jobs :
             at[k] \in {"fetch", "checkout"} /\ at[l] \in {"fetch", "checkout"}
             /\ taskOf[k] = taskOf[l] => k = l
    BY DEF CloneInv
  <2> HIDE DEF t
  <2>3. SUFFICES
        /\ /\ tree'[t].head <= tree'[t].edits
           /\ tree'[t].stage # "ready" => tree'[t].head = 0
        /\ \A k \in Jobs : taskOf[k] = t =>
             /\ at'[k] = "fetch" => tree'[t].stage = "fetching"
             /\ at'[k] = "checkout" => tree'[t].stage = "checkout"
        /\ \A k, l \in Jobs :
             at'[k] \in {"fetch", "checkout"} /\ at'[l] \in {"fetch", "checkout"}
             /\ taskOf[k] = taskOf[l] => k = l
    <3>1. \A u \in Tasks : /\ tree'[u].head <= tree'[u].edits
                           /\ tree'[u].stage # "ready" => tree'[u].head = 0
      BY <2>1, <2>2, <2>3
    <3>2. \A k \in Jobs :
            /\ at'[k] = "fetch" => tree'[taskOf[k]].stage = "fetching"
            /\ at'[k] = "checkout" => tree'[taskOf[k]].stage = "checkout"
      <4> SUFFICES ASSUME NEW k \in Jobs
                   PROVE  /\ at'[k] = "fetch" => tree'[taskOf[k]].stage = "fetching"
                          /\ at'[k] = "checkout" => tree'[taskOf[k]].stage = "checkout"
        OBVIOUS
      <4>1. CASE taskOf[k] = t
        BY <2>3, <4>1
      <4>2. CASE taskOf[k] # t
        <5>1. at'[k] = at[k] /\ tree'[taskOf[k]] = tree[taskOf[k]]
          BY <2>1, <4>2 DEF t
        <5> QED BY <2>2, <5>1
      <4> QED BY <4>1, <4>2
    <3> QED BY <2>1, <2>3, <3>1, <3>2 DEF CloneInv
  <2>4. CASE Quiet(j)
    BY <2>1, <2>2, <2>4 DEF Quiet, t
  <2>5. CASE BeginsClone(j)
    <3>1. /\ tree[t].stage = "absent" /\ at'[j] = "fetch"
          /\ tree'[t].stage = "fetching" /\ tree'[t].head = tree[t].head
          /\ tree'[t].edits = tree[t].edits
      BY <2>5 DEF BeginsClone, Occupied, Keeps, t
    <3>2. \A k \in Jobs : taskOf[k] = t => at[k] \notin {"fetch", "checkout"}
      BY <2>2, <3>1
    <3> QED BY <2>1, <2>2, <3>1, <3>2 DEF t
  <2>6. CASE FetchesClone(j)
    <3>1. /\ at[j] = "fetch" /\ at'[j] = "checkout" /\ tree[t].stage = "fetching"
          /\ tree'[t].stage = "checkout" /\ tree'[t].head = tree[t].head
          /\ tree'[t].edits = tree[t].edits
      BY <2>2, <2>6 DEF FetchesClone, Keeps, t
    <3> QED BY <2>1, <2>2, <3>1 DEF t
  <2>7. CASE EndsClone(j)
    <3>1. /\ at[j] = "checkout" /\ at'[j] = "read" /\ tree[t].stage = "checkout"
          /\ tree'[t].stage = "ready" /\ tree'[t].head = 0
          /\ tree'[t].edits \in Nat
      BY <2>1, <2>2, <2>7 DEF EndsClone, t
    <3> QED BY <2>1, <2>2, <3>1 DEF t
  <2>8. CASE LosesClone(j)
    <3>1. /\ at[j] = "fetch" /\ at'[j] \notin {"fetch", "checkout"}
          /\ tree'[t].head = 0 /\ tree'[t].edits = 0
      BY <2>8 DEF LosesClone, t
    <3> QED BY <2>1, <2>2, <3>1 DEF t
  <2>11. CASE TearsClone(j)
    <3>1. /\ at[j] = "checkout" /\ at'[j] \in {"repository", "failed"}
          /\ tree[t].stage = "checkout" /\ tree'[t].stage = "ready"
          /\ tree'[t].head = 0 /\ tree'[t].edits \in Nat
      BY <2>1, <2>2, <2>11 DEF TearsClone, t
    <3> QED BY <2>1, <2>2, <3>1 DEF t
  <2>9. CASE Edits(j)
    <3>1. /\ at'[j] = "deliver" /\ tree'[t].stage = tree[t].stage
          /\ tree'[t].head = tree[t].head
          /\ tree'[t].edits = tree[t].edits \/ tree'[t].edits = tree[t].edits + 1
      BY <2>9 DEF Edits, t
    <3> QED BY <2>1, <2>2, <3>1 DEF t
  <2>10. CASE CommitsEdits(j)
    <3>1. /\ at'[j] = "auth" /\ tree[t].stage = "ready" /\ tree'[t].stage = "ready"
          /\ tree'[t].edits = tree[t].edits /\ tree'[t].head = tree[t].edits
      BY <2>10 DEF CommitsEdits, t
    <3> QED BY <2>1, <2>2, <3>1 DEF t
  <2> QED
    BY <1>1, <1>5, <2>4, <2>5, <2>6, <2>7, <2>8, <2>9, <2>10, <2>11, TreeStep
<1> QED BY <1>2, <1>3, <1>4, <1>5, NextCases
-----------------------------------------------------------------------------
(* What has been committed stays committed.                                *)
LEMMA HeadGrows ==
  ASSUME TypeInv, CloneInv, NEW j \in Jobs, JobStep(j), NEW t \in Tasks
  PROVE  /\ tree[t].head \in Nat /\ tree'[t].head \in Nat
         /\ tree[t].head <= tree'[t].head
<1>1. /\ tree[t].head \in Nat /\ tree[t].edits \in Nat /\ taskOf[j] \in Tasks
      /\ tree[t].head <= tree[t].edits
      /\ tree[t].stage # "ready" => tree[t].head = 0
      /\ at[j] = "fetch" => tree[taskOf[j]].stage = "fetching"
      /\ at[j] = "checkout" => tree[taskOf[j]].stage = "checkout"
  BY WorkTyped DEF TypeInv, CloneInv
<1>2. CASE t # taskOf[j]
  BY <1>1, <1>2, OtherTasks DEF TypeInv
<1>3. CASE t = taskOf[j]
  <2>1. \/ tree'[t].head = tree[t].head
        \/ tree'[t].head = 0 /\ tree[t].head = 0
        \/ tree'[t].head = tree[t].edits
    <3>1. LosesClone(j) => tree'[t].head = 0 /\ tree[t].stage # "ready"
      BY <1>1, <1>3 DEF LosesClone
    <3> QED BY <1>1, <1>3, <3>1, TreeStep
            DEF TypeInv, Quiet, BeginsClone, FetchesClone, EndsClone, TearsClone,
                Edits, CommitsEdits, Keeps
  <2> QED BY <1>1, <2>1
<1> QED BY <1>2, <1>3

PushOf(j) == LET t == taskOf[j] IN
  /\ recorded[j] <= tree[t].head
  /\ at[j] \in Holding => commit[j] <= tree[t].head
  /\ at[j] \in {"create", "patch", "record"} => commit[j] <= remote[t] \/ j \in unpushed
  /\ recorded[j] <= remote[t] \/ j \in unpushed

LEMMA DeliveryTyped ==
  ASSUME TypeOK, NEW j \in Jobs
  PROVE  LET t == taskOf[j] IN
         /\ t \in Tasks /\ at \in [Jobs -> Places]
         /\ commit \in [Jobs -> Content] /\ recorded \in [Jobs -> Content]
         /\ pr \in [Jobs -> BOOLEAN] /\ remote \in [Tasks -> Content]
         /\ open \in [Tasks -> BOOLEAN]
         /\ commit[j] \in Nat /\ recorded[j] \in Nat /\ remote[t] \in Nat
         /\ tree[t].head \in Nat /\ tree[t].edits \in Nat
  BY ContentRange, WorkTyped DEF TypeOK, DeliveryTypes

(* The steps that do not deliver.                                          *)
LEMMA NotDelivering ==
  ASSUME TypeOK, NEW j \in Jobs,
         Fetch(j) \/ Works(j) \/ Indexes(j) \/ Codes(j)
           \/ (Feedback(j) /\ UNCHANGED <<indexVars, fetches>>)
  PROVE  /\ UNCHANGED <<remote, open, commit, pr, recorded, unpushed, skipped>>
         /\ at[j] \notin Holding \union {"deliver"} /\ at'[j] \notin Holding
<1> USE DEF Goes, NodeRaises, Holding, deliveryVars, github
<1>1. at \in [Jobs -> Places]
  BY WorkTyped
<1>2. CASE Fetch(j) \/ Feedback(j)
  BY <1>1, <1>2 DEF Fetch, Feedback
<1>3. CASE Works(j)
  BY <1>1, <1>3 DEF Works, RepositoryNode, CloneStep, CloneBegins, CloneFetched,
                    CloneEnds, CloneFails
<1>4. CASE Indexes(j)
  BY <1>1, <1>4 DEF Indexes, IndexStep, ReadTree, DeleteStarts, DeleteEnds, Embed,
                    CommitIndex, IndexCollides, IndexFails, Retrieve, RetrieveFails, Indexed,
                    Flushes
<1>5. CASE Codes(j)
  BY <1>1, <1>5 DEF Codes, WriteChanges
<1> QED BY <1>2, <1>3, <1>4, <1>5

LEMMA RemoteMoves ==
  ASSUME TypeOK, NEW j \in Jobs, JobStep(j)
  PROVE  \/ remote'[taskOf[j]] = remote[taskOf[j]]
         \/ remote'[taskOf[j]] = tree[taskOf[j]].head
<1>1. taskOf[j] \in Tasks /\ remote \in [Tasks -> Content]
  BY DeliveryTyped
<1>2. UNCHANGED remote \/ remote' = [remote EXCEPT ![taskOf[j]] = tree[taskOf[j]].head]
  BY DEF JobStep, Fetch, Works, Indexes, Codes, Delivers, DeliveryStep,
         DeliveryTrouble, CommitWork, DescribeFails, AuthAnswers, UpstreamAnswers,
         ForkAnswers, Pushes, CreateAnswers, PatchAnswers, Record, CallFails,
         RecordFails, Feedback, deliveryVars, github
<1> QED BY <1>1, <1>2

LEMMA PushesOwn ==
  ASSUME TypeInv, CloneInv, PushInv, NEW j \in Jobs, JobStep(j)
  PROVE  remote'[taskOf[j]] <= tree'[taskOf[j]].head /\ PushOf(j)'
<1> DEFINE t == taskOf[j]
<1> USE DEF Goes, NodeRaises, Holding, deliveryVars, github
<1>1. /\ t \in Tasks /\ at \in [Jobs -> Places]
      /\ commit \in [Jobs -> Content] /\ recorded \in [Jobs -> Content]
      /\ remote \in [Tasks -> Content] /\ pr \in [Jobs -> BOOLEAN]
      /\ commit[j] \in Nat /\ recorded[j] \in Nat /\ remote[t] \in Nat
  BY DeliveryTyped DEF TypeInv
<1>2. /\ tree[t].head \in Nat /\ tree'[t].head \in Nat
      /\ tree[t].head <= tree'[t].head
  BY <1>1, HeadGrows
<1>3. remote[t] <= tree[t].head /\ PushOf(j)
  BY <1>1 DEF PushInv, PushOf
<1>4. taskOf' = taskOf
  BY JobMoves DEF TypeInv
<1>5. SUFFICES
        /\ remote'[t] <= tree'[t].head
        /\ recorded'[j] <= tree'[t].head
        /\ at'[j] \in Holding => commit'[j] <= tree'[t].head
        /\ at'[j] \in {"create", "patch", "record"} =>
             commit'[j] <= remote'[t] \/ j \in unpushed'
        /\ recorded'[j] <= remote'[t] \/ j \in unpushed'
  BY <1>4, <1>5 DEF PushOf
<1>6. /\ remote[t] <= tree'[t].head /\ recorded[j] <= tree'[t].head
      /\ at[j] \in Holding => commit[j] <= tree'[t].head
      /\ recorded[j] <= remote[t] \/ j \in unpushed
      /\ at[j] \in {"create", "patch", "record"} =>
           commit[j] <= remote[t] \/ j \in unpushed
  <2>1. /\ recorded[j] <= tree[t].head
        /\ at[j] \in Holding => commit[j] <= tree[t].head
        /\ recorded[j] <= remote[t] \/ j \in unpushed
        /\ at[j] \in {"create", "patch", "record"} =>
             commit[j] <= remote[t] \/ j \in unpushed
    BY <1>3 DEF PushOf
  <2> QED BY <1>1, <1>2, <1>3, <2>1
<1> HIDE DEF t
<1>7. CASE \/ Fetch(j) \/ Works(j) \/ Indexes(j) \/ Codes(j)
           \/ Feedback(j) /\ UNCHANGED <<indexVars, fetches>>
  BY <1>6, <1>7, NotDelivering DEF TypeInv
<1>8. ASSUME DeliveryEndsBadly(j), UNCHANGED <<remote, unpushed>>
      PROVE  /\ recorded'[j] = 0 /\ at'[j] = "feedback" /\ remote'[t] = remote[t]
  BY <1>1, <1>8 DEF DeliveryEndsBadly
<1>9. CASE \/ CommitWork(j) /\ tree[t].stage # "ready"
           \/ DescribeFails(j) \/ CallFails(j)
           \/ CreateAnswers(j) /\ ~Acceptable(t)
  <2>1. DeliveryEndsBadly(j) /\ UNCHANGED <<remote, unpushed>>
    BY <1>9 DEF CommitWork, DescribeFails, CallFails, CreateAnswers, t
  <2> QED BY <1>1, <1>2, <1>6, <1>8, <2>1
<1>10. CASE CommitWork(j) /\ tree[t].stage = "ready"
  <2>1. /\ at'[j] = "auth" /\ commit'[j] = tree'[t].head
        /\ UNCHANGED <<remote, unpushed, recorded>>
    BY <1>1, <1>10 DEF CommitWork, t
  <2> QED BY <1>2, <1>6, <2>1
<1>11. CASE AuthAnswers(j)
  <2>1. \/ DeliveryEndsBadly(j) /\ UNCHANGED <<remote, unpushed>>
        \/ /\ at'[j] = "upstream" /\ at[j] = "auth"
           /\ UNCHANGED <<remote, unpushed, recorded, commit>>
    BY <1>1, <1>11 DEF AuthAnswers
  <2> QED BY <1>1, <1>2, <1>6, <1>8, <2>1
<1>12. CASE UpstreamAnswers(j) \/ ForkAnswers(j)
  <2>1. /\ UNCHANGED <<recorded, commit, tree>>
        /\ at[j] \in {"upstream", "fork"} /\ at'[j] \in {"patch", "fork", "create"}
    BY <1>1, <1>12 DEF UpstreamAnswers, ForkAnswers
  <2>2. \/ Pushes(j)
        \/ at'[j] = "fork" /\ UNCHANGED <<remote, unpushed>>
    BY <1>1, <1>12 DEF UpstreamAnswers, ForkAnswers
  <2>3. CASE remote' = [remote EXCEPT ![t] = tree[t].head]
    <3>1. remote'[t] = tree[t].head
      BY <1>1, <2>3
    <3> QED BY <1>1, <1>2, <1>6, <2>1, <3>1
  <2>4. CASE unpushed' = unpushed \union {j} /\ UNCHANGED remote
    BY <1>6, <2>1, <2>4
  <2>5. CASE at'[j] = "fork" /\ UNCHANGED <<remote, unpushed>>
    BY <1>6, <2>1, <2>5
  <2> QED BY <2>2, <2>3, <2>4, <2>5 DEF Pushes, t
<1>13. CASE PatchAnswers(j) \/ (CreateAnswers(j) /\ Acceptable(t))
  <2>1. /\ at[j] \in {"patch", "create"} /\ at'[j] = "record"
        /\ UNCHANGED <<remote, unpushed, recorded, commit>>
    BY <1>1, <1>13 DEF PatchAnswers, CreateAnswers, t
  <2> QED BY <1>6, <2>1
<1>14. CASE Record(j)
  <2>1. /\ at[j] = "record" /\ at'[j] = "feedback" /\ recorded'[j] = commit[j]
        /\ UNCHANGED <<remote, unpushed>>
    BY <1>1, <1>14 DEF Record
  <2> QED BY <1>6, <2>1
<1>15. CASE RecordFails(j)
  <2>1. at'[j] \in {"deliver", "failed"} /\ UNCHANGED <<remote, unpushed, recorded>>
    BY <1>1, <1>15 DEF RecordFails
  <2> QED BY <1>6, <2>1
<1> QED
  BY <1>7, <1>9, <1>10, <1>11, <1>12, <1>13, <1>14, <1>15
  DEF JobStep, Delivers, DeliveryStep, DeliveryTrouble

LEMMA PushKept == TypeInv /\ CloneInv /\ PushInv /\ [Next]_vars => PushInv'
<1> SUFFICES ASSUME TypeInv, CloneInv, PushInv, [Next]_vars PROVE PushInv'
  OBVIOUS
<1>1. TypeOK
  BY DEF TypeInv
<1>2. CASE UNCHANGED vars
  BY <1>2, Untouched DEF PushInv
<1>3. CASE Crash
  BY <1>3, CrashMoves DEF PushInv, Holding, Ended
<1>4. ASSUME NEW j \in Jobs, Start(j) PROVE PushInv'
  BY <1>1, <1>4, StartMoves DEF PushInv, Holding
<1>5. ASSUME NEW j \in Jobs, JobStep(j) PROVE PushInv'
  <2>1. taskOf' = taskOf
    BY <1>1, <1>5, JobMoves
  <2>2. remote'[taskOf[j]] <= tree'[taskOf[j]].head /\ PushOf(j)'
    BY <1>5, PushesOwn
  <2>3. ASSUME NEW t \in Tasks PROVE remote'[t] <= tree'[t].head
    <3>1. CASE t # taskOf[j]
      BY <1>1, <1>5, <3>1, OtherTasks DEF PushInv
    <3> QED BY <2>2, <3>1
  <2>4. ASSUME NEW k \in Jobs PROVE PushOf(k)'
    <3>1. CASE k = j
      BY <2>2, <3>1
    <3>2. CASE k # j
      <4> DEFINE t == taskOf[k]
      <4>1. /\ at'[k] = at[k] /\ commit'[k] = commit[k]
            /\ recorded'[k] = recorded[k] /\ (k \in unpushed' <=> k \in unpushed)
        BY <1>1, <1>5, <3>2, JobMoves, OthersDelivery
      <4>2. /\ commit[k] \in Nat /\ recorded[k] \in Nat /\ remote[t] \in Nat
            /\ t \in Tasks
        BY <1>1, DeliveryTyped
      <4>3. /\ tree[t].head \in Nat /\ tree'[t].head \in Nat
            /\ tree[t].head <= tree'[t].head
        BY <1>5, <4>2, HeadGrows
      <4>4. /\ remote'[t] \in Nat /\ remote[t] <= remote'[t]
        <5>1. CASE t # taskOf[j]
          BY <1>1, <1>5, <4>2, <5>1, OtherTasks
        <5>2. CASE t = taskOf[j]
          <6>1. remote'[t] = remote[t] \/ remote'[t] = tree[t].head
            BY <1>1, <1>5, <4>2, <5>2, RemoteMoves
          <6> QED BY <4>2, <4>3, <6>1 DEF PushInv
        <5> QED BY <5>1, <5>2
      <4>5. /\ recorded[k] <= tree[t].head
            /\ at[k] \in Holding => commit[k] <= tree[t].head
            /\ at[k] \in {"create", "patch", "record"} =>
                 commit[k] <= remote[t] \/ k \in unpushed
            /\ recorded[k] <= remote[t] \/ k \in unpushed
        BY DEF PushInv
      <4> HIDE DEF t
      <4>6. /\ recorded[k] <= tree'[t].head
            /\ at[k] \in Holding => commit[k] <= tree'[t].head
            /\ at[k] \in {"create", "patch", "record"} =>
                 commit[k] <= remote'[t] \/ k \in unpushed
            /\ recorded[k] <= remote'[t] \/ k \in unpushed
        BY <4>2, <4>3, <4>4, <4>5
      <4> QED BY <2>1, <4>1, <4>6 DEF PushOf, t
    <3> QED BY <3>1, <3>2
  <2> QED BY <2>1, <2>3, <2>4 DEF PushInv, PushOf
<1> QED BY <1>2, <1>3, <1>4, <1>5, NextCases
-----------------------------------------------------------------------------
LEMMA OpenStays ==
  ASSUME TypeOK, NEW j \in Jobs, JobStep(j), NEW t \in Tasks, open[t]
  PROVE  open'[t]
<1>1. taskOf[j] \in Tasks /\ open \in [Tasks -> BOOLEAN]
  BY DeliveryTyped
<1>2. UNCHANGED open \/ open' = [open EXCEPT ![taskOf[j]] = TRUE]
  BY DEF JobStep, Fetch, Works, Indexes, Codes, Delivers, DeliveryStep,
         DeliveryTrouble, CommitWork, DescribeFails, AuthAnswers, UpstreamAnswers,
         ForkAnswers, CreateAnswers, PatchAnswers, Record, CallFails,
         RecordFails, Feedback, deliveryVars, github
<1> QED BY <1>1, <1>2

OpenOf(j) ==
  /\ at[j] = "patch" => pr[j]
  /\ at[j] = "record" => open[taskOf[j]]
  /\ pr[j] => open[taskOf[j]]

LEMMA OpensOwn ==
  ASSUME TypeInv, OpenInv, NEW j \in Jobs, JobStep(j)
  PROVE  OpenOf(j)'
<1> USE DEF Goes, NodeRaises, deliveryVars, github
<1>1. /\ taskOf[j] \in Tasks /\ at \in [Jobs -> Places] /\ open \in [Tasks -> BOOLEAN]
      /\ pr \in [Jobs -> BOOLEAN]
  BY DeliveryTyped DEF TypeInv
<1>2. /\ open[taskOf[j]] => open'[taskOf[j]]
      /\ taskOf' = taskOf
  BY <1>1, OpenStays, JobMoves DEF TypeInv
<1>3. /\ at[j] = "patch" => pr[j]
      /\ at[j] = "record" => open[taskOf[j]]
      /\ pr[j] => open[taskOf[j]]
  BY DEF OpenInv
<1>4. ASSUME pr'[j] = pr[j], at'[j] \notin {"patch", "record"} PROVE OpenOf(j)'
  BY <1>2, <1>3, <1>4 DEF OpenOf
<1>5. ASSUME DeliveryEndsBadly(j) PROVE OpenOf(j)'
  <2>1. ~pr'[j] /\ at'[j] = "feedback"
    BY <1>1, <1>5 DEF DeliveryEndsBadly
  <2> QED BY <2>1 DEF OpenOf
<1>6. CASE \/ Fetch(j) \/ Works(j) \/ Indexes(j) \/ Codes(j)
           \/ Feedback(j) /\ UNCHANGED <<indexVars, fetches>>
  <2>1. pr' = pr /\ at'[j] \notin Holding
    BY <1>6, NotDelivering DEF TypeInv
  <2> QED BY <1>4, <2>1 DEF Holding
<1>7. CASE CommitWork(j) \/ DescribeFails(j) \/ AuthAnswers(j)
  <2>1. \/ DeliveryEndsBadly(j)
        \/ pr' = pr /\ at'[j] \in {"auth", "upstream"}
    BY <1>1, <1>7 DEF CommitWork, DescribeFails, AuthAnswers
  <2> QED BY <1>4, <1>5, <2>1
<1>8. CASE UpstreamAnswers(j) \/ ForkAnswers(j)
  <2>1. /\ pr' = pr /\ at'[j] \in {"patch", "fork", "create"}
        /\ at'[j] = "patch" => pr[j]
    BY <1>1, <1>8 DEF UpstreamAnswers, ForkAnswers, KnownPR
  <2> QED BY <1>2, <1>3, <2>1 DEF OpenOf
<1>9. CASE CreateAnswers(j) \/ CallFails(j)
  <2>1. \/ DeliveryEndsBadly(j)
        \/ pr' = pr /\ at'[j] = "record" /\ open'[taskOf[j]]
    BY <1>1, <1>9 DEF CreateAnswers, CallFails
  <2> QED BY <1>3, <1>5, <2>1, <1>2 DEF OpenOf
<1>10. CASE PatchAnswers(j) \/ Record(j)
  <2>1. /\ open' = open /\ open[taskOf[j]]
        /\ at'[j] \in {"record", "feedback"}
    BY <1>1, <1>3, <1>10 DEF PatchAnswers, Record
  <2> QED BY <1>2, <2>1 DEF OpenOf
<1>11. CASE RecordFails(j)
  <2>1. pr' = pr /\ at'[j] \in {"deliver", "failed"}
    BY <1>1, <1>11 DEF RecordFails
  <2> QED BY <1>4, <2>1
<1> QED
  BY <1>6, <1>7, <1>8, <1>9, <1>10, <1>11
  DEF JobStep, Delivers, DeliveryStep, DeliveryTrouble

LEMMA OpenKept == TypeInv /\ OpenInv /\ [Next]_vars => OpenInv'
<1> SUFFICES ASSUME TypeInv, OpenInv, [Next]_vars PROVE OpenInv'
  OBVIOUS
<1>1. TypeOK
  BY DEF TypeInv
<1>2. CASE UNCHANGED vars
  BY <1>2, Untouched DEF OpenInv
<1>3. CASE Crash
  BY <1>3, CrashMoves DEF OpenInv, Ended
<1>4. ASSUME NEW j \in Jobs, Start(j) PROVE OpenInv'
  BY <1>1, <1>4, StartMoves DEF OpenInv
<1>5. ASSUME NEW j \in Jobs, JobStep(j) PROVE OpenInv'
  <2> SUFFICES ASSUME NEW k \in Jobs PROVE OpenOf(k)'
    BY DEF OpenInv, OpenOf
  <2>1. CASE k = j
    BY <1>5, <2>1, OpensOwn
  <2>2. CASE k # j
    <3>1. at'[k] = at[k] /\ pr'[k] = pr[k] /\ taskOf' = taskOf
      BY <1>1, <1>5, <2>2, JobMoves, OthersDelivery
    <3>2. open[taskOf[k]] => open'[taskOf[k]]
      BY <1>1, <1>5, OpenStays, DeliveryTyped
    <3> QED BY <3>1, <3>2 DEF OpenInv, OpenOf
  <2> QED BY <2>1, <2>2
<1> QED BY <1>2, <1>3, <1>4, <1>5, NextCases
-----------------------------------------------------------------------------
(* What is indexed of a commit is replaced, and lost only if there is      *)
(* nothing of it to store.                                                 *)
LEMMA CommitStaysIndexed ==
  ASSUME TypeInv, IndexInv, NEW j \in Jobs, JobStep(j), NEW c, Stored(c)
  PROVE  Stored(c)'
<1>1. barren \subseteq barren'
  BY IndexGrows
<1>2. CASE CommitIndex(j)
  <2> DEFINE o == reading[j].copy
  <2>1. /\ rows' = (rows \ reading[j].old) \union (IF o.size > 0 THEN {o} ELSE {})
        /\ barren' = barren \union (IF o.size = 0 THEN {o.commit} ELSE {})
    BY <1>2 DEF CommitIndex
  <2>2. o.size = 0 \/ o.size > 0
    <3>1. reading[j].copy.size \in {0, Chunks}
      BY CopyTypes DEF TypeInv
    <3> QED BY <3>1, ChunkBound
  <2>3. \A r \in reading[j].old : r.commit = o.commit
    BY DEF IndexInv
  <2> HIDE DEF o
  <2> QED BY <2>1, <2>2, <2>3 DEF Stored
<1>3. CASE UNCHANGED rows
  BY <1>1, <1>3 DEF Stored
<1> QED
  BY <1>2, <1>3
  DEF JobStep, Fetch, Works, Indexes, IndexStep, ReadTree, DeleteStarts, DeleteEnds,
      Embed, IndexCollides, IndexFails, Retrieve, RetrieveFails, Indexed, Codes,
      Delivers, indexVars

ReadingOf(j) ==
  /\ reading[j].copy.by[1] = j
  /\ at[j] \notin {"lock", "embed"} => reading[j].old = {}
  /\ \A r \in reading[j].old : r.commit = reading[j].copy.commit
  /\ at[j] \in {"delete", "lock", "embed"} =>
       reading[j].copy.size \in Sizes(reading[j].copy)

StoredOf(j) == at[j] = "planner" => \A c \in sha[j] : Stored(c)

SoleOf(j) ==
  Sole(j) => /\ j \notin collided
             /\ at[j] \in {"lock", "embed"} => OldRows(j) \subseteq reading[j].old

LEMMA IndexParts ==
  IndexInv <=> /\ OneWholeCopy
               /\ \A j \in Jobs : ReadingOf(j) /\ StoredOf(j) /\ SoleOf(j)
  BY DEF IndexInv, ReadingOf, StoredOf, SoleOf

LEMMA NothingRead ==
  ASSUME NEW j \in Jobs
  PROVE  Nothing(j).copy.by[1] = j /\ Nothing(j).old = {}
  BY DEF Nothing

(* The steps that leave the index alone.                                   *)
LEMMA NotIndexing ==
  ASSUME TypeOK, NEW j \in Jobs,
         Fetch(j) \/ Works(j) \/ Codes(j) \/ Delivers(j)
  PROVE  /\ UNCHANGED <<blank, rows, reading, sha, collided, barren>>
         /\ at[j] \notin {"delete", "lock", "embed"}
         /\ at'[j] \notin {"delete", "lock", "embed", "planner", "coder"}
<1> USE DEF Goes, NodeRaises, Holding, indexVars
<1>1. at \in [Jobs -> Places]
  BY WorkTyped
<1>2. CASE Fetch(j)
  BY <1>1, <1>2 DEF Fetch
<1>3. CASE Works(j)
  BY <1>1, <1>3 DEF Works, RepositoryNode, CloneStep, CloneBegins, CloneFetched,
                    CloneEnds, CloneFails
<1>4. CASE Codes(j)
  BY <1>1, <1>4 DEF Codes, WriteChanges
<1>5. CASE Delivers(j)
  <2>1. UNCHANGED <<blank, rows, reading, sha, collided, barren>>
    BY <1>5 DEF Delivers
  <2>2. at[j] \notin {"delete", "lock", "embed"}
    BY <1>5 DEF Delivers, DeliveryStep, DeliveryTrouble, CommitWork, DescribeFails,
                AuthAnswers, UpstreamAnswers, ForkAnswers, CreateAnswers,
                PatchAnswers, Record, CallFails, RecordFails, Feedback
  <2>3. at'[j] \notin {"delete", "lock", "embed", "planner", "coder"}
    BY <1>1, <1>5 DEF Delivers, DeliveryStep, DeliveryTrouble, CommitWork,
                DescribeFails, AuthAnswers, UpstreamAnswers, ForkAnswers,
                CreateAnswers, PatchAnswers, Record, CallFails, RecordFails,
                Feedback, DeliveryEndsBadly
  <2> QED BY <2>1, <2>2, <2>3
<1> QED BY <1>2, <1>3, <1>4, <1>5

(* What a transaction commits is whole, and nothing of the same kind       *)
(* stands beside it: the unique constraint would have refused it.          *)
LEMMA CommitsOne ==
  ASSUME TypeInv, OneWholeCopy, NEW j \in Jobs, ReadingOf(j), CommitIndex(j)
  PROVE  OneWholeCopy'
<1> DEFINE o == reading[j].copy
<1>1. /\ rows' = (rows \ reading[j].old) \union (IF o.size > 0 THEN {o} ELSE {})
      /\ at[j] = "embed" /\ o.chunks = o.size /\ ~MustClash(j)
      /\ blank' = blank
  BY DEF CommitIndex, Flushes, Indexed
<1>2. /\ \A r \in rows : r.chunks = r.size
      /\ \A r, q \in rows :
           r.commit = q.commit /\ r.commit \notin blank /\ Whole(r) /\ Whole(q)
             => r = q
  BY DEF OneWholeCopy
<1>3. ASSUME NEW r \in rows \ reading[j].old, r.commit = o.commit,
             r.commit \notin blank, Whole(r), Whole(o)
      PROVE  FALSE
  <2>1. o.size \in Sizes(o)
    BY <1>1 DEF ReadingOf
  <2>2. o.size = Chunks /\ Chunks > 0
    BY <1>3, <2>1, ChunkBound DEF Sizes
  <2> QED BY <1>1, <1>3, <2>2 DEF MustClash, Clashing
<1>4. \A r \in rows' : r.chunks = r.size
  BY <1>1, <1>2
<1> HIDE DEF o
<1>5. \A r, q \in rows' :
        r.commit = q.commit /\ r.commit \notin blank' /\ Whole(r) /\ Whole(q)
          => r = q
  <2> SUFFICES ASSUME NEW r \in rows', NEW q \in rows', r.commit = q.commit,
                      r.commit \notin blank, Whole(r), Whole(q)
               PROVE  r = q
    BY <1>1
  <2>1. /\ r = o \/ r \in rows \ reading[j].old
        /\ q = o \/ q \in rows \ reading[j].old
    BY <1>1
  <2> QED BY <1>2, <1>3, <2>1
<1> QED BY <1>4, <1>5 DEF OneWholeCopy, Whole

LEMMA IndexesOwn ==
  ASSUME TypeInv, IndexInv, NEW j \in Jobs, JobStep(j)
  PROVE  OneWholeCopy' /\ ReadingOf(j)' /\ StoredOf(j)'
<1> USE DEF Goes, NoTrouble
<1>1. /\ at \in [Jobs -> Places]
      /\ reading \in [Jobs -> Reading] /\ rows \subseteq Copies
      /\ sha \in [Jobs -> SUBSET Commits] /\ context \in [Jobs -> SUBSET Commits]
      /\ reading[j] = [copy |-> reading[j].copy, old |-> reading[j].old]
  BY WorkTyped, CopyTypes DEF TypeInv
<1>2. OneWholeCopy /\ ReadingOf(j) /\ StoredOf(j)
  BY IndexParts
<1>3. blank' = blank
  BY IndexGrows
<1>4. UNCHANGED rows => OneWholeCopy'
  BY <1>2, <1>3 DEF OneWholeCopy, Whole
<1>5. CASE Fetch(j) \/ Works(j) \/ Codes(j) \/ Delivers(j)
  <2>1. /\ UNCHANGED <<rows, reading, sha>>
        /\ at[j] \notin {"delete", "lock", "embed"}
        /\ at'[j] \notin {"delete", "lock", "embed", "planner", "coder"}
    BY <1>5, NotIndexing DEF TypeInv
  <2> QED BY <1>2, <1>4, <2>1 DEF ReadingOf, StoredOf
<1>6. ASSUME NEW c, Indexed(j, c)
      PROVE  at'[j] = "planner" /\ sha'[j] = c /\ ReadingOf(j)'
  <2>1. at'[j] = "planner" /\ sha'[j] = c /\ reading'[j] = Nothing(j)
    BY <1>1, <1>6 DEF Indexed
  <2> QED BY <2>1, NothingRead DEF ReadingOf
<1>7. CASE (ReadTree(j) /\ ~HasHead(taskOf[j])) \/ IndexFails(j) \/ IndexCollides(j)
  <2>1. Indexed(j, {}) /\ UNCHANGED rows
    BY <1>7 DEF ReadTree, IndexFails, IndexCollides
  <2> QED BY <1>4, <1>6, <2>1 DEF StoredOf
<1>8. CASE ReadTree(j) /\ HasHead(taskOf[j])
  <2>1. /\ at[j] = "read" /\ at'[j] = "delete" /\ UNCHANGED rows
    BY <1>1, <1>8, ReadMoves DEF TypeInv
  <2>2. PICK c \in Copies :
          /\ reading' = [reading EXCEPT ![j] = [copy |-> c, old |-> reading[j].old]]
          /\ c.by[1] = j /\ c.size \in Sizes(c)
    BY <1>8, ReadMoves DEF TypeInv
  <2>3. reading'[j].copy = c /\ reading'[j].old = {}
    BY <1>1, <1>2, <2>1, <2>2 DEF ReadingOf
  <2>4. c.size \in Sizes(c)'
    BY <1>3, <2>2 DEF Sizes, Whole
  <2>5. Sizes(c)' = Sizes(reading[j].copy)'
    BY <2>3 DEF Sizes, Whole
  <2> QED BY <1>4, <2>1, <2>2, <2>3, <2>4, <2>5 DEF ReadingOf, StoredOf
<1>9. ASSUME reading'[j].copy.commit = reading[j].copy.commit,
             reading'[j].copy.extra = reading[j].copy.extra,
             reading'[j].copy.size = reading[j].copy.size,
             at[j] \in {"delete", "lock", "embed"}
      PROVE  reading'[j].copy.size \in Sizes(reading[j].copy)'
  BY <1>2, <1>3, <1>9 DEF Sizes, Whole, ReadingOf
<1>10. CASE DeleteStarts(j)
  <2>1. /\ reading' = [reading EXCEPT ![j].old = OldRows(j)]
        /\ at[j] = "delete" /\ at'[j] = "lock" /\ UNCHANGED rows
    BY <1>1, <1>10 DEF DeleteStarts
  <2>2. reading'[j].copy = reading[j].copy /\ reading'[j].old = OldRows(j)
    BY <1>1, <2>1
  <2>3. reading'[j].copy.size \in Sizes(reading[j].copy)'
    BY <1>9, <2>1, <2>2
  <2> QED BY <1>2, <1>4, <2>1, <2>2, <2>3 DEF ReadingOf, StoredOf, OldRows
<1>11. CASE DeleteEnds(j)
  <2>1. at'[j] = "embed" /\ at[j] = "lock" /\ UNCHANGED <<rows, reading>>
    BY <1>1, <1>11 DEF DeleteEnds, indexVars
  <2>2. reading'[j].copy.size \in Sizes(reading[j].copy)'
    BY <1>9, <2>1
  <2> QED BY <1>2, <1>4, <2>1, <2>2 DEF ReadingOf, StoredOf
<1>12. CASE Embed(j)
  <2>1. at[j] = "embed" /\ at' = at /\ UNCHANGED rows
    BY <1>12, EmbedMoves DEF TypeInv
  <2>2. PICK c \in Copies :
          /\ reading' = [reading EXCEPT ![j] = [copy |-> c, old |-> reading[j].old]]
          /\ c.commit = reading[j].copy.commit /\ c.extra = reading[j].copy.extra
          /\ c.by = reading[j].copy.by /\ c.size = reading[j].copy.size
    BY <1>12, EmbedMoves DEF TypeInv
  <2>3. reading'[j].copy = c /\ reading'[j].old = reading[j].old
    BY <1>1, <2>2
  <2>4. reading'[j].copy.size \in Sizes(reading[j].copy)'
    BY <1>9, <2>1, <2>2, <2>3
  <2> QED BY <1>2, <1>4, <2>1, <2>2, <2>3, <2>4 DEF ReadingOf, StoredOf
<1>13. CASE CommitIndex(j)
  <2> DEFINE o == reading[j].copy
  <2>1. /\ rows' = (rows \ reading[j].old) \union (IF o.size > 0 THEN {o} ELSE {})
        /\ barren' = barren \union (IF o.size = 0 THEN {o.commit} ELSE {})
        /\ Indexed(j, {o.commit})
    BY <1>13 DEF CommitIndex
  <2>2. o.size = 0 \/ o.size > 0
    <3>1. reading[j].copy.size \in {0, Chunks}
      BY CopyTypes DEF TypeInv
    <3> QED BY <3>1, ChunkBound
  <2> HIDE DEF o
  <2>3. (\E r \in rows' : r.commit = o.commit) \/ o.commit \in barren'
    BY <2>1, <2>2
  <2>4. sha'[j] = {o.commit} /\ ReadingOf(j)'
    BY <1>6, <2>1
  <2>5. StoredOf(j)'
    BY <2>3, <2>4 DEF StoredOf, Stored
  <2> QED BY <1>2, <1>13, <2>4, <2>5, CommitsOne
<1>14. CASE Retrieve(j) \/ RetrieveFails(j)
  <2>1. /\ at[j] = "planner" /\ at'[j] = "coder" /\ UNCHANGED <<rows, reading, sha>>
    BY <1>1, <1>14 DEF Retrieve, RetrieveFails
  <2> QED BY <1>2, <1>4, <2>1 DEF ReadingOf, StoredOf
<1> QED
  BY <1>5, <1>7, <1>8, <1>10, <1>11, <1>12, <1>13, <1>14
  DEF JobStep, Indexes, IndexStep

(* A job that has the repository for itself is never refused.              *)
LEMMA SoleKept ==
  ASSUME TypeInv, NEW j \in Jobs, JobStep(j), SoleOf(j)
  PROVE  SoleOf(j)'
<1> USE DEF Goes, NoTrouble
<1> SUFFICES ASSUME Sole(j)' PROVE SoleOf(j)'
  BY DEF SoleOf
<1>1. /\ at \in [Jobs -> Places] /\ reading \in [Jobs -> Reading]
      /\ reading[j] = [copy |-> reading[j].copy, old |-> reading[j].old]
  BY WorkTyped, CopyTypes DEF TypeInv
<1>2. \A k \in Jobs \ {j} : at[k] = "idle"
  BY JobMoves DEF Sole, TypeInv
<1>3. /\ j \notin collided
      /\ at[j] \in {"lock", "embed"} => OldRows(j) \subseteq reading[j].old
  BY <1>2 DEF SoleOf, Sole
<1>4. ASSUME UNCHANGED collided, at'[j] \notin {"lock", "embed"} PROVE SoleOf(j)'
  BY <1>3, <1>4 DEF SoleOf
<1>5. CASE Fetch(j) \/ Works(j) \/ Codes(j) \/ Delivers(j)
  BY <1>4, <1>5, NotIndexing DEF TypeInv
<1>6. CASE ReadTree(j) \/ IndexFails(j) \/ Retrieve(j) \/ RetrieveFails(j)
  BY <1>1, <1>4, <1>6 DEF ReadTree, IndexFails, Retrieve, RetrieveFails, Indexed
<1>7. CASE DeleteStarts(j)
  <2>1. /\ reading' = [reading EXCEPT ![j].old = OldRows(j)]
        /\ UNCHANGED <<rows, collided>>
    BY <1>7 DEF DeleteStarts
  <2>2. reading'[j].copy = reading[j].copy /\ reading'[j].old = OldRows(j)
    BY <1>1, <2>1
  <2> QED BY <1>3, <2>1, <2>2 DEF SoleOf, OldRows
<1>8. CASE DeleteEnds(j)
  BY <1>3, <1>8 DEF DeleteEnds, indexVars, SoleOf, OldRows
<1>9. CASE Embed(j)
  <2>1. at[j] = "embed" /\ UNCHANGED <<rows, collided>>
    BY <1>9, EmbedMoves DEF TypeInv
  <2>2. /\ reading'[j].copy.commit = reading[j].copy.commit
        /\ reading'[j].old = reading[j].old
    BY <1>1, <1>9, EmbedMoves DEF TypeInv
  <2> QED BY <1>3, <2>1, <2>2 DEF SoleOf, OldRows
<1>10. CASE CommitIndex(j)
  <2>1. at'[j] = "planner" /\ collided' = collided \ {j}
    BY <1>1, <1>10 DEF CommitIndex, Indexed
  <2> QED BY <2>1 DEF SoleOf
<1>11. ~IndexCollides(j)
  <2>1. ~Entangled(j)
    BY <1>2 DEF Entangled, Flushes
  <2>2. at[j] = "embed" => Clashing(j) = {}
    BY <1>3 DEF Clashing, OldRows
  <2> QED BY <2>1, <2>2 DEF IndexCollides, Flushes
<1> QED
  BY <1>5, <1>6, <1>7, <1>8, <1>9, <1>10, <1>11 DEF JobStep, Indexes, IndexStep

LEMMA IndexKept == TypeInv /\ IndexInv /\ [Next]_vars => IndexInv'
<1> SUFFICES ASSUME TypeInv, IndexInv, [Next]_vars PROVE IndexInv'
  OBVIOUS
<1>1. TypeOK /\ OneWholeCopy
  BY DEF TypeInv, IndexInv
<1>2. \A k \in Jobs : ReadingOf(k) /\ StoredOf(k) /\ SoleOf(k)
  BY IndexParts
<1>3. SUFFICES /\ OneWholeCopy'
               /\ \A k \in Jobs : ReadingOf(k)' /\ StoredOf(k)' /\ SoleOf(k)'
  BY <1>3 DEF IndexInv, ReadingOf, StoredOf, SoleOf
<1>4. ASSUME UNCHANGED <<blank, rows, barren>>
      PROVE  /\ OneWholeCopy'
             /\ \A c : Stored(c)' <=> Stored(c)
             /\ \A c : Sizes(c)' = Sizes(c)
  BY <1>1, <1>4 DEF OneWholeCopy, Whole, Stored, Sizes
<1>5. CASE UNCHANGED vars
  <2>1. UNCHANGED <<at, blank, rows, reading, sha, collided, barren>>
    BY <1>5, Untouched
  <2>2. ASSUME NEW k \in Jobs PROVE ReadingOf(k)' /\ StoredOf(k)' /\ SoleOf(k)'
    BY <1>2, <1>4, <2>1 DEF ReadingOf, StoredOf, SoleOf, Sole, OldRows, Sizes, Whole
  <2> QED BY <1>4, <2>1, <2>2
<1>6. CASE Crash
  <2>1. UNCHANGED <<blank, rows, collided, barren>>
    BY <1>6, CrashMoves
  <2>2. ASSUME NEW k \in Jobs PROVE ReadingOf(k)' /\ StoredOf(k)' /\ SoleOf(k)'
    <3>1. reading'[k] = Nothing(k)
      BY <1>6, CrashMoves
    <3>2. at'[k] \notin {"delete", "lock", "embed", "planner"}
      BY <1>6, CrashMoves DEF Ended
    <3>3. Sole(k)' => Sole(k)
      BY <1>6, CrashMoves DEF Sole
    <3> QED BY <1>2, <2>1, <3>1, <3>2, <3>3, NothingRead
            DEF ReadingOf, StoredOf, SoleOf
  <2> QED BY <1>4, <2>1, <2>2
<1>7. ASSUME NEW j \in Jobs, Start(j)
      PROVE  /\ OneWholeCopy'
             /\ \A k \in Jobs : ReadingOf(k)' /\ StoredOf(k)' /\ SoleOf(k)'
  <2>1. /\ UNCHANGED <<blank, rows, reading, sha, collided, barren>>
        /\ at[j] = "idle" /\ at'[j] = "discover"
        /\ \A k \in Jobs \ {j} : at'[k] = at[k]
    BY <1>1, <1>7, StartMoves
  <2>2. ASSUME NEW k \in Jobs PROVE ReadingOf(k)' /\ StoredOf(k)'
    <3>1. CASE k = j
      BY <1>2, <2>1, <3>1 DEF ReadingOf, StoredOf
    <3>2. CASE k # j
      BY <1>2, <1>4, <2>1, <3>2 DEF ReadingOf, StoredOf, Sizes, Whole
    <3> QED BY <3>1, <3>2
  <2>3. ASSUME NEW k \in Jobs PROVE SoleOf(k)'
    <3>1. CASE k = j
      BY <1>2, <2>1, <3>1 DEF SoleOf, Sole
    <3>2. CASE k # j
      BY <2>1, <3>2 DEF SoleOf, Sole
    <3> QED BY <3>1, <3>2
  <2> QED BY <1>4, <2>1, <2>2, <2>3
<1>8. ASSUME NEW j \in Jobs, JobStep(j)
      PROVE  /\ OneWholeCopy'
             /\ \A k \in Jobs : ReadingOf(k)' /\ StoredOf(k)' /\ SoleOf(k)'
  <2>1. OneWholeCopy' /\ ReadingOf(j)' /\ StoredOf(j)' /\ SoleOf(j)'
    BY <1>2, <1>8, IndexesOwn, SoleKept
  <2>2. ASSUME NEW k \in Jobs \ {j} PROVE ReadingOf(k)' /\ StoredOf(k)' /\ SoleOf(k)'
    <3>1. /\ at'[k] = at[k] /\ reading'[k] = reading[k] /\ sha'[k] = sha[k]
          /\ at'[j] # "idle" /\ blank' = blank
      BY <1>1, <1>8, <2>2, JobMoves, OthersIndex, IndexGrows
    <3>2. \A c : Stored(c) => Stored(c)'
      BY <1>8, CommitStaysIndexed
    <3>3. ReadingOf(k)'
      <4>1. Sizes(reading[k].copy)' = Sizes(reading[k].copy)
        BY <3>1 DEF Sizes, Whole
      <4> QED BY <1>2, <3>1, <4>1 DEF ReadingOf
    <3>4. StoredOf(k)'
      <4>1. at[k] = "planner" => \A c \in sha[k] : Stored(c)'
        BY <1>2, <3>2 DEF StoredOf
      <4> QED BY <3>1, <4>1 DEF StoredOf
    <3>5. SoleOf(k)'
      BY <3>1 DEF SoleOf, Sole
    <3> QED BY <3>3, <3>4, <3>5
  <2> QED BY <2>1, <2>2
<1> QED BY <1>5, <1>6, <1>7, <1>8, NextCases
-----------------------------------------------------------------------------
(* A job that has its task for itself has always had it.                   *)
LEMMA AloneBefore ==
  ASSUME TypeOK, [Next]_vars, NEW k \in Jobs, Alone(k)'
  PROVE  Alone(k)
<1>1. taskOf' = taskOf
  <2>1. \A j \in Jobs : Start(j) => taskOf' = taskOf
    BY StartMoves
  <2>2. \A j \in Jobs : JobStep(j) => taskOf' = taskOf
    BY JobMoves
  <2> QED BY <2>1, <2>2, CrashMoves, Untouched, NextCases
<1>2. \A l \in Jobs : at'[l] = "idle" => at[l] = "idle"
  <2>1. CASE UNCHANGED vars
    BY <2>1, Untouched
  <2>2. CASE Crash
    BY <2>2, CrashMoves
  <2>3. ASSUME NEW j \in Jobs, Start(j)
        PROVE  \A l \in Jobs : at'[l] = "idle" => at[l] = "idle"
    BY <2>3, StartMoves
  <2>4. ASSUME NEW j \in Jobs, JobStep(j)
        PROVE  \A l \in Jobs : at'[l] = "idle" => at[l] = "idle"
    BY <2>4, JobMoves
  <2> QED BY <2>1, <2>2, <2>3, <2>4, NextCases
<1> QED BY <1>1, <1>2 DEF Alone, Mates

LEMMA MateSeen ==
  ASSUME TypeOK, NEW j \in Jobs, Start(j) \/ JobStep(j), NEW k \in Jobs \ {j}, Alone(k)'
  PROVE  taskOf[k] # taskOf[j]
<1>1. taskOf' = taskOf /\ at'[j] # "idle"
  BY StartMoves, JobMoves
<1> QED BY <1>1 DEF Alone, Mates

LEMMA SkippedStays ==
  ASSUME NEW j \in Jobs, JobStep(j)
  PROVE  skipped \subseteq skipped'
  BY DEF JobStep, Fetch, Works, Indexes, Codes, Delivers, DeliveryStep,
         DeliveryTrouble, CommitWork, DescribeFails, AuthAnswers, UpstreamAnswers,
         ForkAnswers, CreateAnswers, PatchAnswers, Record, CallFails,
         RecordFails, Feedback, deliveryVars

StageOf(j) == LET t == taskOf[j] IN
  /\ at[j] \in {"idle", "discover", "clone"} => ~Occupied(t)
  /\ at[j] = "repository" => ~Occupied(t) \/ tree[t].stage = "ready"
  /\ at[j] \in {"fetch", "checkout"} => tree[t].edits = 0
  /\ at[j] \in Cloned => tree[t].stage = "ready"

CopyOf(j) == at[j] \in {"delete", "lock", "embed"} => Whole(reading[j].copy)

FilesOf(j) == LET t == taskOf[j] IN
  Alone(j) =>
    /\ StageOf(j)
    /\ t \notin skipped \union torn =>
         /\ at[j] \in Committed => tree[t].edits = tree[t].head
         /\ CopyOf(j)

(* Steps of a job alone on the files, from what it knows of them.          *)
LEMMA StageKept ==
  ASSUME TypeInv, CloneInv, NEW j \in Jobs, JobStep(j), StageOf(j)
  PROVE  /\ StageOf(j)'
         /\ (at[j] \in Committed => tree[taskOf[j]].edits = tree[taskOf[j]].head)
            /\ ~DescribeFails(j) /\ ~TearsClone(j)
              => (at'[j] \in Committed =>
                    tree'[taskOf[j]].edits = tree'[taskOf[j]].head)
<1> DEFINE t == taskOf[j]
<1> USE DEF Goes, NodeRaises
<1>1. /\ t \in Tasks /\ at \in [Jobs -> Places] /\ taskOf' = taskOf
      /\ tree[t].head \in Nat /\ tree[t].edits \in Nat
      /\ tree[t].ignored \in BOOLEAN
  BY WorkTyped, JobMoves DEF TypeInv
<1>2. /\ at[j] \in {"idle", "discover", "clone"} => ~Occupied(t)
      /\ at[j] = "repository" => ~Occupied(t) \/ tree[t].stage = "ready"
      /\ at[j] \in {"fetch", "checkout"} => tree[t].edits = 0
      /\ at[j] \in Cloned => tree[t].stage = "ready"
  BY DEF StageOf
<1>3. /\ tree[t].head <= tree[t].edits
      /\ tree[t].stage # "ready" => tree[t].head = 0
      /\ at[j] = "checkout" => tree[t].stage = "checkout"
  BY <1>1 DEF CloneInv
<1>4. ~Occupied(t) => /\ tree[t].stage = "absent" /\ tree[t].edits = 0
                      /\ tree[t].head = 0 /\ ~tree[t].ignored
  BY <1>1, <1>3 DEF Occupied
<1>5. SUFFICES
        /\ at'[j] \in {"idle", "discover", "clone"} =>
             tree'[t].stage = "absent" /\ ~(tree'[t].edits > 0) /\ ~tree'[t].ignored
        /\ at'[j] = "repository" =>
             \/ tree'[t].stage = "absent" /\ ~(tree'[t].edits > 0) /\ ~tree'[t].ignored
             \/ tree'[t].stage = "ready"
        /\ at'[j] \in {"fetch", "checkout"} => tree'[t].edits = 0
        /\ at'[j] \in Cloned => tree'[t].stage = "ready"
        /\ (at[j] \in Committed => tree[t].edits = tree[t].head)
           /\ ~DescribeFails(j) /\ ~TearsClone(j)
             => (at'[j] \in Committed => tree'[t].edits = tree'[t].head)
  BY <1>1, <1>5 DEF StageOf, Occupied
<1> HIDE DEF t
<1>6. CASE BeginsClone(j)
  BY <1>4, <1>6 DEF BeginsClone, Keeps, Cloned, Committed, t
<1>7. CASE FetchesClone(j)
  BY <1>2, <1>7 DEF FetchesClone, Keeps, Cloned, Committed, t
<1>8. CASE EndsClone(j)
  <2>1. /\ at'[j] = "read" /\ tree'[t].stage = "ready"
        /\ tree'[t].edits = 0 /\ tree'[t].head = 0
    BY <1>2, <1>3, <1>8 DEF EndsClone, t
  <2> QED BY <2>1
<1>9. CASE LosesClone(j)
  <2>1. /\ at'[j] \in {"repository", "failed"}
        /\ tree'[t].stage = "absent" /\ tree'[t].edits = 0 /\ tree'[t].head = 0
        /\ ~tree'[t].ignored
    BY <1>9 DEF LosesClone, t
  <2> QED BY <2>1 DEF Cloned
<1>10. CASE Edits(j)
  BY <1>2, <1>10 DEF Edits, Cloned, Committed, t
<1>11. CASE CommitsEdits(j)
  BY <1>11 DEF CommitsEdits, Committed, t
<1>12. CASE Quiet(j)
  <2>1. tree' = tree /\ at[j] \notin {"fetch", "checkout"}
    BY <1>12 DEF Quiet
  <2>2. CASE /\ ~Occupied(t)
             /\ at'[j] \in {"discover", "repository", "clone", "failed"}
    BY <1>4, <2>1, <2>2 DEF Cloned
  <2>3. CASE /\ tree[t].stage = "ready"
             /\ at'[j] \in Cloned \union {"repository", "done", "failed"}
             /\ (at[j] \in Committed => tree[t].edits = tree[t].head)
                /\ ~DescribeFails(j) /\ ~TearsClone(j)
                  => (at'[j] \in Committed => tree[t].edits = tree[t].head)
    <3>1. at'[j] \notin {"idle", "discover", "clone", "fetch", "checkout"}
      BY <2>3 DEF Cloned
    <3> QED BY <2>1, <2>3, <3>1
  <2>4. CASE Fetch(j)
    <3>1. at[j] = "discover" /\ at'[j] \in {"discover", "repository", "failed"}
      BY <1>1, <2>4 DEF Fetch
    <3> QED BY <1>2, <2>2, <3>1
  <2>5. CASE RepositoryNode(j)
    <3>1. /\ at[j] = "repository"
          /\ at'[j] = IF Occupied(t) THEN "read" ELSE "clone"
      BY <1>1, <2>5 DEF RepositoryNode, t
    <3> QED BY <1>2, <2>2, <2>3, <3>1 DEF Cloned, Committed
  <2>6. CASE CloneStep(j) \/ CloneFails(j)
    <3>1. at[j] = "clone"
      BY <2>1, <2>6 DEF CloneStep, CloneBegins, CloneFetched, CloneEnds, CloneFails
    <3>2. at'[j] \in {"repository", "failed", "fetch"}
      BY <1>1, <2>6, <3>1 DEF CloneStep, CloneBegins, CloneFetched, CloneEnds,
                              CloneFails
    <3> QED BY <1>2, <1>12, <2>2, <3>1, <3>2 DEF Quiet
  <2>7. CASE Indexes(j)
    <3>1. /\ at[j] \in {"read", "delete", "lock", "embed", "planner"}
          /\ at'[j] \in {"delete", "lock", "embed", "planner", "coder"}
      BY <1>1, <2>7 DEF Indexes, IndexStep, ReadTree, DeleteStarts, DeleteEnds,
                        Embed, CommitIndex, IndexCollides, IndexFails, Retrieve, RetrieveFails,
                        Indexed, Flushes
    <3> QED BY <1>2, <2>3, <3>1 DEF Cloned, Committed
  <2>8. CASE Codes(j)
    <3>1. at[j] = "coder" /\ at'[j] = "deliver"
      BY <1>1, <2>8 DEF Codes, WriteChanges
    <3> QED BY <1>2, <2>3, <3>1 DEF Cloned, Committed
  <2>9. CASE CommitWork(j)
    <3>1. /\ at[j] = "deliver"
          /\ tree[t].stage = "ready" => /\ at'[j] = "auth"
                                        /\ tree' = [tree EXCEPT ![t].branch = TRUE,
                                                    ![t].head = tree[t].edits]
      BY <1>1, <2>9 DEF CommitWork, CommitsAll, t
    <3>2. tree'[t].head = tree[t].edits /\ tree[t].stage = "ready"
      <4>1. tree \in [Tasks -> Directory] /\ tree[t].stage = "ready"
        BY <1>2, <3>1, WorkTyped DEF Cloned, TypeInv
      <4> QED BY <1>1, <3>1, <4>1 DEF Directory
    <3> QED BY <2>1, <2>3, <3>1, <3>2 DEF Cloned
  <2>10. CASE DescribeFails(j)
    <3>1. at[j] = "deliver" /\ at'[j] = "feedback"
      BY <1>1, <2>10 DEF DescribeFails, DeliveryEndsBadly
    <3> QED BY <1>2, <2>3, <2>10, <3>1 DEF Cloned
  <2>11. CASE \/ AuthAnswers(j) \/ UpstreamAnswers(j) \/ ForkAnswers(j)
              \/ CreateAnswers(j) \/ PatchAnswers(j) \/ Record(j)
              \/ CallFails(j) \/ RecordFails(j)
    <3>1. /\ at[j] \in Holding
          /\ at'[j] \in Holding \union {"feedback", "deliver", "failed"}
      BY <1>1, <2>11 DEF AuthAnswers, UpstreamAnswers, ForkAnswers, CreateAnswers,
                         PatchAnswers, Record, CallFails, RecordFails,
                         DeliveryEndsBadly, Holding
    <3>2. at[j] \in Cloned /\ at[j] \in Committed
      BY <3>1 DEF Holding, Cloned, Committed
    <3>3. at'[j] \in Cloned \union {"failed"}
      BY <3>1 DEF Holding, Cloned
    <3> QED BY <1>2, <2>3, <3>2, <3>3
  <2>12. CASE Feedback(j)
    <3>1. at[j] = "feedback" /\ at'[j] \in {"repository", "done"}
      BY <1>1, <2>12 DEF Feedback
    <3> QED BY <1>2, <2>3, <3>1 DEF Cloned, Committed
  <2> QED
    BY <2>4, <2>5, <2>6, <2>7, <2>8, <2>9, <2>10, <2>11, <2>12
    DEF JobStep, Works, Delivers, DeliveryStep, DeliveryTrouble
<1>13. CASE TearsClone(j)
  <2>1. at'[j] \in {"repository", "failed"} /\ tree'[t].stage = "ready"
    BY <1>13 DEF TearsClone, t
  <2> QED BY <1>13, <2>1 DEF Cloned
<1> QED
  BY <1>6, <1>7, <1>8, <1>9, <1>10, <1>11, <1>12, <1>13, TreeStep DEF TypeInv

LEMMA CopyKept ==
  ASSUME TypeInv, NEW j \in Jobs, JobStep(j), StageOf(j), CopyOf(j),
         at[j] \in Committed => tree[taskOf[j]].edits = tree[taskOf[j]].head
  PROVE  CopyOf(j)'
<1> USE DEF Goes
<1>1. /\ at \in [Jobs -> Places] /\ reading \in [Jobs -> Reading]
      /\ reading[j] = [copy |-> reading[j].copy, old |-> reading[j].old]
  BY WorkTyped, CopyTypes DEF TypeInv
<1>2. CASE Fetch(j) \/ Works(j) \/ Codes(j) \/ Delivers(j)
  <2>1. at'[j] \notin {"delete", "lock", "embed"}
    BY <1>2, NotIndexing DEF TypeInv
  <2> QED BY <2>1 DEF CopyOf
<1>3. CASE ReadTree(j) /\ HasHead(taskOf[j])
  <2>1. at[j] = "read"
    BY <1>3 DEF ReadTree
  <2>2. /\ tree[taskOf[j]].stage = "ready"
        /\ tree[taskOf[j]].edits = tree[taskOf[j]].head
    BY <2>1 DEF StageOf, Cloned, Committed
  <2>3. Extra(taskOf[j]) \subseteq {"ignored"}
    BY <2>2 DEF Extra, Extras
  <2>4. reading'[j].copy.extra = Extra(taskOf[j])
    BY <1>1, <1>3, ReadMoves DEF TypeInv
  <2> QED BY <2>3, <2>4 DEF CopyOf, Whole
<1>4. CASE DeleteStarts(j)
  <2>1. at[j] = "delete" /\ reading' = [reading EXCEPT ![j].old = OldRows(j)]
    BY <1>4 DEF DeleteStarts
  <2>2. reading'[j].copy = reading[j].copy
    BY <1>1, <2>1
  <2> QED BY <2>1, <2>2 DEF CopyOf, Whole
<1>5. CASE DeleteEnds(j)
  BY <1>5 DEF DeleteEnds, indexVars, CopyOf, Whole
<1>6. CASE Embed(j)
  <2>1. at[j] = "embed" /\ reading'[j].copy.extra = reading[j].copy.extra
    BY <1>1, <1>6, EmbedMoves DEF TypeInv
  <2> QED BY <2>1 DEF CopyOf, Whole
<1>7. CASE \/ ReadTree(j) /\ ~HasHead(taskOf[j])
           \/ CommitIndex(j) \/ IndexCollides(j) \/ IndexFails(j)
           \/ Retrieve(j) \/ RetrieveFails(j)
  <2>1. at'[j] \in {"planner", "coder"}
    BY <1>1, <1>7 DEF ReadTree, CommitIndex, IndexCollides, IndexFails, Retrieve,
                      RetrieveFails, Indexed
  <2> QED BY <2>1 DEF CopyOf
<1> QED BY <1>2, <1>3, <1>4, <1>5, <1>6, <1>7 DEF JobStep, Indexes, IndexStep

LEMMA FilesOwn ==
  ASSUME TypeInv, CloneInv, NEW j \in Jobs, JobStep(j), FilesOf(j),
         Alone(j)' => Alone(j)
  PROVE  FilesOf(j)'
<1> SUFFICES ASSUME Alone(j)' PROVE FilesOf(j)'
  BY DEF FilesOf
<1>1. /\ StageOf(j)
      /\ taskOf[j] \notin skipped \union torn =>
           /\ at[j] \in Committed => tree[taskOf[j]].edits = tree[taskOf[j]].head
           /\ CopyOf(j)
  BY DEF FilesOf
<1>2. taskOf' = taskOf /\ skipped \subseteq skipped' /\ torn \subseteq torn'
  BY JobMoves, SkippedStays, TornGrows DEF TypeInv
<1>3. /\ DescribeFails(j) => taskOf[j] \in skipped'
      /\ TearsClone(j) => taskOf[j] \in torn'
  BY DEF DescribeFails, TearsClone
<1>4. StageOf(j)'
  BY <1>1, StageKept
<1>5. ASSUME taskOf[j] \notin skipped' \union torn'
      PROVE  /\ at'[j] \in Committed => tree'[taskOf[j]].edits = tree'[taskOf[j]].head
             /\ CopyOf(j)'
  <2>1. taskOf[j] \notin skipped \union torn /\ ~DescribeFails(j) /\ ~TearsClone(j)
    BY <1>2, <1>3, <1>5
  <2> QED BY <1>1, <2>1, StageKept, CopyKept
<1> QED BY <1>2, <1>4, <1>5 DEF FilesOf

RowOf(r) == LET j == r.by[1] IN
  Whole(r) \/ ~Alone(j) \/ taskOf[j] \in skipped \union torn

LEMMA RowsKept ==
  ASSUME TypeInv, IndexInv, FilesInv, [Next]_vars, NEW j \in Jobs, JobStep(j)
  PROVE  IndexedIsCommitted'
<1>1. taskOf' = taskOf /\ skipped \subseteq skipped' /\ torn \subseteq torn'
  BY JobMoves, SkippedStays, TornGrows DEF TypeInv
<1>2. \A k \in Jobs : Alone(k)' => Alone(k)
  BY AloneBefore DEF TypeInv
<1>3. ASSUME NEW r, r.by[1] \in Jobs, RowOf(r) PROVE RowOf(r)'
  BY <1>1, <1>2, <1>3 DEF RowOf, Whole
<1>4. \A r \in rows : r.by[1] \in Jobs /\ RowOf(r)
  <2>1. \A r \in rows : r.by \in Jobs \X (1..MaxPasses)
    BY DEF TypeInv, TypeOK, IndexTypes, Copies
  <2> QED BY <2>1 DEF FilesInv, IndexedIsCommitted, RowOf
<1>5. CASE CommitIndex(j)
  <2> DEFINE c == reading[j].copy
  <2>1. rows' \subseteq rows \union {c} /\ at[j] = "embed"
    BY <1>5 DEF CommitIndex, Flushes
  <2>2. c.by[1] = j
    BY DEF IndexInv
  <2>3. RowOf(c)
    <3>1. Alone(j) /\ taskOf[j] \notin skipped \union torn => Whole(c)
      BY <2>1 DEF FilesInv
    <3> QED BY <2>2, <3>1 DEF RowOf
  <2> HIDE DEF c
  <2>4. \A r \in rows' : RowOf(r)'
    BY <1>3, <1>4, <2>1, <2>2, <2>3
  <2> QED BY <2>4 DEF IndexedIsCommitted, RowOf, Whole
<1>6. CASE UNCHANGED rows
  BY <1>3, <1>4, <1>6 DEF IndexedIsCommitted, RowOf, Whole
<1> QED
  BY <1>5, <1>6
  DEF JobStep, Fetch, Works, Indexes, IndexStep, ReadTree, DeleteStarts, DeleteEnds,
      Embed, IndexCollides, IndexFails, Retrieve, RetrieveFails, Indexed, Codes,
      Delivers, indexVars

LEMMA FilesKept ==
  TypeInv /\ CloneInv /\ IndexInv /\ FilesInv /\ [Next]_vars => FilesInv'
<1> SUFFICES ASSUME TypeInv, CloneInv, IndexInv, FilesInv, [Next]_vars PROVE FilesInv'
  OBVIOUS
<1>1. TypeOK
  BY DEF TypeInv
<1>2. \A k \in Jobs : FilesOf(k) /\ (Alone(k)' => Alone(k))
  BY <1>1, AloneBefore DEF FilesInv, FilesOf, StageOf, CopyOf
<1>3. SUFFICES (\A k \in Jobs : FilesOf(k)') /\ IndexedIsCommitted'
  BY <1>3 DEF FilesInv, FilesOf, StageOf, CopyOf
<1>4. ASSUME UNCHANGED <<taskOf, tree, torn, rows, skipped>>
      PROVE  /\ IndexedIsCommitted'
             /\ \A k \in Jobs : Occupied(taskOf[k])' <=> Occupied(taskOf[k])
  <2>1. \A r \in rows : r.by[1] \in Jobs
    <3>1. \A r \in rows : r.by \in Jobs \X (1..MaxPasses)
      BY DEF TypeInv, TypeOK, IndexTypes, Copies
    <3> QED BY <3>1
  <2> QED BY <1>2, <1>4, <2>1 DEF FilesInv, IndexedIsCommitted, Occupied, Whole
<1>5. CASE UNCHANGED vars
  <2>1. UNCHANGED <<taskOf, tree, torn, rows, skipped, at, reading>>
    BY <1>5, Untouched
  <2> QED BY <1>2, <1>4, <2>1 DEF FilesOf, StageOf, CopyOf, Whole
<1>6. CASE Crash
  <2>1. UNCHANGED <<taskOf, tree, torn, rows, skipped>>
    BY <1>6, CrashMoves
  <2>2. \A k \in Jobs : \/ at'[k] = at[k] /\ at[k] \in Ended \union {"idle"}
                        \/ at'[k] = "dead"
    BY <1>6, CrashMoves
  <2>3. ASSUME NEW k \in Jobs PROVE FilesOf(k)'
    BY <1>2, <1>4, <2>1, <2>2 DEF FilesOf, StageOf, CopyOf, Whole, Ended, Cloned, Committed
  <2> QED BY <1>4, <2>1, <2>3
<1>7. ASSUME NEW j \in Jobs, Start(j)
      PROVE  (\A k \in Jobs : FilesOf(k)') /\ IndexedIsCommitted'
  <2>1. /\ UNCHANGED <<taskOf, tree, torn, rows, skipped, reading>>
        /\ at[j] = "idle" /\ at'[j] = "discover"
        /\ \A k \in Jobs \ {j} : at'[k] = at[k]
    BY <1>1, <1>7, StartMoves
  <2>2. ASSUME NEW k \in Jobs PROVE FilesOf(k)'
    BY <1>2, <1>4, <2>1 DEF FilesOf, StageOf, CopyOf, Whole, Cloned, Committed
  <2> QED BY <1>4, <2>1, <2>2
<1>8. ASSUME NEW j \in Jobs, JobStep(j)
      PROVE  (\A k \in Jobs : FilesOf(k)') /\ IndexedIsCommitted'
  <2>1. FilesOf(j)'
    BY <1>2, <1>8, FilesOwn
  <2>2. ASSUME NEW k \in Jobs \ {j}, Alone(k)' PROVE FilesOf(k)'
    <3> DEFINE t == taskOf[k]
    <3>1. t # taskOf[j] /\ t \in Tasks /\ taskOf' = taskOf
      BY <1>1, <1>8, <2>2, MateSeen, JobMoves, WorkTyped
    <3>2. /\ tree'[t] = tree[t]
          /\ (t \in skipped' <=> t \in skipped) /\ (t \in torn' <=> t \in torn)
      BY <1>1, <1>8, <3>1, OtherTasks
    <3>3. at'[k] = at[k] /\ reading'[k] = reading[k]
      BY <1>1, <1>8, JobMoves, OthersIndex
    <3>4. FilesOf(k) /\ Alone(k)
      BY <1>2, <2>2
    <3>5. StageOf(k)' /\ (CopyOf(k)' <=> CopyOf(k))
      BY <3>1, <3>2, <3>3, <3>4 DEF FilesOf, StageOf, CopyOf, Whole, Occupied
    <3> QED BY <3>1, <3>2, <3>3, <3>4, <3>5 DEF FilesOf
  <2>3. ASSUME NEW k \in Jobs \ {j}, ~Alone(k)' PROVE FilesOf(k)'
    BY <2>3 DEF FilesOf
  <2> QED BY <1>8, <2>1, <2>2, <2>3, RowsKept
<1> QED BY <1>5, <1>6, <1>7, <1>8, NextCases
-----------------------------------------------------------------------------
(* What a job that has its task for itself sees of the index.              *)
SightOf(j) == LET t == taskOf[j] IN
  Alone(j) =>
    /\ at[j] \in {"delete", "lock", "embed"} => reading[j].copy.commit = Head(t)
    /\ j \notin troubled \union collided =>
         /\ at[j] = "planner" => sha[j] = {Head(t)}
         /\ at[j] = "coder" => context[j] \subseteq {Head(t)}

LEMMA SightOwn ==
  ASSUME TypeInv, NEW j \in Jobs, JobStep(j), FilesOf(j), SightOf(j),
         Alone(j)' => Alone(j)
  PROVE  SightOf(j)'
<1> USE DEF Goes, NoTrouble, Trouble
<1> SUFFICES ASSUME Alone(j)' PROVE SightOf(j)'
  BY DEF SightOf
<1> DEFINE t == taskOf[j]
<1>1. /\ at \in [Jobs -> Places] /\ reading \in [Jobs -> Reading]
      /\ sha \in [Jobs -> SUBSET Commits] /\ context \in [Jobs -> SUBSET Commits]
      /\ reading[j] = [copy |-> reading[j].copy, old |-> reading[j].old]
      /\ taskOf' = taskOf
  BY WorkTyped, CopyTypes, JobMoves DEF TypeInv
<1>2. /\ StageOf(j)
      /\ at[j] \in {"delete", "lock", "embed"} => reading[j].copy.commit = Head(t)
      /\ j \notin troubled \union collided =>
           /\ at[j] = "planner" => sha[j] = {Head(t)}
           /\ at[j] = "coder" => context[j] \subseteq {Head(t)}
  BY DEF FilesOf, SightOf
<1>3. tree' = tree => Head(t)' = Head(t)
  BY <1>1 DEF Head
<1>4. CASE Fetch(j) \/ Works(j) \/ Codes(j) \/ Delivers(j)
  <2>1. at'[j] \notin {"delete", "lock", "embed", "planner", "coder"}
    BY <1>4, NotIndexing DEF TypeInv
  <2> QED BY <2>1 DEF SightOf
<1>5. Indexes(j) => tree' = tree
  BY DEF Indexes, IndexStep, ReadTree, DeleteStarts, DeleteEnds, Embed, CommitIndex,
         IndexCollides, IndexFails, Retrieve, RetrieveFails
<1> HIDE DEF t
<1>6. CASE ReadTree(j)
  <2>1. HasHead(t)
    BY <1>2, <1>6 DEF ReadTree, StageOf, Cloned, HasHead, t
  <2>2. at'[j] = "delete" /\ reading'[j].copy.commit = Head(t) /\ tree' = tree
    <3>1. at'[j] = "delete" /\ reading'[j].copy.commit = Head(t)
      BY <1>1, <1>6, <2>1, ReadMoves DEF TypeInv, t
    <3>2. tree' = tree
      BY <1>6 DEF ReadTree
    <3> QED BY <3>1, <3>2
  <2> QED BY <1>3, <2>2 DEF SightOf, t
<1>7. CASE DeleteStarts(j) \/ DeleteEnds(j) \/ Embed(j)
  <2>1. at[j] \in {"delete", "lock", "embed"} /\ at'[j] \in {"delete", "lock", "embed"}
    BY <1>1, <1>7 DEF DeleteStarts, DeleteEnds, Embed
  <2>2. reading'[j].copy.commit = reading[j].copy.commit
    <3>1. CASE DeleteStarts(j)
      BY <1>1, <3>1 DEF DeleteStarts
    <3>2. CASE DeleteEnds(j)
      BY <3>2 DEF DeleteEnds, indexVars
    <3>3. CASE Embed(j)
      BY <1>1, <3>3, EmbedMoves DEF TypeInv
    <3> QED BY <1>7, <3>1, <3>2, <3>3
  <2>3. tree' = tree
    BY <1>7 DEF DeleteStarts, DeleteEnds, Embed
  <2> QED BY <1>2, <1>3, <2>1, <2>2, <2>3 DEF SightOf, t
<1>8. CASE CommitIndex(j)
  <2>1. /\ at[j] = "embed" /\ at'[j] = "planner" /\ tree' = tree
        /\ sha'[j] = {reading[j].copy.commit}
    BY <1>1, <1>8 DEF CommitIndex, Flushes, Indexed
  <2> QED BY <1>2, <1>3, <2>1 DEF SightOf, t
<1>9. CASE IndexCollides(j) \/ IndexFails(j)
  <2>1. at'[j] = "planner" /\ j \in troubled' \union collided'
    BY <1>1, <1>9 DEF IndexCollides, IndexFails, Indexed
  <2> QED BY <2>1 DEF SightOf
<1>10. CASE Retrieve(j)
  <2>1. /\ at[j] = "planner" /\ at'[j] = "coder" /\ context'[j] \subseteq Visible(j)
        /\ UNCHANGED <<tree, troubled, collided>>
    BY <1>1, <1>10 DEF Retrieve
  <2>2. sha[j] # {} => Visible(j) \subseteq sha[j]
    BY DEF Visible
  <2> QED BY <1>2, <1>3, <2>1, <2>2 DEF SightOf, t
<1>11. CASE RetrieveFails(j)
  <2>1. at'[j] = "coder" /\ context'[j] = {}
    BY <1>1, <1>11 DEF RetrieveFails
  <2> QED BY <2>1 DEF SightOf
<1> QED
  BY <1>4, <1>6, <1>7, <1>8, <1>9, <1>10, <1>11 DEF JobStep, Indexes, IndexStep

LEMMA SightKept == TypeInv /\ FilesInv /\ SightInv /\ [Next]_vars => SightInv'
<1> SUFFICES ASSUME TypeInv, FilesInv, SightInv, [Next]_vars PROVE SightInv'
  OBVIOUS
<1>1. TypeOK
  BY DEF TypeInv
<1>2. \A k \in Jobs : FilesOf(k) /\ SightOf(k) /\ (Alone(k)' => Alone(k))
  BY <1>1, AloneBefore DEF FilesInv, FilesOf, StageOf, CopyOf, SightInv, SightOf
<1>3. SUFFICES \A k \in Jobs : SightOf(k)'
  BY <1>3 DEF SightInv, SightOf
<1>4. CASE UNCHANGED vars
  <2>1. UNCHANGED <<at, taskOf, tree, reading, sha, context, troubled, collided>>
    BY <1>4, Untouched
  <2> QED BY <1>2, <2>1 DEF SightOf, Head
<1>5. CASE Crash
  BY <1>5, CrashMoves DEF SightOf, Ended
<1>6. ASSUME NEW j \in Jobs, Start(j), NEW k \in Jobs PROVE SightOf(k)'
  <2>1. /\ UNCHANGED <<taskOf, tree, reading, sha, context, troubled, collided>>
        /\ at'[j] = "discover" /\ (k # j => at'[k] = at[k])
    BY <1>1, <1>6, StartMoves
  <2> QED BY <1>2, <2>1 DEF SightOf, Head
<1>7. ASSUME NEW j \in Jobs, JobStep(j), NEW k \in Jobs PROVE SightOf(k)'
  <2>1. CASE k = j
    BY <1>2, <1>7, <2>1, SightOwn
  <2>2. CASE k # j /\ Alone(k)'
    <3> DEFINE t == taskOf[k]
    <3>1. t # taskOf[j] /\ t \in Tasks /\ taskOf' = taskOf
      BY <1>1, <1>7, <2>2, MateSeen, JobMoves, WorkTyped
    <3>2. tree'[t] = tree[t]
      BY <1>1, <1>7, <3>1, OtherTasks
    <3>3. /\ at'[k] = at[k] /\ reading'[k] = reading[k] /\ sha'[k] = sha[k]
          /\ context'[k] = context[k] /\ (k \in troubled' <=> k \in troubled)
          /\ (k \in collided' <=> k \in collided)
      BY <1>1, <1>7, <2>2, JobMoves, OthersIndex
    <3>4. Head(t)' = Head(t)
      BY <3>1, <3>2 DEF Head
    <3>5. SightOf(k) /\ Alone(k)
      BY <1>2, <2>2
    <3> QED BY <3>1, <3>3, <3>4, <3>5 DEF SightOf
  <2>3. CASE ~Alone(k)'
    BY <2>3 DEF SightOf
  <2> QED BY <2>1, <2>2, <2>3
<1> QED BY <1>4, <1>5, <1>6, <1>7, NextCases
-----------------------------------------------------------------------------
(* The delivery of a job that has its task for itself, if no call failed.  *)
GoodOf(j) == LET t == taskOf[j] IN
  /\ at[j] \notin Holding \union Ended => LeftAt(j, tree[t].head)
  /\ at[j] = "done" => LeftAt(j, tree[t].head)
  /\ at[j] \in {"auth", "upstream"} =>
       /\ commit[j] = tree[t].edits /\ tree[t].head = tree[t].edits
       /\ \E n \in 0..tree[t].head : LeftAt(j, n)
  /\ at[j] = "fork" =>
       /\ commit[j] = tree[t].edits /\ tree[t].head = tree[t].edits
       /\ LeftAt(j, 0)
  /\ at[j] = "create" => Pushed(j) /\ ~pr[j] /\ ~open[t] /\ recorded[j] = 0
  /\ at[j] = "patch" => Pushed(j) /\ pr[j] /\ open[t] /\ tree[t].head > 0
  /\ at[j] = "record" => Pushed(j) /\ open[t] /\ tree[t].head > 0

CycleOf(j) ==
  Alone(j) /\ j \notin troubled =>
    /\ taskOf[j] \notin skipped \union torn /\ j \notin unpushed
    /\ ownFork => GoodOf(j)

LEMMA HeadStays ==
  ASSUME TypeInv, CloneInv, NEW j \in Jobs, JobStep(j), at[j] # "deliver"
  PROVE  tree'[taskOf[j]].head = tree[taskOf[j]].head
<1>1. LosesClone(j) => tree'[taskOf[j]].head = tree[taskOf[j]].head
  BY WorkTyped DEF LosesClone, CloneInv, TypeInv
<1> QED BY <1>1, TreeStep DEF TypeInv, Quiet, BeginsClone, FetchesClone, EndsClone,
                              TearsClone, Edits, CommitsEdits, Keeps

LEMMA GoodOwn ==
  ASSUME TypeInv, CloneInv, ownFork, NEW j \in Jobs, JobStep(j), NoTrouble,
         j \notin troubled, StageOf(j), GoodOf(j)
  PROVE  GoodOf(j)'
<1> DEFINE t == taskOf[j]
<1> USE DEF Goes, Holding, Ended, deliveryVars, github
<1>1. /\ t \in Tasks /\ at \in [Jobs -> Places]
      /\ commit \in [Jobs -> Content] /\ recorded \in [Jobs -> Content]
      /\ pr \in [Jobs -> BOOLEAN] /\ remote \in [Tasks -> Content]
      /\ open \in [Tasks -> BOOLEAN] /\ tree \in [Tasks -> Directory]
      /\ commit[j] \in Nat /\ recorded[j] \in Nat /\ remote[t] \in Nat
      /\ tree[t].head \in Nat /\ tree[t].edits \in Nat
  BY DeliveryTyped, WorkTyped DEF TypeInv
<1>2. taskOf' = taskOf /\ at[j] \notin Ended
  BY JobMoves DEF TypeInv
<1>3. ~Trouble(j)
  BY DEF NoTrouble, Trouble
<1>4. CASE \/ Fetch(j) \/ Works(j) \/ Indexes(j) \/ Codes(j)
           \/ Feedback(j) /\ UNCHANGED <<indexVars, fetches>>
  <2>1. /\ UNCHANGED <<remote, open, commit, pr, recorded>>
        /\ at[j] \notin Holding \union {"deliver"} /\ at'[j] \notin Holding
    BY <1>4, NotDelivering DEF TypeInv
  <2>2. LeftAt(j, tree[t].head) /\ tree'[t].head = tree[t].head
    BY <1>2, <2>1, HeadStays DEF GoodOf
  <2>3. LeftAt(j, tree[t].head)'
    BY <1>2, <2>1, <2>2 DEF LeftAt
  <2> QED BY <1>2, <2>1, <2>2, <2>3 DEF GoodOf
<1>5. CASE CommitWork(j)
  <2>1. at[j] = "deliver" /\ tree[t].stage = "ready"
    BY <1>5 DEF CommitWork, StageOf, Cloned
  <2>2. /\ at'[j] = "auth" /\ commit'[j] = tree'[t].head
        /\ tree' = [tree EXCEPT ![t].branch = TRUE, ![t].head = tree[t].edits]
        /\ UNCHANGED <<remote, open, pr, recorded>>
    BY <1>1, <1>5, <2>1 DEF CommitWork, CommitsAll
  <2>3. tree'[t].head = tree[t].edits /\ tree'[t].edits = tree[t].edits
    BY <1>1, <2>2 DEF Directory
  <2>4. LeftAt(j, tree[t].head) /\ tree[t].head \in 0..tree'[t].head
    BY <1>1, <2>1, <2>3 DEF GoodOf, CloneInv
  <2>5. \E m \in 0..tree'[t].head : LeftAt(j, m)'
    <3>1. PICK m \in 0..tree'[t].head : LeftAt(j, m)
      BY <2>4
    <3>2. LeftAt(j, m)'
      BY <1>2, <2>2, <3>1 DEF LeftAt
    <3> QED BY <3>2
  <2> QED BY <1>2, <2>2, <2>3, <2>5 DEF GoodOf
<1>6. CASE AuthAnswers(j)
  <2>1. /\ at[j] = "auth" /\ at'[j] = "upstream"
        /\ UNCHANGED <<tree, remote, open, commit, pr, recorded>>
    BY <1>1, <1>3, <1>6 DEF AuthAnswers
  <2>2. PICK m \in 0..tree[t].head : LeftAt(j, m)
    BY <2>1 DEF GoodOf
  <2>3. LeftAt(j, m)'
    BY <1>2, <2>1, <2>2 DEF LeftAt
  <2> QED BY <1>2, <2>1, <2>3 DEF GoodOf
<1>7. CASE UpstreamAnswers(j)
  <2>1. /\ at[j] = "upstream" /\ UNCHANGED <<tree, open, commit, pr, recorded>>
        /\ \/ pr[j] /\ Pushes(j) /\ at'[j] = "patch"
           \/ ~pr[j] /\ at'[j] = "fork" /\ UNCHANGED remote
    BY <1>1, <1>7 DEF UpstreamAnswers, KnownPR
  <2>2. PICK m \in 0..tree[t].head : LeftAt(j, m)
    BY <2>1 DEF GoodOf
  <2>3. commit[j] = tree[t].edits /\ tree[t].head = tree[t].edits
    BY <2>1 DEF GoodOf
  <2>4. CASE pr[j]
    <3>1. remote'[t] = tree[t].head /\ at'[j] = "patch"
      BY <1>1, <1>3, <2>1, <2>4 DEF Pushes
    <3>2. open[t] /\ tree[t].head > 0
      BY <1>1, <2>2, <2>4 DEF LeftAt
    <3>3. Pushed(j)'
      BY <1>2, <2>1, <2>3, <3>1 DEF Pushed
    <3> QED BY <1>2, <2>1, <2>4, <3>1, <3>2, <3>3 DEF GoodOf
  <2>5. CASE ~pr[j]
    <3>1. m = 0 /\ at'[j] = "fork" /\ UNCHANGED remote
      BY <2>1, <2>2, <2>5 DEF LeftAt
    <3>2. LeftAt(j, 0)'
      BY <1>2, <2>1, <2>2, <3>1 DEF LeftAt
    <3> QED BY <1>2, <2>1, <2>3, <3>1, <3>2 DEF GoodOf
  <2> QED BY <2>4, <2>5
<1>8. CASE ForkAnswers(j)
  <2>1. /\ at[j] = "fork" /\ at'[j] = "create" /\ remote'[t] = tree[t].head
        /\ UNCHANGED <<tree, open, commit, pr, recorded>>
    BY <1>1, <1>3, <1>8 DEF ForkAnswers, Pushes
  <2>2. /\ commit[j] = tree[t].edits /\ tree[t].head = tree[t].edits
        /\ ~pr[j] /\ ~open[t] /\ recorded[j] = 0
    BY <2>1 DEF GoodOf, LeftAt
  <2>3. Pushed(j)'
    BY <1>2, <2>1, <2>2 DEF Pushed
  <2> QED BY <1>2, <2>1, <2>2, <2>3 DEF GoodOf
<1>9. CASE CreateAnswers(j)
  <2>1. /\ at[j] = "create" /\ UNCHANGED <<tree, remote>>
        /\ IF Acceptable(t)
             THEN /\ open'[t] = TRUE /\ at'[j] = "record"
                  /\ UNCHANGED <<commit, pr, recorded>>
             ELSE DeliveryEndsBadly(j) /\ UNCHANGED open
    BY <1>1, <1>9 DEF CreateAnswers
  <2>2. /\ Pushed(j) /\ ~pr[j] /\ ~open[t] /\ recorded[j] = 0
        /\ remote[t] = tree[t].head
    BY <2>1 DEF GoodOf, Pushed
  <2>3. CASE Acceptable(t)
    <3>1. tree[t].head > 0
      BY <2>2, <2>3 DEF Acceptable
    <3>2. Pushed(j)'
      BY <1>2, <2>1, <2>2, <2>3 DEF Pushed
    <3> QED BY <1>2, <2>1, <2>3, <3>1, <3>2 DEF GoodOf
  <2>4. CASE ~Acceptable(t)
    <3>1. remote[t] = 0
      BY <1>1, <2>2, <2>4 DEF Acceptable
    <3>2. at'[j] = "feedback" /\ pr'[j] = FALSE /\ recorded'[j] = 0
      BY <1>1, <2>1, <2>4 DEF DeliveryEndsBadly
    <3>3. LeftAt(j, 0)'
      BY <1>2, <2>1, <2>2, <2>4, <3>1, <3>2 DEF LeftAt
    <3>4. tree'[t].head = 0
      BY <2>1, <2>2, <3>1
    <3> QED BY <1>2, <3>2, <3>3, <3>4 DEF GoodOf
  <2> QED BY <2>3, <2>4
<1>10. CASE PatchAnswers(j)
  <2>1. /\ at[j] = "patch" /\ at'[j] = "record"
        /\ UNCHANGED <<tree, remote, open, commit, pr, recorded>>
    BY <1>1, <1>10 DEF PatchAnswers
  <2>2. Pushed(j)'
    BY <1>2, <2>1 DEF GoodOf, Pushed
  <2> QED BY <1>2, <2>1, <2>2 DEF GoodOf
<1>11. CASE Record(j)
  <2>1. /\ at[j] = "record" /\ at'[j] = "feedback" /\ pr'[j] = TRUE
        /\ recorded'[j] = commit[j] /\ UNCHANGED <<tree, remote, open>>
    BY <1>1, <1>11 DEF Record
  <2>2. /\ commit[j] = tree[t].head /\ remote[t] = tree[t].head
        /\ open[t] /\ tree[t].head > 0
    BY <2>1 DEF GoodOf, Pushed
  <2>3. LeftAt(j, tree[t].head)'
    BY <1>2, <2>1, <2>2 DEF LeftAt
  <2> QED BY <1>2, <2>1, <2>3 DEF GoodOf
<1>12. ~DeliveryTrouble(j)
  BY <1>3 DEF DeliveryTrouble, DescribeFails, CallFails, RecordFails
<1> QED
  BY <1>4, <1>5, <1>6, <1>7, <1>8, <1>9, <1>10, <1>11, <1>12
  DEF JobStep, Delivers, DeliveryStep

LEMMA CycleOwn ==
  ASSUME TypeInv, CloneInv, NEW j \in Jobs, JobStep(j), FilesOf(j), CycleOf(j),
         Alone(j)' => Alone(j)
  PROVE  CycleOf(j)'
<1> SUFFICES ASSUME Alone(j)', j \notin troubled' PROVE CycleOf(j)'
  BY DEF CycleOf
<1>1. NoTrouble \/ Trouble(j)
  BY DEF JobStep, Fetch, Works, RepositoryNode, CloneStep, CloneBegins,
         CloneFetched, CloneEnds, CloneFails, Indexes, IndexStep, ReadTree,
         DeleteStarts, DeleteEnds, Embed, CommitIndex, IndexCollides, IndexFails, Retrieve,
         RetrieveFails, Codes, WriteChanges, Delivers, DeliveryStep,
         DeliveryTrouble, CommitWork, DescribeFails, AuthAnswers,
         UpstreamAnswers, ForkAnswers, Pushes, CreateAnswers, PatchAnswers,
         Record, CallFails, RecordFails, Feedback
<1>2. ~Trouble(j) /\ NoTrouble /\ j \notin troubled
  BY <1>1 DEF NoTrouble, Trouble
<1>3. /\ StageOf(j) /\ taskOf[j] \notin skipped \union torn /\ j \notin unpushed
      /\ ownFork => GoodOf(j)
  BY <1>2 DEF FilesOf, CycleOf
<1>4. taskOf' = taskOf /\ ownFork' = ownFork
  BY JobMoves DEF TypeInv
<1>5. taskOf[j] \notin torn'
  BY <1>2, <1>3, TornGrows
<1>6. taskOf[j] \notin skipped'
  BY <1>2, <1>3 DEF JobStep, Fetch, Works, Indexes, Codes, Delivers, DeliveryStep,
         DeliveryTrouble, CommitWork, DescribeFails, AuthAnswers, UpstreamAnswers,
         ForkAnswers, CreateAnswers, PatchAnswers, Record, CallFails,
         RecordFails, Feedback, deliveryVars, StageOf, Cloned
<1>7. j \notin unpushed'
  BY <1>2, <1>3 DEF JobStep, Fetch, Works, Indexes, Codes, Delivers, DeliveryStep,
         DeliveryTrouble, CommitWork, DescribeFails, AuthAnswers, UpstreamAnswers,
         ForkAnswers, Pushes, CreateAnswers, PatchAnswers, Record, CallFails,
         RecordFails, Feedback, deliveryVars
<1>8. ownFork => GoodOf(j)'
  BY <1>2, <1>3, GoodOwn
<1> QED BY <1>4, <1>5, <1>6, <1>7, <1>8 DEF CycleOf

LEMMA CycleKept ==
  TypeInv /\ CloneInv /\ FilesInv /\ CycleInv /\ [Next]_vars => CycleInv'
<1> SUFFICES ASSUME TypeInv, CloneInv, FilesInv, CycleInv, [Next]_vars
             PROVE  CycleInv'
  OBVIOUS
<1>1. TypeOK
  BY DEF TypeInv
<1>2. \A k \in Jobs : FilesOf(k) /\ (Alone(k)' => Alone(k))
  BY <1>1, AloneBefore DEF FilesInv, FilesOf, StageOf, CopyOf
<1>3. \A k \in Jobs : CycleOf(k)
  BY DEF CycleInv, CycleOf, GoodOf
<1>4. SUFFICES \A k \in Jobs : CycleOf(k)'
  BY <1>4 DEF CycleInv, CycleOf, GoodOf
<1>5. CASE UNCHANGED vars
  BY <1>2, <1>3, <1>5, Untouched DEF CycleOf, GoodOf, LeftAt, Pushed
<1>6. CASE Crash
  BY <1>6, CrashMoves DEF CycleOf
<1>7. ASSUME NEW j \in Jobs, Start(j), NEW k \in Jobs PROVE CycleOf(k)'
  <2>1. /\ UNCHANGED <<taskOf, tree, torn, troubled, ownFork, remote, open, commit, pr,
                       recorded, unpushed, skipped>>
        /\ at[j] = "idle" /\ at'[j] = "discover"
        /\ k # j => at'[k] = at[k]
    BY <1>1, <1>7, StartMoves
  <2>2. CASE k = j
    <3>1. ASSUME ownFork, LeftAt(k, tree[taskOf[k]].head) PROVE GoodOf(k)'
      BY <2>1, <2>2, <3>1 DEF GoodOf, LeftAt, Holding, Ended
    <3> QED BY <1>2, <1>3, <2>1, <2>2, <3>1 DEF CycleOf, GoodOf, Holding, Ended
  <2>3. CASE k # j
    BY <1>2, <1>3, <2>1, <2>3 DEF CycleOf, GoodOf, LeftAt, Pushed
  <2> QED BY <2>2, <2>3
<1>8. ASSUME NEW j \in Jobs, JobStep(j), NEW k \in Jobs PROVE CycleOf(k)'
  <2>1. CASE k = j
    BY <1>2, <1>3, <1>8, <2>1, CycleOwn
  <2>2. CASE k # j /\ Alone(k)'
    <3> DEFINE t == taskOf[k]
    <3>1. t # taskOf[j] /\ t \in Tasks /\ taskOf' = taskOf /\ ownFork' = ownFork
      BY <1>1, <1>8, <2>2, MateSeen, JobMoves, WorkTyped
    <3>2. /\ tree'[t] = tree[t] /\ remote'[t] = remote[t] /\ open'[t] = open[t]
          /\ (t \in skipped' <=> t \in skipped) /\ (t \in torn' <=> t \in torn)
      BY <1>1, <1>8, <3>1, OtherTasks
    <3>3. at'[k] = at[k] /\ (k \in troubled' <=> k \in troubled)
      BY <1>1, <1>8, <2>2, JobMoves, OthersIndex
    <3>4. /\ commit'[k] = commit[k] /\ pr'[k] = pr[k] /\ recorded'[k] = recorded[k]
          /\ (k \in unpushed' <=> k \in unpushed)
      BY <1>1, <1>8, <2>2, OthersDelivery
    <3>5. CycleOf(k) /\ Alone(k)
      BY <1>2, <1>3, <2>2
    <3>6. GoodOf(k) => GoodOf(k)'
      BY <3>1, <3>2, <3>3, <3>4 DEF GoodOf, LeftAt, Pushed
    <3> QED BY <3>1, <3>2, <3>3, <3>4, <3>5, <3>6 DEF CycleOf
  <2>3. CASE ~Alone(k)'
    BY <2>3 DEF CycleOf
  <2> QED BY <2>1, <2>2, <2>3
<1> QED BY <1>5, <1>6, <1>7, <1>8, NextCases
-----------------------------------------------------------------------------
LEMMA InitInv == Init => IInv
<1> SUFFICES ASSUME Init PROVE IInv
  OBVIOUS
<1> USE DEF Init, InitWork, InitIndex, InitDelivery
<1>1. 0 \in Content /\ Absent \in Directory /\ MaxPasses \in Nat \ {0}
  BY ContentRange, WorkBounds DEF Absent, Directory, Stages
<1>2. TypeOK
  <2>1. taskOf \in [Jobs -> Tasks]
    BY WorkBounds
  <2>2. WorkTypes
    BY <1>1, <2>1, WorkBounds DEF WorkTypes
  <2>3. \A j \in Jobs : Nothing(j) \in Reading
    BY <1>1, ChunkBound DEF Nothing, Reading, Copies, Commits
  <2>4. IndexTypes
    BY <2>3, ChunkBound DEF IndexTypes
  <2>5. DeliveryTypes
    BY <1>1 DEF DeliveryTypes
  <2> QED BY <2>2, <2>4, <2>5, FetchBound DEF TypeOK
<1>3. taskOf \in [Jobs -> Tasks]
  BY <1>2 DEF TypeOK, WorkTypes
<1>4. TypeInv
  <2>1. ASSUME NEW t \in Tasks PROVE tree[t].edits <= Cardinality(Written(t)) + troubles
    <3>1. Written(t) = {}
      BY <1>1 DEF Written, Unwritten
    <3> QED BY <3>1, FS_EmptySet DEF Absent
  <2> QED BY <1>2, <2>1 DEF TypeInv, CountInv
<1>5. CloneInv
  BY <1>3 DEF CloneInv, Absent
<1>6. PushInv
  BY <1>3 DEF PushInv, Absent, Holding
<1>7. OpenInv
  BY <1>3 DEF OpenInv
<1>8. IndexInv
  BY DEF IndexInv, OneWholeCopy, Nothing
<1>9. FilesInv
  BY <1>3 DEF FilesInv, Occupied, Absent, Cloned, Committed, IndexedIsCommitted
<1>10. SightInv
  BY DEF SightInv
<1>11. CycleInv
  <2>1. \A j \in Jobs : LeftAt(j, 0) /\ tree[taskOf[j]].head = 0
    BY <1>3 DEF LeftAt, Absent
  <2> QED BY <1>3, <2>1 DEF CycleInv, Holding, Ended
<1> QED BY <1>4, <1>5, <1>6, <1>7, <1>8, <1>9, <1>10, <1>11 DEF IInv

THEOREM Invariance == Spec => []IInv
<1>1. IInv /\ [Next]_vars => IInv'
  BY TypeStep, CloneKept, PushKept, OpenKept, IndexKept, FilesKept, SightKept,
     CycleKept
  DEF IInv
<1> QED BY InitInv, <1>1, PTL DEF Spec

(* However jobs are interleaved, fail or die, the clone, the index and the *)
(* delivery have their types; in particular no directory ever gets more    *)
(* edits than its jobs have had passes and checkouts that failed           *)
(* (coder_node in nodes.py, RepositoryCloner.clone).                       *)
THEOREM TypeCorrect == Spec => []TypeOK
<1>1. IInv => TypeOK
  BY DEF IInv, TypeInv
<1> QED BY Invariance, <1>1, PTL

(* What RepositoryIndexer.index commits is the whole of what it read: its  *)
(* chunks are added in one transaction, which is committed once.  Two      *)
(* transactions that have overlapped never leave two copies of a commit:   *)
(* the unique constraint of DocumentChunk refuses the second, unless one   *)
(* of the copies is not of the commit's files.                             *)
THEOREM CommitsAreComplete == Spec => []OneWholeCopy
<1>1. IInv => OneWholeCopy
  BY DEF IInv, IndexInv
<1> QED BY Invariance, <1>1, PTL

(* Between _index_repository and _retrieve_relevant_code, other jobs may   *)
(* replace the rows of the planner's commit, but they never take it out of *)
(* the index, for they delete only rows of the commit they then insert.    *)
(* Of other commits a job that is alone in its clone sees code only after  *)
(* a call of its own has failed, or the rows of another job have refused   *)
(* its own, which needs a job that runs beside it.                         *)
THEOREM PlansSeeTheirCommit == Spec => []PlannerSeesItsCommit
<1>1. IInv => PlannerSeesItsCommit
  <2> SUFFICES ASSUME IInv, NEW j \in Jobs
               PROVE  /\ at[j] = "planner" => sha[j] \subseteq Visible(j) \union barren
                      /\ at[j] = "coder" /\ Alone(j) /\ j \notin troubled \union collided
                           => context[j] \subseteq {Head(taskOf[j])}
                      /\ Sole(j) => j \notin collided
    BY DEF PlannerSeesItsCommit
  <2>1. at[j] = "planner" => \A c \in sha[j] : Stored(c)
    BY DEF IInv, IndexInv
  <2>2. at[j] = "planner" => sha[j] \subseteq Visible(j) \union barren
    BY <2>1 DEF Stored, Visible
  <2>3. Sole(j) => j \notin collided
    BY DEF IInv, IndexInv
  <2> QED BY <2>2, <2>3 DEF IInv, SightInv
<1> QED BY Invariance, <1>1, PTL

(* Indexing reads the files, not the commit.  For a job alone on its task  *)
(* the two agree in every pass, but for files that git ignores:            *)
(* delivery_node commits all others before the graph comes back to         *)
(* repository_node, unless it ended before, or a checkout of the clone     *)
(* failed, whose half tree the retried node takes for the clone.           *)
THEOREM IndexIsOfTheCommit == Spec => []IndexedIsCommitted
<1>1. IInv => IndexedIsCommitted
  BY DEF IInv, FilesInv
<1> QED BY Invariance, <1>1, PTL

(* A pull request in the channel pr is open on GitHub: _deliver returns    *)
(* one only after GitHub has answered for it, and nothing here closes one. *)
THEOREM KnownRequestsAreOpen == Spec => []RecordedIsOpen
<1>1. IInv => RecordedIsOpen
  BY DEF IInv, OpenInv, RecordedIsOpen
<1> QED BY Invariance, <1>1, PTL

(* A reported commit is on GitHub, or the last push of the job failed,     *)
(* which _push_to_fork only logs.  Later commits of a mate, and its        *)
(* pushes, never take it back: nobody rewrites the branch.                 *)
THEOREM ReportedCommitsArePushed == Spec => []RecordedIsPushed
<1>1. IInv => RecordedIsPushed
  BY DEF IInv, PushInv, RecordedIsPushed
<1> QED BY Invariance, <1>1, PTL

(* What delivery_node is for, over any number of passes: with the task for *)
(* itself and every call answered, changed code ends in an open pull       *)
(* request that is known, complete, pushed and reported.                   *)
THEOREM DeliverySucceeds == Spec => []UntroubledDelivery
<1>1. IInv => UntroubledDelivery
  <2> SUFFICES ASSUME IInv, NEW j \in Jobs, at[j] \in {"feedback", "done"},
                      Alone(j), j \notin troubled, ownFork,
                      tree[taskOf[j]].edits > 0
               PROVE  /\ pr[j] /\ open[taskOf[j]]
                      /\ {recorded[j], remote[taskOf[j]], tree[taskOf[j]].head}
                           = {tree[taskOf[j]].edits}
    BY DEF UntroubledDelivery
  <2>1. taskOf[j] \notin skipped \union torn /\ LeftAt(j, tree[taskOf[j]].head)
    BY DEF IInv, CycleInv, Holding, Ended
  <2>2. tree[taskOf[j]].edits = tree[taskOf[j]].head
    BY <2>1 DEF IInv, FilesInv, Committed
  <2> QED BY <2>1, <2>2 DEF LeftAt
<1> QED BY Invariance, <1>1, PTL

(* A commit and a push stay.  A clone that fails takes only a directory    *)
(* without a commit, because of CloneInv; a push never moves the branch    *)
(* back, because of PushInv.                                               *)
THEOREM CommitsSurvive == Spec => CommitsAreKept
<1>1. IInv /\ [Next]_vars =>
        [\A t \in Tasks : /\ tree[t].head <= tree'[t].head
                          /\ remote[t] <= remote'[t]]_vars
  <2> SUFFICES ASSUME IInv, [Next]_vars, NEW t \in Tasks
               PROVE  /\ tree[t].head <= tree'[t].head
                      /\ remote[t] <= remote'[t]
    OBVIOUS
  <2>1. /\ TypeInv /\ TypeOK /\ CloneInv /\ PushInv
        /\ tree[t].head \in Nat /\ remote[t] \in Nat /\ remote'[t] \in Nat
    <3>1. TypeInv /\ TypeOK /\ TypeOK' /\ CloneInv /\ PushInv
      BY TypeStep DEF IInv, TypeInv
    <3>2. tree[t].head \in Content /\ remote[t] \in Content /\ remote'[t] \in Content
      BY <3>1 DEF TypeOK, WorkTypes, Directory, DeliveryTypes
    <3> QED BY <3>1, <3>2, ContentRange
  <2>2. CASE UNCHANGED vars
    BY <2>1, <2>2, Untouched
  <2>3. CASE Crash
    BY <2>1, <2>3, CrashMoves
  <2>4. ASSUME NEW j \in Jobs, Start(j)
        PROVE  UNCHANGED <<tree, remote>>
    BY <2>1, <2>4, StartMoves
  <2>5. ASSUME NEW j \in Jobs, JobStep(j)
        PROVE  /\ tree[t].head <= tree'[t].head
               /\ remote[t] <= remote'[t]
    <3>1. tree[t].head <= tree'[t].head
      BY <2>1, <2>5, HeadGrows
    <3>2. CASE t = taskOf[j]
      BY <2>1, <2>5, <3>1, <3>2, RemoteMoves DEF PushInv
    <3>3. CASE t # taskOf[j]
      BY <2>1, <2>5, <3>1, <3>3, OtherTasks
    <3> QED BY <3>2, <3>3
  <2> QED BY <2>1, <2>2, <2>3, <2>4, <2>5, NextCases
<1> QED BY Invariance, <1>1, PTL DEF Spec, CommitsAreKept
=============================================================================
