------------------------------- MODULE GitPool -------------------------------
(***************************************************************************)
(* The clones of the git data store, controller/data_store.go:             *)
(* gitWorker.initialize, clean, commitJob, push and the pushJobs that      *)
(* calls them, against the remote repository all clones share.             *)
(*                                                                         *)
(* Batches come from the queue, which is taken here as FileWriteQueue,     *)
(* the specification that GitDataStore implements.  git is external: reset *)
(* --hard, pull, add, commit and push are modelled by what they do to the  *)
(* branch, the index and the working tree of a clone.  A command that      *)
(* fails is logged and the code goes on.  The controller may stop at any   *)
(* time: the clones stay on disk, the queue is lost.  A write of a file    *)
(* that fails or is cut short leaves a part of the contents.               *)
(*                                                                         *)
(* A branch is the set of the numbers of its commits and the tree of its   *)
(* last one.  Merge commits need no number: they enter the remote together *)
(* with the commits they merge, so a branch contains another exactly when  *)
(* it contains its numbers.  One structure is configured, as by default.   *)
(***************************************************************************)
EXTENDS Naturals, Sequences, FiniteSets, SequencesExt

CONSTANTS
  Jobs,        \* the results posted to /worker/complete
  Files,       \* the files they are written to
  FileOf,      \* the file of each result
  Workers,     \* the workers of the pool, one clone each
  Contents,    \* what files can contain
  ContentOf,   \* DataStoreJob.Contents
  NoFile,      \* a file that does not exist
  Torn,        \* a part of some contents
  MaxLogged,   \* bound on the results with logged failures (see GitMayFail)
  MaxCommits,  \* bound on the commits
  MaxRestarts  \* bound on the restarts of the controller

ASSUME ConstantsAssumption ==
  /\ FileOf \in [Jobs -> Files]
  /\ ContentOf \in [Jobs -> Contents]
  /\ NoFile \notin Contents
  /\ Torn \notin Contents \cup {NoFile}
  /\ MaxLogged \in Nat
  /\ MaxCommits \in Nat
  /\ MaxRestarts \in Nat

VARIABLES
  accepted,  \* see FileWriteQueue
  writing,   \* see FileWriteQueue
  written,   \* see FileWriteQueue
  stage,     \* per worker, where it is in initialize() or pushJobs()
  todo,      \* per worker, the results of its batch that are not committed yet
  clone,     \* per worker, its clone (see Clones)
  remote,    \* the branch in the remote repository
  author,    \* history: the results of the commits, by their number
  logged,    \* history: results for which a failure was logged
  forgotten, \* history: results that were accepted before a restart
  epoch      \* how often the controller was restarted

queue == <<accepted, writing, written>>
vars == <<queue, stage, todo, clone, remote, author, logged, forgotten, epoch>>

Queue == INSTANCE FileWriteQueue

-----------------------------------------------------------------------------

Trees == [Files -> Contents \cup {NoFile, Torn}]

Branches == [commits : SUBSET Nat, tree : Trees]

(* A clone: its branch, the tree of the last commit it has in common with the *)
(* remote, the index and the working tree.                                    *)
Clones == [commits : SUBSET Nat, tree : Trees, base : Trees, index : Trees, work : Trees]

EmptyTree == [f \in Files |-> NoFile]

TypeOK ==
  /\ accepted \in SUBSET Jobs
  /\ writing \in [Workers -> SUBSET Jobs]
  /\ written \in SUBSET Jobs
  /\ stage \in [Workers -> {"init", "idle", "clean", "commit", "mark"}]
  /\ todo \in [Workers -> Seq(Jobs)]
  /\ clone \in [Workers -> Clones]
  /\ remote \in Branches
  /\ author \in Seq(Jobs)
  /\ logged \in SUBSET Jobs
  /\ forgotten \in SUBSET Jobs
  /\ epoch \in Nat

Reset_ToRemote(c) ==
  [commits |-> c.commits \cap remote.commits, tree |-> c.base, base |-> c.base,
   index |-> c.base, work |-> c.base]

Reset_Nothing(c) == c

(* git reset --hard: tracked files and the index are as in the last commit; a *)
(* file that is neither there nor in the index is left alone.                 *)
Reset(c) ==
  [c EXCEPT !.index = c.tree,
            !.work = [f \in Files |->
              IF c.tree[f] = NoFile /\ c.index[f] = NoFile THEN c.work[f] ELSE c.tree[f]]]

(* What git pull merges: a file that only one side changed since the common   *)
(* commit is as on that side.  Without commits of its own the clone is simply *)
(* moved forward.                                                             *)
Merged(c) == [f \in Files |-> IF c.tree[f] = c.base[f] THEN remote.tree[f] ELSE c.tree[f]]

(* git pull: both sides changed a file, and differently. *)
Conflict(c) ==
  \E f \in Files :
    /\ c.tree[f] # c.base[f]
    /\ remote.tree[f] # c.base[f]
    /\ c.tree[f] # remote.tree[f]

(* git pull: it would overwrite a file of the working tree that no commit has. *)
Overwrites(c) == \E f \in Files : c.work[f] # c.tree[f] /\ Merged(c)[f] # c.tree[f]

(* git commands and writes fail for reasons that are not seen here, up to a   *)
(* bound.                                                                     *)
GitMayFail == Cardinality(logged) < MaxLogged

UpToDate(c) == remote.commits \subseteq c.commits

CanPull(c) == UpToDate(c) \/ ~ (Conflict(c) \/ Overwrites(c))

Pulled(c) ==
  IF UpToDate(c) THEN c
  ELSE [commits |-> c.commits \cup remote.commits,
        tree |-> Merged(c), base |-> remote.tree, index |-> Merged(c),
        work |-> [f \in Files |-> IF c.work[f] = c.tree[f] THEN Merged(c)[f] ELSE c.work[f]]]

Written_OverDirectory(c, j) == [c EXCEPT !.work = ContentOf[j]]

(* commitJob: the contents are written to the working tree. *)
Written(c, j) == [c EXCEPT !.work[FileOf[j]] = ContentOf[j]]

(* writeGitFile truncates the file first, and leaves it like this when the    *)
(* write fails.                                                               *)
Truncated(c, j) == [c EXCEPT !.work[FileOf[j]] = Torn]

(* commitJob: git add . *)
Added(c) == [c EXCEPT !.index = c.work]

(* commitJob: git commit --allow-empty, of whatever is in the index. *)
Committed(c) ==
  [c EXCEPT !.tree = c.index, !.commits = c.commits \cup {Len(author) + 1}]

(* What is left when commitJob does not get to its commit: nothing is undone. *)
Unfinished(c, j) == {c, Truncated(c, j), Written(c, j), Added(Written(c, j))}

(* The clones a worker leaves when the controller stops. *)
LeftBy(w) ==
  IF stage[w] = "commit" /\ todo[w] # <<>> THEN Unfinished(clone[w], Head(todo[w]))
  ELSE {clone[w]}

-----------------------------------------------------------------------------

(* The pool was initialized before: clones of a remote with some first commit *)
(* (git pull fails in a repository without any) and none of the files.        *)
Init ==
  /\ Queue!Init
  /\ stage = [w \in Workers |-> "idle"]
  /\ todo = [w \in Workers |-> <<>>]
  /\ clone = [w \in Workers |-> [commits |-> {}, tree |-> EmptyTree, base |-> EmptyTree,
                                 index |-> EmptyTree, work |-> EmptyTree]]
  /\ remote = [commits |-> {}, tree |-> EmptyTree]
  /\ author = <<>>
  /\ logged = {}
  /\ forgotten = {}
  /\ epoch = 0

(* The server takes a result; it listens once every clone is initialized. *)
Post(j) ==
  /\ j \notin forgotten
  /\ \A w \in Workers : stage[w] # "init"
  /\ Queue!Accept(j)
  /\ UNCHANGED <<stage, todo, clone, remote, author, logged, forgotten, epoch>>

(* A worker takes a batch from the queue.  The files come in no order. *)
Take(w) ==
  /\ stage[w] = "idle"
  /\ \E S \in SUBSET accepted \ {{}} :
       /\ Queue!Begin(w, S)
       /\ \E list \in SetToSeqs(S) : todo' = [todo EXCEPT ![w] = list]
  /\ stage' = [stage EXCEPT ![w] = "clean"]
  /\ UNCHANGED <<clone, remote, author, logged, forgotten, epoch>>

(* pushJobs: clean the clone and go on to the commits. *)
Clean(w) ==
  /\ stage[w] = "clean"
  /\ CanPull(Reset(clone[w]))
  /\ clone' = [clone EXCEPT ![w] = Pulled(Reset(clone[w]))]
  /\ stage' = [stage EXCEPT ![w] = "commit"]
  /\ UNCHANGED <<queue, todo, remote, author, logged, forgotten, epoch>>

(* pushJobs: the reset or the pull fails and the batch is given up.  Whatever *)
(* a merge with conflicts leaves is tracked: the next reset --hard, which     *)
(* comes first whenever the clone is used again, takes it away.               *)
CleanFails(w) ==
  /\ stage[w] = "clean"
  /\ GitMayFail \/ ~ CanPull(Reset(clone[w]))
  /\ clone' \in {[clone EXCEPT ![w] = c] : c \in {clone[w], Reset(clone[w])}}
  /\ logged' = logged \cup writing[w]
  /\ todo' = [todo EXCEPT ![w] = <<>>]
  /\ stage' = [stage EXCEPT ![w] = "mark"]
  /\ Queue!Write(w)
  /\ UNCHANGED <<remote, author, forgotten, epoch>>

(* pushJobs: commitJob of the next result. *)
CommitJob(w) ==
  /\ stage[w] = "commit"
  /\ todo[w] # <<>>
  /\ Len(author) < MaxCommits
  /\ clone' = [clone EXCEPT ![w] = Committed(Added(Written(clone[w], Head(todo[w]))))]
  /\ author' = Append(author, Head(todo[w]))
  /\ todo' = [todo EXCEPT ![w] = Tail(@)]
  /\ UNCHANGED <<queue, stage, remote, logged, forgotten, epoch>>

(* commitJob fails before, in or after the write or after git add.  The next  *)
(* commit of the clone includes what was left.                                *)
CommitJobFails(w) ==
  /\ GitMayFail
  /\ stage[w] = "commit"
  /\ todo[w] # <<>>
  /\ \E left \in Unfinished(clone[w], Head(todo[w])) : clone' = [clone EXCEPT ![w] = left]
  /\ logged' = logged \cup {Head(todo[w])}
  /\ todo' = [todo EXCEPT ![w] = Tail(@)]
  /\ UNCHANGED <<queue, stage, remote, author, forgotten, epoch>>

(* git push: the remote takes the branch if it contains what the remote has. *)
PushDone(w) ==
  /\ UpToDate(clone[w])
  /\ remote' = [commits |-> clone[w].commits, tree |-> clone[w].tree]
  /\ clone' = [clone EXCEPT ![w].base = clone[w].tree]

(* pushJobs: every result was tried, the push goes well and pushJobs returns. *)
Push(w) ==
  /\ stage[w] = "commit"
  /\ todo[w] = <<>>
  /\ PushDone(w)
  /\ stage' = [stage EXCEPT ![w] = "mark"]
  /\ Queue!Write(w)
  /\ UNCHANGED <<todo, author, logged, forgotten, epoch>>

PushFails_Unlogged(w) ==
  /\ stage[w] = "commit"
  /\ todo[w] = <<>>
  /\ GitMayFail \/ ~ UpToDate(clone[w])
  /\ PushDone(w) \/ UNCHANGED <<remote, clone>>
  /\ stage' = [stage EXCEPT ![w] = "mark"]
  /\ Queue!Write(w)
  /\ UNCHANGED <<todo, author, logged, forgotten, epoch>>

(* pushJobs: the push is rejected or fails, possibly after the remote took    *)
(* the branch.  It is logged for every result, and pushJobs returns.          *)
PushFails(w) ==
  /\ stage[w] = "commit"
  /\ todo[w] = <<>>
  /\ GitMayFail \/ ~ UpToDate(clone[w])
  /\ PushDone(w) \/ UNCHANGED <<remote, clone>>
  /\ logged' = logged \cup writing[w]
  /\ stage' = [stage EXCEPT ![w] = "mark"]
  /\ Queue!Write(w)
  /\ UNCHANGED <<todo, author, forgotten, epoch>>

(* run: markJobsCompleted lets go of the files. *)
MarkJobsCompleted(w) ==
  /\ stage[w] = "mark"
  /\ stage' = [stage EXCEPT ![w] = "idle"]
  /\ Queue!Release(w)
  /\ UNCHANGED <<todo, clone, remote, author, logged, forgotten, epoch>>

(* The controller stops, in the middle of a commitJob perhaps, is started     *)
(* again and has its pool to initialize.                                      *)
Restart ==
  /\ epoch < MaxRestarts
  /\ epoch' = epoch + 1
  /\ forgotten' = forgotten \cup accepted
  /\ accepted' = {}
  /\ writing' = [w \in Workers |-> {}]
  /\ todo' = [w \in Workers |-> <<>>]
  /\ stage' = [w \in Workers |-> "init"]
  /\ clone' \in {left \in [Workers -> UNION {LeftBy(w) : w \in Workers}] :
                   \A w \in Workers : left[w] \in LeftBy(w)}
  /\ UNCHANGED <<written, remote, author, logged>>

(* initialize: the clone is there, so it is only cleaned.  When that fails    *)
(* the controller does not start; the next start initializes it again.        *)
Initialize(w) ==
  /\ stage[w] = "init"
  /\ \/ /\ CanPull(Reset(clone[w]))
        /\ clone' = [clone EXCEPT ![w] = Pulled(Reset(clone[w]))]
        /\ stage' = [stage EXCEPT ![w] = "idle"]
     \/ /\ GitMayFail \/ ~ CanPull(Reset(clone[w]))
        /\ clone' = [clone EXCEPT ![w] = Reset(clone[w])]
        /\ UNCHANGED stage
  /\ UNCHANGED <<queue, todo, remote, author, logged, forgotten, epoch>>

Next ==
  \/ \E j \in Jobs : Post(j)
  \/ \E w \in Workers :
       \/ Take(w)
       \/ Clean(w)
       \/ CleanFails(w)
       \/ CommitJob(w)
       \/ CommitJobFails(w)
       \/ Push(w)
       \/ PushFails(w)
       \/ MarkJobsCompleted(w)
       \/ Initialize(w)
  \/ Restart

Spec == Init /\ [][Next]_vars

-----------------------------------------------------------------------------
(* Properties. *)

(* What a file may contain: nothing, all that one of its results contains, or *)
(* a part of it if a failure of a result of this file was logged or the       *)
(* controller was stopped with one in its hands.                              *)
Explained(f, content) ==
  \/ content = NoFile
  \/ \E j \in accepted \cup forgotten : FileOf[j] = f /\ content = ContentOf[j]
  \/ content = Torn /\ \E j \in logged \cup forgotten : FileOf[j] = f

(* No result is dropped without a word: one that went through pushJobs is in  *)
(* the history of the remote, or some failure was logged for it.  The errors  *)
(* of clean, of each commitJob and of push must all come through, and clean   *)
(* must not drop the commits of a push that failed before.                    *)
NothingDropped ==
  \A j \in written : j \in logged \/ \E n \in remote.commits : author[n] = j

(* None is damaged without a word: git add . takes along whatever a failed    *)
(* commitJob or a crash left, but no part of a result gets to the remote, nor *)
(* into the file of another result, that nothing was said of.                 *)
NothingDamaged == \A f \in Files : Explained(f, remote.tree[f])

(* Both together: what is stored gets to the remote, or a log tells. *)
NoSilentLoss == NothingDropped /\ NothingDamaged

(* A commit is never lost: it is in the remote or waits in a clone for a push *)
(* that goes well, over failed pushes, reset --hard, merges and restarts.     *)
CommitsSurvive ==
  \A n \in DOMAIN author :
    n \in remote.commits \/ \E w \in Workers : n \in clone[w].commits

(* Files of the working tree that neither a commit nor the index has. *)
Untracked(c) ==
  {f \in Files : c.work[f] # NoFile /\ c.index[f] = NoFile /\ c.tree[f] = NoFile}

(* A clone whose commits are all in the remote is never stuck: whatever a     *)
(* failed commitJob left in it, short of a file that git does not know,       *)
(* reset --hard makes the next pull work.                                     *)
PushedCloneCanPull ==
  \A w \in Workers :
    clone[w].commits \subseteq remote.commits /\ Untracked(clone[w]) = {} =>
      CanPull(Reset(clone[w]))

(* docs/data.md:54-56: "there can be conflicts with Git when writing to the   *)
(* same file without having the latest update. Therefore each write to a      *)
(* specific file in Fusty is queued up for that specific file."  No clone     *)
(* ever has to merge two different changes of a file.                         *)
NoPullConflict == \A w \in Workers : UpToDate(clone[w]) \/ ~ Conflict(clone[w])

=============================================================================
