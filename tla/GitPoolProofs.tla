---------------------------- MODULE GitPoolProofs ----------------------------
(***************************************************************************)
(* Proofs about the clones of the git data store, for every pool, every    *)
(* set of results and every assignment of files and contents to them.      *)
(***************************************************************************)
EXTENDS GitPool, SequenceLemmas, FiniteSetTheorems, TLAPS

-----------------------------------------------------------------------------
(* What the operators on clones return. *)

LEMMA ResetType ==
  ASSUME NEW c \in Clones
  PROVE  /\ Reset(c) \in Clones
         /\ Reset(c).commits = c.commits
         /\ Reset(c).tree = c.tree
         /\ Reset(c).base = c.base
BY DEF Reset, Clones, Trees

LEMMA MergedType ==
  ASSUME NEW c \in Clones, remote \in Branches
  PROVE  Merged(c) \in Trees
BY DEF Merged, Clones, Branches, Trees

LEMMA PulledType ==
  ASSUME NEW c \in Clones, remote \in Branches
  PROVE  /\ Pulled(c) \in Clones
         /\ Pulled(c).commits = c.commits \cup remote.commits
<1>1. CASE UpToDate(c)
  BY <1>1 DEF Pulled, UpToDate, Clones, Branches
<1>2. CASE ~ UpToDate(c)
  <2>1. Merged(c) \in Trees
    BY MergedType
  <2>2. [f \in Files |-> IF c.work[f] = c.tree[f] THEN Merged(c)[f] ELSE c.work[f]] \in Trees
    BY <2>1 DEF Clones, Trees
  <2> QED BY <1>2, <2>1, <2>2 DEF Pulled, Clones, Branches
<1> QED BY <1>1, <1>2

LEMMA WrittenType ==
  ASSUME NEW c \in Clones, NEW j \in Jobs
  PROVE  /\ Written(c, j) \in Clones
         /\ Written(c, j).commits = c.commits
         /\ Written(c, j).tree = c.tree
         /\ Written(c, j).base = c.base
BY ConstantsAssumption DEF Written, Clones, Trees

LEMMA AddedType ==
  ASSUME NEW c \in Clones
  PROVE  /\ Added(c) \in Clones
         /\ Added(c).commits = c.commits
         /\ Added(c).tree = c.tree
         /\ Added(c).base = c.base
BY DEF Added, Clones, Trees

LEMMA CommittedType ==
  ASSUME NEW c \in Clones, author \in Seq(Jobs)
  PROVE  /\ Committed(c) \in Clones
         /\ Committed(c).commits = c.commits \cup {Len(author) + 1}
<1>1. Len(author) + 1 \in Nat
  OBVIOUS
<1>2. c.commits \cup {Len(author) + 1} \in SUBSET Nat
  BY <1>1 DEF Clones
<1> QED BY <1>2 DEF Committed, Clones

(* reset --hard followed by pull. *)
LEMMA CleanedType ==
  ASSUME NEW c \in Clones, remote \in Branches
  PROVE  /\ Pulled(Reset(c)) \in Clones
         /\ Pulled(Reset(c)).commits = c.commits \cup remote.commits
<1>1. Reset(c) \in Clones /\ Reset(c).commits = c.commits
  BY ResetType
<1> QED BY <1>1, PulledType

(* What the commitJob of a result returns in its clone. *)
LEMMA CommitJobType ==
  ASSUME NEW c \in Clones, NEW j \in Jobs, author \in Seq(Jobs)
  PROVE  /\ Committed(Added(Written(c, j))) \in Clones
         /\ Committed(Added(Written(c, j))).commits = c.commits \cup {Len(author) + 1}
<1>1. Written(c, j) \in Clones /\ Written(c, j).commits = c.commits
  BY WrittenType
<1>2. Added(Written(c, j)) \in Clones /\ Added(Written(c, j)).commits = c.commits
  BY <1>1, AddedType
<1> QED BY <1>2, CommittedType

LEMMA TruncatedType ==
  ASSUME NEW c \in Clones, NEW j \in Jobs
  PROVE  /\ Truncated(c, j) \in Clones
         /\ Truncated(c, j).commits = c.commits
         /\ Truncated(c, j).tree = c.tree
         /\ Truncated(c, j).base = c.base
BY ConstantsAssumption DEF Truncated, Clones, Trees

(* What a commitJob leaves that does not get to its commit: no commit more or *)
(* less.                                                                      *)
LEMMA UnfinishedType ==
  ASSUME NEW c \in Clones, NEW j \in Jobs, NEW left \in Unfinished(c, j)
  PROVE  /\ left \in Clones
         /\ left.commits = c.commits
         /\ left.tree = c.tree
         /\ left.base = c.base
<1>1. /\ Written(c, j) \in Clones
      /\ Written(c, j).commits = c.commits
      /\ Written(c, j).tree = c.tree
      /\ Written(c, j).base = c.base
  BY WrittenType
<1>2. /\ Added(Written(c, j)) \in Clones
      /\ Added(Written(c, j)).commits = c.commits
      /\ Added(Written(c, j)).tree = c.tree
      /\ Added(Written(c, j)).base = c.base
  BY <1>1, AddedType
<1>3. left \in {c, Truncated(c, j), Written(c, j), Added(Written(c, j))}
  BY DEF Unfinished
<1> QED BY <1>1, <1>2, <1>3, TruncatedType

LEMMA LeftByType ==
  ASSUME TypeOK, NEW w \in Workers, NEW left \in LeftBy(w)
  PROVE  /\ left \in Clones
         /\ left.commits = clone[w].commits
         /\ left.tree = clone[w].tree
         /\ left.base = clone[w].base
<1>1. CASE stage[w] = "commit" /\ todo[w] # <<>>
  <2>1. Head(todo[w]) \in Jobs /\ clone[w] \in Clones
    BY <1>1 DEF TypeOK
  <2>2. left \in Unfinished(clone[w], Head(todo[w]))
    BY <1>1 DEF LeftBy
  <2> QED BY <2>1, <2>2, UnfinishedType
<1>2. CASE ~ (stage[w] = "commit" /\ todo[w] # <<>>)
  BY <1>2 DEF LeftBy, TypeOK
<1> QED BY <1>1, <1>2

LEMMA PushDoneType ==
  ASSUME clone \in [Workers -> Clones], NEW w \in Workers, PushDone(w)
  PROVE  /\ clone' \in [Workers -> Clones]
         /\ remote' \in Branches
         /\ remote.commits \subseteq remote'.commits
         /\ remote'.commits = clone[w].commits
         /\ \A v \in Workers : clone'[v].commits = clone[v].commits
         /\ \A v \in Workers : clone'[v].tree = clone[v].tree
         /\ \A v \in Workers \ {w} : clone'[v] = clone[v]
         /\ clone'[w].base = clone[w].tree
<1>1. [clone[w] EXCEPT !.base = clone[w].tree] \in Clones
  BY DEF Clones
<1>2. clone' = [clone EXCEPT ![w] = [clone[w] EXCEPT !.base = clone[w].tree]]
  BY DEF PushDone
<1>3. clone' \in [Workers -> Clones] /\ \A v \in Workers \ {w} : clone'[v] = clone[v]
  BY <1>1, <1>2
<1>4. clone'[w] = [clone[w] EXCEPT !.base = clone[w].tree]
  BY <1>2
<1>5. /\ clone'[w].commits = clone[w].commits
      /\ clone'[w].tree = clone[w].tree
      /\ clone'[w].base = clone[w].tree
  BY <1>4 DEF Clones
<1>6. remote' \in Branches /\ remote'.commits = clone[w].commits
  BY DEF PushDone, Branches, Clones
<1>7. remote.commits \subseteq remote'.commits
  BY <1>6 DEF PushDone, UpToDate
<1> QED BY <1>3, <1>5, <1>6, <1>7

-----------------------------------------------------------------------------
(* Types. *)

LEMMA TypeInit == Init => TypeOK
<1> SUFFICES ASSUME Init
             PROVE  TypeOK
  OBVIOUS
<1>1. EmptyTree \in Trees
  BY DEF EmptyTree, Trees
<1>2. clone \in [Workers -> Clones] /\ remote \in Branches
  BY <1>1 DEF Init, Clones, Branches
<1>3. author \in Seq(Jobs) /\ todo \in [Workers -> Seq(Jobs)]
  BY DEF Init
<1> QED BY <1>2, <1>3 DEF Init, Queue!Init, TypeOK

(* The lists of a set of results. *)
LEMMA ListType ==
  ASSUME NEW S \in SUBSET Jobs, IsFiniteSet(S), NEW list \in SetToSeqs(S)
  PROVE  /\ list \in Seq(Jobs)
         /\ Range(list) = S
<1> DEFINE D == 1 .. Cardinality(S)
<1>1. Cardinality(S) \in Nat
  BY FS_CardinalityType
<1>2. list \in [D -> S] /\ \A i, k \in D : i # k => list[i] # list[k]
  BY DEF SetToSeqs
<1>3. list \in Seq(Jobs)
  BY <1>1, <1>2
<1>4. list \in Injection(D, S)
  BY <1>2 DEF Injection, IsInjective
<1>5. Cardinality(D) = Cardinality(S)
  BY <1>1, FS_Interval
<1>6. list \in Surjection(D, S)
  BY <1>4, <1>5, FS_Injection
<1>7. Range(list) = S
  BY <1>2, <1>6 DEF Surjection, Range
<1> QED BY <1>3, <1>7

(* Only finitely many results are accepted at any time. *)
Finite == IsFiniteSet(accepted)

LEMMA TypeNext == TypeOK /\ Finite /\ [Next]_vars => TypeOK' /\ Finite'
<1> SUFFICES ASSUME TypeOK, Finite, [Next]_vars
             PROVE  TypeOK' /\ Finite'
  OBVIOUS
<1>1. ASSUME NEW j \in Jobs, Post(j)
      PROVE  TypeOK' /\ Finite'
  <2>1. TypeOK'
    BY <1>1 DEF Post, Queue!Accept, TypeOK
  <2>2. Finite'
    BY <1>1, FS_AddElement DEF Post, Queue!Accept, Finite
  <2> QED BY <2>1, <2>2
<1>2. ASSUME NEW w \in Workers, Take(w)
      PROVE  TypeOK' /\ Finite'
  <2>1. PICK S \in SUBSET accepted \ {{}} :
          /\ Queue!Begin(w, S)
          /\ \E list \in SetToSeqs(S) : todo' = [todo EXCEPT ![w] = list]
    BY <1>2 DEF Take
  <2>2. PICK list \in SetToSeqs(S) : todo' = [todo EXCEPT ![w] = list]
    BY <2>1
  <2>3. S \in SUBSET Jobs /\ IsFiniteSet(S)
    BY <2>1, FS_Subset DEF TypeOK, Finite
  <2>4. list \in Seq(Jobs)
    BY <2>3, ListType
  <2>5. todo' \in [Workers -> Seq(Jobs)]
    BY <2>2, <2>4 DEF TypeOK
  <2>6. writing' \in [Workers -> SUBSET Jobs]
    BY <2>1, <2>3 DEF Queue!Begin, TypeOK
  <2> QED BY <1>2, <2>1, <2>5, <2>6 DEF Take, Queue!Begin, TypeOK, Finite
<1>3. ASSUME NEW w \in Workers, Clean(w)
      PROVE  TypeOK' /\ Finite'
  <2>1. Pulled(Reset(clone[w])) \in Clones
    BY CleanedType DEF TypeOK
  <2> QED BY <1>3, <2>1 DEF Clean, queue, TypeOK, Finite
<1>4. ASSUME NEW w \in Workers, CleanFails(w)
      PROVE  TypeOK' /\ Finite'
  <2>1. Reset(clone[w]) \in Clones
    BY ResetType DEF TypeOK
  <2>2. clone' \in [Workers -> Clones]
    BY <1>4, <2>1 DEF CleanFails, TypeOK
  <2> QED BY <1>4, <2>2 DEF CleanFails, Queue!Write, TypeOK, Finite
<1>5. ASSUME NEW w \in Workers, CommitJob(w)
      PROVE  TypeOK' /\ Finite'
  <2>1. Head(todo[w]) \in Jobs /\ Tail(todo[w]) \in Seq(Jobs)
    BY <1>5 DEF CommitJob, TypeOK
  <2>2. Committed(Added(Written(clone[w], Head(todo[w])))) \in Clones
    BY <2>1, CommitJobType DEF TypeOK
  <2>3. author' \in Seq(Jobs)
    BY <1>5, <2>1 DEF CommitJob, TypeOK
  <2> QED BY <1>5, <2>1, <2>2, <2>3 DEF CommitJob, queue, TypeOK, Finite
<1>6. ASSUME NEW w \in Workers, CommitJobFails(w)
      PROVE  TypeOK' /\ Finite'
  <2>1. Head(todo[w]) \in Jobs /\ Tail(todo[w]) \in Seq(Jobs)
    BY <1>6 DEF CommitJobFails, TypeOK
  <2>2. PICK left \in Unfinished(clone[w], Head(todo[w])) :
          clone' = [clone EXCEPT ![w] = left]
    BY <1>6 DEF CommitJobFails
  <2>3. left \in Clones
    BY <2>1, <2>2, UnfinishedType DEF TypeOK
  <2> QED BY <1>6, <2>1, <2>2, <2>3 DEF CommitJobFails, queue, TypeOK, Finite
<1>7. ASSUME NEW w \in Workers, Push(w)
      PROVE  TypeOK' /\ Finite'
  <2>1. clone' \in [Workers -> Clones] /\ remote' \in Branches
    BY <1>7, PushDoneType DEF Push, TypeOK
  <2> QED BY <1>7, <2>1 DEF Push, Queue!Write, TypeOK, Finite
<1>8. ASSUME NEW w \in Workers, PushFails(w)
      PROVE  TypeOK' /\ Finite'
  <2>1. clone' \in [Workers -> Clones] /\ remote' \in Branches
    BY <1>8, PushDoneType DEF PushFails, TypeOK
  <2> QED BY <1>8, <2>1 DEF PushFails, Queue!Write, TypeOK, Finite
<1>9. ASSUME NEW w \in Workers, MarkJobsCompleted(w)
      PROVE  TypeOK' /\ Finite'
  BY <1>9 DEF MarkJobsCompleted, Queue!Release, TypeOK, Finite
<1>10. ASSUME NEW w \in Workers, Initialize(w)
       PROVE  TypeOK' /\ Finite'
  <2>1. Reset(clone[w]) \in Clones /\ Pulled(Reset(clone[w])) \in Clones
    BY ResetType, CleanedType DEF TypeOK
  <2> QED BY <1>10, <2>1 DEF Initialize, queue, TypeOK, Finite
<1>11. CASE Restart
  <2>1. clone' \in [Workers -> Clones]
    BY <1>11, LeftByType DEF Restart
  <2> QED BY <1>11, <2>1, FS_EmptySet DEF Restart, TypeOK, Finite
<1>12. CASE UNCHANGED vars
  BY <1>12 DEF vars, queue, TypeOK, Finite
<1> QED BY <1>1, <1>2, <1>3, <1>4, <1>5, <1>6, <1>7, <1>8, <1>9, <1>10, <1>11, <1>12 DEF Next

LEMMA Typed == Spec => [](TypeOK /\ Finite)
<1>1. Init => Finite
  BY FS_EmptySet DEF Init, Queue!Init, Finite
<1> QED BY <1>1, TypeInit, TypeNext, PTL DEF Spec

(* The clones, the remote and the queue always have the shape that the code   *)
(* and git give them.                                                         *)
THEOREM TypeCorrect == Spec => []TypeOK
  BY Typed, PTL

-----------------------------------------------------------------------------
(* What a step does to the branches. *)

Quiet == UNCHANGED <<clone, remote, author>>

(* Only index and working trees change. *)
Tidies ==
  /\ clone' \in [Workers -> Clones]
  /\ \A w \in Workers :
       /\ clone'[w].commits = clone[w].commits
       /\ clone'[w].tree = clone[w].tree
       /\ clone'[w].base = clone[w].base
  /\ UNCHANGED <<remote, author>>

Pulls(w) ==
  /\ clone' = [clone EXCEPT ![w] = Pulled(Reset(clone[w]))]
  /\ UNCHANGED <<remote, author>>

Commits(w) ==
  /\ \E j \in Jobs :
       /\ clone' = [clone EXCEPT ![w] = Committed(Added(Written(clone[w], j)))]
       /\ author' = Append(author, j)
  /\ UNCHANGED remote

Pushes(w) == PushDone(w) /\ UNCHANGED author

LEMMA Kinds ==
  ASSUME TypeOK, [Next]_vars
  PROVE  Quiet \/ Tidies \/ \E w \in Workers : Pulls(w) \/ Commits(w) \/ Pushes(w)
<1>1. ASSUME NEW j \in Jobs, Post(j)
      PROVE  Quiet
  BY <1>1 DEF Post, Quiet
<1>2. ASSUME NEW w \in Workers, Take(w) \/ MarkJobsCompleted(w)
      PROVE  Quiet
  BY <1>2 DEF Take, MarkJobsCompleted, Quiet
<1>3. ASSUME NEW w \in Workers, Clean(w)
      PROVE  Pulls(w)
  BY <1>3 DEF Clean, Pulls
<1>4. ASSUME NEW w \in Workers, CleanFails(w)
      PROVE  Tidies
  <2>1. PICK c \in {clone[w], Reset(clone[w])} : clone' = [clone EXCEPT ![w] = c]
    BY <1>4 DEF CleanFails
  <2>2. /\ c \in Clones
        /\ c.commits = clone[w].commits
        /\ c.tree = clone[w].tree
        /\ c.base = clone[w].base
    BY <2>1, ResetType DEF TypeOK
  <2> QED BY <1>4, <2>1, <2>2 DEF CleanFails, Tidies, TypeOK
<1>5. ASSUME NEW w \in Workers, CommitJob(w)
      PROVE  Commits(w)
  <2>1. Head(todo[w]) \in Jobs
    BY <1>5 DEF CommitJob, TypeOK
  <2> QED BY <1>5, <2>1 DEF CommitJob, Commits
<1>6. ASSUME NEW w \in Workers, CommitJobFails(w)
      PROVE  Tidies
  <2>1. Head(todo[w]) \in Jobs
    BY <1>6 DEF CommitJobFails, TypeOK
  <2>2. PICK left \in Unfinished(clone[w], Head(todo[w])) :
          clone' = [clone EXCEPT ![w] = left]
    BY <1>6 DEF CommitJobFails
  <2>3. /\ left \in Clones
        /\ left.commits = clone[w].commits
        /\ left.tree = clone[w].tree
        /\ left.base = clone[w].base
    BY <2>1, <2>2, UnfinishedType DEF TypeOK
  <2> QED BY <1>6, <2>2, <2>3 DEF CommitJobFails, Tidies, TypeOK
<1>7. ASSUME NEW w \in Workers, Push(w)
      PROVE  Pushes(w)
  BY <1>7 DEF Push, Pushes
<1>8. ASSUME NEW w \in Workers, PushFails(w)
      PROVE  Quiet \/ Pushes(w)
  BY <1>8 DEF PushFails, Pushes, Quiet
<1>9. ASSUME NEW w \in Workers, Initialize(w)
      PROVE  Pulls(w) \/ Tidies
  <2>1. /\ Reset(clone[w]) \in Clones
        /\ Reset(clone[w]).commits = clone[w].commits
        /\ Reset(clone[w]).tree = clone[w].tree
        /\ Reset(clone[w]).base = clone[w].base
    BY ResetType DEF TypeOK
  <2> QED BY <1>9, <2>1 DEF Initialize, Pulls, Tidies, TypeOK
<1>10. CASE Restart
  <2>1. /\ clone' \in [Workers -> UNION {LeftBy(w) : w \in Workers}]
        /\ \A w \in Workers : clone'[w] \in LeftBy(w)
    BY <1>10 DEF Restart
  <2> QED BY <1>10, <2>1, LeftByType DEF Restart, Tidies
<1>11. CASE UNCHANGED vars
  BY <1>11 DEF vars, Quiet
<1> QED BY <1>1, <1>2, <1>3, <1>4, <1>5, <1>6, <1>7, <1>8, <1>9, <1>10, <1>11 DEF Next

(* No branch ever loses a commit, and a commit is made in some clone. *)
Grows ==
  /\ remote.commits \subseteq remote'.commits
  /\ \A w \in Workers : clone[w].commits \subseteq clone'[w].commits
  /\ \A n \in DOMAIN author : n \in DOMAIN author' /\ author'[n] = author[n]
  /\ \A n \in DOMAIN author' \ DOMAIN author : \E w \in Workers : n \in clone'[w].commits

LEMMA Growth ==
  ASSUME TypeOK, [Next]_vars
  PROVE  Grows
<1>1. CASE Quiet
  BY <1>1 DEF Quiet, Grows
<1>2. CASE Tidies
  BY <1>2 DEF Tidies, Grows, TypeOK
<1>3. ASSUME NEW w \in Workers, Pulls(w)
      PROVE  Grows
  <2>1. Pulled(Reset(clone[w])).commits = clone[w].commits \cup remote.commits
    BY CleanedType DEF TypeOK
  <2> QED BY <1>3, <2>1 DEF Pulls, Grows, TypeOK
<1>4. ASSUME NEW w \in Workers, Commits(w)
      PROVE  Grows
  <2>1. PICK j \in Jobs :
          /\ clone' = [clone EXCEPT ![w] = Committed(Added(Written(clone[w], j)))]
          /\ author' = Append(author, j)
    BY <1>4 DEF Commits
  <2>2. clone'[w].commits = clone[w].commits \cup {Len(author) + 1}
    BY <2>1, CommitJobType DEF TypeOK
  <2>3. \A v \in Workers : clone[v].commits \subseteq clone'[v].commits
    BY <2>1, <2>2 DEF TypeOK
  <2>4. /\ DOMAIN author' = DOMAIN author \cup {Len(author) + 1}
        /\ \A n \in DOMAIN author : author'[n] = author[n]
    BY <2>1 DEF TypeOK
  <2> QED BY <1>4, <2>2, <2>3, <2>4 DEF Commits, Grows
<1>5. ASSUME NEW w \in Workers, Pushes(w)
      PROVE  Grows
  BY <1>5, PushDoneType DEF Pushes, Grows, TypeOK
<1> QED BY <1>1, <1>2, <1>3, <1>4, <1>5, Kinds

(* A commit stays in its clone until the remote has it: no reset, merge,      *)
(* failed push or restart drops it.                                           *)
THEOREM CommitsKept == Spec => []CommitsSurvive
<1>1. Init => CommitsSurvive
  BY DEF Init, CommitsSurvive
<1>2. TypeOK /\ CommitsSurvive /\ [Next]_vars => CommitsSurvive'
  <2> SUFFICES ASSUME TypeOK, CommitsSurvive, [Next]_vars, NEW n \in DOMAIN author'
               PROVE  n \in remote'.commits \/ \E w \in Workers : n \in clone'[w].commits
    BY DEF CommitsSurvive
  <2>1. Grows
    BY Growth
  <2> QED BY <2>1 DEF Grows, CommitsSurvive
<1> QED BY <1>1, <1>2, TypeCorrect, PTL DEF Spec

-----------------------------------------------------------------------------
(* Clones that have nothing of their own. *)

(* Branches hold commits that were made. *)
Numbered ==
  /\ remote.commits \subseteq DOMAIN author
  /\ \A w \in Workers : clone[w].commits \subseteq DOMAIN author

(* Two clones share only what the remote has. *)
Unshared ==
  \A v, w \in Workers : v # w => clone[v].commits \cap clone[w].commits \subseteq remote.commits

(* Without unpushed commits the branch of a clone is what the clone has in    *)
(* common with the remote.                                                    *)
BaseWhenPushed ==
  \A w \in Workers : clone[w].commits \subseteq remote.commits => clone[w].tree = clone[w].base

CloneInv == TypeOK /\ Numbered /\ Unshared /\ BaseWhenPushed

LEMMA NumberedNext ==
  ASSUME TypeOK, Numbered, [Next]_vars
  PROVE  Numbered'
<1>1. Grows
  BY Growth
<1>2. DOMAIN author \subseteq DOMAIN author'
  BY <1>1 DEF Grows
<1>3. CASE Quiet
  BY <1>3 DEF Quiet, Numbered
<1>4. CASE Tidies
  BY <1>4 DEF Tidies, Numbered, TypeOK
<1>5. ASSUME NEW w \in Workers, Pulls(w)
      PROVE  Numbered'
  <2>1. Pulled(Reset(clone[w])).commits = clone[w].commits \cup remote.commits
    BY CleanedType DEF TypeOK
  <2> QED BY <1>5, <2>1 DEF Pulls, Numbered, TypeOK
<1>6. ASSUME NEW w \in Workers, Commits(w)
      PROVE  Numbered'
  <2>1. PICK j \in Jobs :
          /\ clone' = [clone EXCEPT ![w] = Committed(Added(Written(clone[w], j)))]
          /\ author' = Append(author, j)
    BY <1>6 DEF Commits
  <2>2. clone'[w].commits = clone[w].commits \cup {Len(author) + 1}
    BY <2>1, CommitJobType DEF TypeOK
  <2>3. Len(author) + 1 \in DOMAIN author'
    BY <2>1 DEF TypeOK
  <2>4. \A v \in Workers \ {w} : clone'[v] = clone[v]
    BY <2>1 DEF TypeOK
  <2> QED BY <1>2, <1>6, <2>2, <2>3, <2>4 DEF Commits, Numbered
<1>7. ASSUME NEW w \in Workers, Pushes(w)
      PROVE  Numbered'
  BY <1>7, PushDoneType DEF Pushes, Numbered, TypeOK
<1> QED BY <1>3, <1>4, <1>5, <1>6, <1>7, Kinds

LEMMA UnsharedNext ==
  ASSUME TypeOK, Numbered, Unshared, [Next]_vars
  PROVE  Unshared'
<1>1. CASE Quiet
  BY <1>1 DEF Quiet, Unshared
<1>2. CASE Tidies
  BY <1>2 DEF Tidies, Unshared, TypeOK
<1>3. ASSUME NEW w \in Workers, Pulls(w)
      PROVE  Unshared'
  <2>1. Pulled(Reset(clone[w])).commits = clone[w].commits \cup remote.commits
    BY CleanedType DEF TypeOK
  <2>2. /\ clone'[w].commits = clone[w].commits \cup remote.commits
        /\ \A v \in Workers \ {w} : clone'[v] = clone[v]
    BY <1>3, <2>1 DEF Pulls, TypeOK
  <2> QED BY <1>3, <2>2 DEF Pulls, Unshared
<1>4. ASSUME NEW w \in Workers, Commits(w)
      PROVE  Unshared'
  <2>1. PICK j \in Jobs :
          clone' = [clone EXCEPT ![w] = Committed(Added(Written(clone[w], j)))]
    BY <1>4 DEF Commits
  <2>2. /\ clone'[w].commits = clone[w].commits \cup {Len(author) + 1}
        /\ \A v \in Workers \ {w} : clone'[v] = clone[v]
    BY <2>1, CommitJobType DEF TypeOK
  <2>3. Len(author) + 1 \notin DOMAIN author
    BY DEF TypeOK
  <2>4. \A v \in Workers : Len(author) + 1 \notin clone[v].commits
    BY <2>3 DEF Numbered
  <2> QED BY <1>4, <2>2, <2>4 DEF Commits, Unshared
<1>5. ASSUME NEW w \in Workers, Pushes(w)
      PROVE  Unshared'
  <2>1. /\ remote.commits \subseteq remote'.commits
        /\ \A v \in Workers : clone'[v].commits = clone[v].commits
    BY <1>5, PushDoneType DEF Pushes, TypeOK
  <2> QED BY <2>1 DEF Unshared
<1> QED BY <1>1, <1>2, <1>3, <1>4, <1>5, Kinds

LEMMA BaseWhenPushedNext ==
  ASSUME CloneInv, [Next]_vars
  PROVE  BaseWhenPushed'
<1> USE DEF CloneInv
<1>1. CASE Quiet
  BY <1>1 DEF Quiet, BaseWhenPushed
<1>2. CASE Tidies
  BY <1>2 DEF Tidies, BaseWhenPushed, TypeOK
<1>3. ASSUME NEW w \in Workers, Pulls(w)
      PROVE  BaseWhenPushed'
  <2> DEFINE c == Reset(clone[w])
  <2>1. /\ c \in Clones
        /\ c.commits = clone[w].commits
        /\ c.tree = clone[w].tree
        /\ c.base = clone[w].base
    BY ResetType DEF TypeOK
  <2>2. /\ Pulled(c).commits = clone[w].commits \cup remote.commits
        /\ Pulled(c) \in Clones
    BY CleanedType DEF TypeOK
  <2>3. ASSUME clone[w].commits \subseteq remote.commits
        PROVE  Pulled(c).tree = Pulled(c).base
    <3>1. c.tree = c.base
      BY <2>1, <2>3 DEF BaseWhenPushed
    <3>2. CASE UpToDate(c)
      BY <3>1, <3>2 DEF Pulled
    <3>3. CASE ~ UpToDate(c)
      <4>1. Merged(c) = remote.tree
        BY <3>1 DEF Merged, TypeOK, Branches, Trees
      <4> QED BY <3>3, <4>1 DEF Pulled
    <3> QED BY <3>2, <3>3
  <2>4. /\ clone'[w] = Pulled(c)
        /\ \A v \in Workers \ {w} : clone'[v] = clone[v]
        /\ remote' = remote
    BY <1>3 DEF Pulls, TypeOK
  <2>5. clone[w].commits \subseteq clone'[w].commits
    BY <2>2, <2>4
  <2> QED BY <2>3, <2>4, <2>5 DEF BaseWhenPushed
<1>4. ASSUME NEW w \in Workers, Commits(w)
      PROVE  BaseWhenPushed'
  <2>1. PICK j \in Jobs :
          clone' = [clone EXCEPT ![w] = Committed(Added(Written(clone[w], j)))]
    BY <1>4 DEF Commits
  <2>2. /\ clone'[w].commits = clone[w].commits \cup {Len(author) + 1}
        /\ \A v \in Workers \ {w} : clone'[v] = clone[v]
    BY <2>1, CommitJobType DEF TypeOK
  <2>3. Len(author) + 1 \notin DOMAIN author
    BY DEF TypeOK
  <2>4. ~ (clone'[w].commits \subseteq remote'.commits)
    BY <1>4, <2>2, <2>3 DEF Commits, Numbered
  <2> QED BY <1>4, <2>2, <2>4 DEF Commits, BaseWhenPushed
<1>5. ASSUME NEW w \in Workers, Pushes(w)
      PROVE  BaseWhenPushed'
  <2>1. /\ remote'.commits = clone[w].commits
        /\ \A v \in Workers : clone'[v].commits = clone[v].commits
        /\ \A v \in Workers : clone'[v].tree = clone[v].tree
        /\ \A v \in Workers \ {w} : clone'[v] = clone[v]
        /\ clone'[w].base = clone[w].tree
    BY <1>5, PushDoneType DEF Pushes, TypeOK
  <2>2. ASSUME NEW v \in Workers \ {w}, clone'[v].commits \subseteq remote'.commits
        PROVE  clone[v].commits \subseteq remote.commits
    BY <2>1, <2>2 DEF Unshared
  <2> QED BY <2>1, <2>2 DEF BaseWhenPushed
<1> QED BY <1>1, <1>2, <1>3, <1>4, <1>5, Kinds

LEMMA CloneInvariance == Spec => []CloneInv
<1>1. Init => Numbered /\ Unshared /\ BaseWhenPushed
  BY DEF Init, Numbered, Unshared, BaseWhenPushed
<1>2. TypeOK' /\ CloneInv /\ [Next]_vars => CloneInv'
  BY NumberedNext, UnsharedNext, BaseWhenPushedNext DEF CloneInv
<1> QED BY <1>1, <1>2, TypeInit, TypeCorrect, PTL DEF Spec, CloneInv

(* A clone that has pushed everything is never stuck: reset --hard, which the *)
(* next clean begins with, makes its pull work.                               *)
THEOREM PushedCloneRecovers == Spec => []PushedCloneCanPull
<1>1. CloneInv => PushedCloneCanPull
  <2> SUFFICES ASSUME CloneInv, NEW w \in Workers,
                      clone[w].commits \subseteq remote.commits,
                      Untracked(clone[w]) = {}
               PROVE  CanPull(Reset(clone[w]))
    BY DEF PushedCloneCanPull
  <2> DEFINE c == Reset(clone[w])
  <2>1. c \in Clones /\ c.tree = clone[w].tree /\ c.base = clone[w].base
    BY ResetType DEF CloneInv, TypeOK
  <2>2. c.tree = c.base
    BY <2>1 DEF CloneInv, BaseWhenPushed
  <2>3. \A f \in Files : c.work[f] = c.tree[f]
    BY DEF Reset, Untracked, CloneInv, TypeOK, Clones
  <2> QED BY <2>2, <2>3 DEF CanPull, Conflict, Overwrites
<1> QED BY <1>1, CloneInvariance, PTL

(* The clone of a pool of one always has all of the remote, so it never has   *)
(* to merge.                                                                  *)
THEOREM PoolOfOneNeverConflicts ==
  ASSUME NEW w, Workers = {w}
  PROVE  Spec => []NoPullConflict
<1> DEFINE Ahead == UpToDate(clone[w])
<1>1. Init => Ahead
  BY DEF Init, UpToDate
<1>2. TypeOK /\ Ahead /\ [Next]_vars => Ahead'
  <2> SUFFICES ASSUME TypeOK, Ahead, [Next]_vars
               PROVE  Ahead'
    OBVIOUS
  <2>1. Grows
    BY Growth
  <2>2. CASE Pushes(w)
    BY <2>2, PushDoneType DEF Pushes, UpToDate, TypeOK
  <2>3. CASE remote' = remote
    BY <2>1, <2>3 DEF Grows, UpToDate
  <2> QED BY <2>2, <2>3, Kinds DEF Quiet, Tidies, Pulls, Commits
<1>3. Ahead => NoPullConflict
  BY DEF NoPullConflict
<1> QED BY <1>1, <1>2, <1>3, TypeCorrect, PTL DEF Spec

-----------------------------------------------------------------------------
(* No result is dropped without a word. *)

(* What became of a result that pushJobs of w has tried to commit. *)
Settled(w, j) == j \in logged \/ \E n \in clone[w].commits : author[n] = j

(* A worker in pushJobs has each result of its batch still to do or settled. *)
BatchAccounted ==
  \A w \in Workers :
    /\ stage[w] = "clean" => writing[w] \subseteq Range(todo[w])
    /\ stage[w] = "commit" => \A j \in writing[w] : j \in Range(todo[w]) \/ Settled(w, j)

LEMMA SettledStays ==
  ASSUME TypeOK, Numbered, [Next]_vars, logged \subseteq logged',
         NEW w \in Workers, NEW j, Settled(w, j)
  PROVE  Settled(w, j)'
<1>1. Grows
  BY Growth
<1> QED BY <1>1 DEF Grows, Settled, Numbered

LEMMA LoggedGrows ==
  ASSUME [Next]_vars
  PROVE  logged \subseteq logged'
BY DEF Next, Post, Take, Clean, CleanFails, CommitJob, CommitJobFails, Push, PushFails,
       MarkJobsCompleted, Initialize, Restart, vars

LEMMA BatchAccountedNext ==
  ASSUME TypeOK, Finite, Numbered, BatchAccounted, [Next]_vars
  PROVE  BatchAccounted'
<1>1. \A w \in Workers : \A j : Settled(w, j) => Settled(w, j)'
  BY SettledStays, LoggedGrows
<1> DEFINE Same(v) == stage'[v] = stage[v] /\ todo'[v] = todo[v] /\ writing'[v] = writing[v]
           Good(v) == /\ stage[v] = "clean" => writing[v] \subseteq Range(todo[v])
                      /\ stage[v] = "commit" =>
                           \A j \in writing[v] : j \in Range(todo[v]) \/ Settled(v, j)
<1>2. SUFFICES ASSUME NEW v \in Workers
               PROVE  Good(v)'
  BY DEF BatchAccounted
<1>3. Good(v)
  BY DEF BatchAccounted
<1>4. CASE Same(v)
  BY <1>1, <1>3, <1>4
<1>5. CASE stage'[v] \notin {"clean", "commit"}
  BY <1>5
<1>6. ASSUME NEW j \in Jobs, Post(j)
      PROVE  Same(v)
  BY <1>6 DEF Post, Queue!Accept
<1>7. ASSUME NEW w \in Workers, Take(w)
      PROVE  Good(v)'
  <2>1. PICK S \in SUBSET accepted \ {{}} :
          /\ Queue!Begin(w, S)
          /\ \E list \in SetToSeqs(S) : todo' = [todo EXCEPT ![w] = list]
    BY <1>7 DEF Take
  <2>2. PICK list \in SetToSeqs(S) : todo' = [todo EXCEPT ![w] = list]
    BY <2>1
  <2>3. S \in SUBSET Jobs /\ IsFiniteSet(S)
    BY <2>1, FS_Subset DEF TypeOK, Finite
  <2>4. Range(list) = S
    BY <2>3, ListType
  <2>5. CASE v = w
    <3>1. /\ stage'[v] = "clean"
          /\ todo'[v] = list
          /\ writing'[v] = S
      BY <1>7, <2>1, <2>2, <2>5 DEF Take, Queue!Begin, TypeOK
    <3> QED BY <2>4, <3>1
  <2>6. CASE v # w
    <3>1. Same(v)
      BY <1>7, <2>1, <2>2, <2>6 DEF Take, Queue!Begin, TypeOK
    <3> QED BY <1>4, <3>1
  <2> QED BY <2>5, <2>6
<1>8. ASSUME NEW w \in Workers, Clean(w)
      PROVE  Good(v)'
  <2>1. CASE v = w
    <3>1. /\ stage[v] = "clean" /\ stage'[v] = "commit"
          /\ todo'[v] = todo[v] /\ writing'[v] = writing[v]
      BY <1>8, <2>1 DEF Clean, queue, TypeOK
    <3> QED BY <1>3, <3>1
  <2>2. CASE v # w
    BY <1>4, <1>8, <2>2 DEF Clean, queue, TypeOK
  <2> QED BY <2>1, <2>2
<1>9. ASSUME NEW w \in Workers, CommitJob(w) \/ CommitJobFails(w)
      PROVE  Good(v)'
  <2>1. /\ stage[w] = "commit" /\ todo[w] # <<>>
        /\ todo' = [todo EXCEPT ![w] = Tail(@)]
        /\ stage' = stage /\ writing' = writing
    BY <1>9 DEF CommitJob, CommitJobFails, queue
  <2>2. CASE v # w
    BY <1>4, <2>1, <2>2 DEF TypeOK
  <2>3. CASE v = w
    <3>1. PICK j \in Jobs : j = Head(todo[w])
      BY <2>1 DEF TypeOK
    <3>2. Range(todo[w]) = {j} \cup Range(Tail(todo[w]))
      BY <2>1, <3>1, RangeOfTail DEF TypeOK
    <3>3. Settled(w, j)'
      <4>1. CASE CommitJob(w)
        <5>1. clone'[w] = Committed(Added(Written(clone[w], j)))
          BY <3>1, <4>1 DEF CommitJob, TypeOK
        <5>2. clone'[w].commits = clone[w].commits \cup {Len(author) + 1}
          BY <5>1, CommitJobType DEF TypeOK
        <5>3. author'[Len(author) + 1] = j
          BY <3>1, <4>1 DEF CommitJob, TypeOK
        <5> QED BY <5>2, <5>3 DEF Settled
      <4>2. CASE CommitJobFails(w)
        BY <3>1, <4>2 DEF CommitJobFails, Settled
      <4> QED BY <1>9, <4>1, <4>2
    <3>4. todo'[w] = Tail(todo[w])
      BY <2>1 DEF TypeOK
    <3> QED BY <1>1, <1>3, <2>1, <2>3, <3>2, <3>3, <3>4
  <2> QED BY <2>2, <2>3
<1>10. ASSUME NEW w \in Workers, CleanFails(w) \/ Push(w) \/ PushFails(w)
       PROVE  Good(v)'
  <2>1. CASE v = w
    BY <1>5, <1>10, <2>1 DEF CleanFails, Push, PushFails, TypeOK
  <2>2. CASE v # w
    BY <1>4, <1>10, <2>2 DEF CleanFails, Push, PushFails, Queue!Write, TypeOK
  <2> QED BY <2>1, <2>2
<1>11. ASSUME NEW w \in Workers, MarkJobsCompleted(w)
       PROVE  Good(v)'
  <2>1. CASE v = w
    BY <1>5, <1>11, <2>1 DEF MarkJobsCompleted, TypeOK
  <2>2. CASE v # w
    BY <1>4, <1>11, <2>2 DEF MarkJobsCompleted, Queue!Release, TypeOK
  <2> QED BY <2>1, <2>2
<1>12. ASSUME NEW w \in Workers, Initialize(w)
       PROVE  Good(v)'
  <2>1. CASE v = w
    BY <1>5, <1>12, <2>1 DEF Initialize, TypeOK
  <2>2. CASE v # w
    BY <1>4, <1>12, <2>2 DEF Initialize, queue, TypeOK
  <2> QED BY <2>1, <2>2
<1>13. CASE Restart
  BY <1>5, <1>13 DEF Restart
<1>14. CASE UNCHANGED vars
  BY <1>4, <1>14 DEF vars, queue
<1> QED BY <1>4, <1>6, <1>7, <1>8, <1>9, <1>10, <1>11, <1>12, <1>13, <1>14 DEF Next

LEMMA NothingDroppedNext ==
  ASSUME TypeOK, Numbered, BatchAccounted, NothingDropped, [Next]_vars
  PROVE  NothingDropped'
<1> DEFINE Told(j) == j \in logged \/ \E n \in remote.commits : author[n] = j
<1>1. Grows /\ logged \subseteq logged'
  BY Growth, LoggedGrows
<1>2. \A j : Told(j) => Told(j)'
  BY <1>1 DEF Grows, Numbered
<1>3. SUFFICES ASSUME NEW j \in written', j \notin written
               PROVE  Told(j)'
  BY <1>2 DEF NothingDropped
<1>4. PICK w \in Workers :
        /\ CleanFails(w) \/ Push(w) \/ PushFails(w)
        /\ j \in writing[w]
  BY <1>3 DEF Next, vars, queue, Post, Take, Clean, CleanFails, CommitJob, CommitJobFails, Push,
     PushFails, MarkJobsCompleted, Initialize, Restart, Queue!Accept, Queue!Begin, Queue!Write,
     Queue!Release
<1>5. CASE CleanFails(w) \/ PushFails(w)
  BY <1>4, <1>5 DEF CleanFails, PushFails
<1>6. CASE Push(w)
  <2>1. stage[w] = "commit" /\ todo[w] = <<>> /\ PushDone(w) /\ author' = author
    BY <1>6 DEF Push
  <2>2. Range(todo[w]) = {}
    BY <2>1 DEF Range
  <2>3. Settled(w, j)
    BY <1>4, <2>1, <2>2 DEF BatchAccounted
  <2>4. remote'.commits = clone[w].commits
    BY <2>1, PushDoneType DEF TypeOK
  <2> QED BY <1>1, <2>1, <2>3, <2>4 DEF Settled
<1> QED BY <1>4, <1>5, <1>6

-----------------------------------------------------------------------------
(* No result is damaged without a word: every tree of every clone holds what  *)
(* can be explained by results that are known and failures that were told.    *)

Fits(f, content, known, told) ==
  \/ content = NoFile
  \/ \E j \in known : FileOf[j] = f /\ content = ContentOf[j]
  \/ content = Torn /\ \E j \in told : FileOf[j] = f

TreeFits(tree, known, told) == \A f \in Files : Fits(f, tree[f], known, told)

CloneFits(c, known, told) ==
  /\ TreeFits(c.tree, known, told)
  /\ TreeFits(c.base, known, told)
  /\ TreeFits(c.index, known, told)
  /\ TreeFits(c.work, known, told)

Known == accepted \cup forgotten

Told == logged \cup forgotten

PoolFits ==
  /\ TreeFits(remote.tree, Known, Told)
  /\ \A w \in Workers : CloneFits(clone[w], Known, Told)

TodoAccepted == \A w \in Workers : Range(todo[w]) \subseteq accepted

LEMMA FitsMore ==
  ASSUME NEW tree, NEW known, NEW told, NEW known2, NEW told2,
         known \subseteq known2, told \subseteq told2, TreeFits(tree, known, told)
  PROVE  TreeFits(tree, known2, told2)
BY DEF TreeFits, Fits

LEMMA ResetFits ==
  ASSUME NEW c \in Clones, NEW known, NEW told, CloneFits(c, known, told)
  PROVE  CloneFits(Reset(c), known, told)
BY DEF CloneFits, TreeFits, Reset, Clones

LEMMA PulledFits ==
  ASSUME NEW c \in Clones, NEW known, NEW told, CloneFits(c, known, told),
         TreeFits(remote.tree, known, told)
  PROVE  CloneFits(Pulled(c), known, told)
<1>1. TreeFits(Merged(c), known, told)
  BY DEF CloneFits, TreeFits, Merged
<1>2. CASE UpToDate(c)
  BY <1>2 DEF Pulled
<1>3. CASE ~ UpToDate(c)
  <2>1. TreeFits([f \in Files |-> IF c.work[f] = c.tree[f] THEN Merged(c)[f] ELSE c.work[f]],
                 known, told)
    BY <1>1 DEF CloneFits, TreeFits
  <2> QED BY <1>1, <1>3, <2>1 DEF Pulled, CloneFits
<1> QED BY <1>2, <1>3

LEMMA WrittenFits ==
  ASSUME NEW c \in Clones, NEW known, NEW told, NEW j \in known,
         CloneFits(c, known, told)
  PROVE  CloneFits(Written(c, j), known, told)
<1>1. TreeFits([c.work EXCEPT ![FileOf[j]] = ContentOf[j]], known, told)
  BY DEF CloneFits, TreeFits, Fits, Clones, Trees
<1> QED BY <1>1 DEF Written, CloneFits, Clones

LEMMA TruncatedFits ==
  ASSUME NEW c \in Clones, NEW known, NEW told, NEW j \in told,
         CloneFits(c, known, told)
  PROVE  CloneFits(Truncated(c, j), known, told)
<1>1. TreeFits([c.work EXCEPT ![FileOf[j]] = Torn], known, told)
  BY DEF CloneFits, TreeFits, Fits, Clones, Trees
<1> QED BY <1>1 DEF Truncated, CloneFits, Clones

LEMMA AddedFits ==
  ASSUME NEW c \in Clones, NEW known, NEW told, CloneFits(c, known, told)
  PROVE  CloneFits(Added(c), known, told)
BY DEF Added, CloneFits, Clones

LEMMA CommittedFits ==
  ASSUME NEW c \in Clones, NEW known, NEW told, CloneFits(c, known, told)
  PROVE  CloneFits(Committed(c), known, told)
BY DEF Committed, CloneFits, Clones

LEMMA UnfinishedFits ==
  ASSUME NEW c \in Clones, NEW j \in Jobs, NEW known, NEW told, j \in known, j \in told,
         CloneFits(c, known, told), NEW left \in Unfinished(c, j)
  PROVE  CloneFits(left, known, told)
<1>1. CloneFits(Written(c, j), known, told) /\ Written(c, j) \in Clones
  BY WrittenFits, WrittenType
<1>2. CloneFits(Added(Written(c, j)), known, told)
  BY <1>1, AddedFits
<1>3. CloneFits(Truncated(c, j), known, told)
  BY TruncatedFits
<1> QED BY <1>1, <1>2, <1>3 DEF Unfinished

LEMMA TodoAcceptedNext ==
  ASSUME TypeOK, Finite, TodoAccepted, [Next]_vars
  PROVE  TodoAccepted'
<1> SUFFICES ASSUME NEW v \in Workers
             PROVE  Range(todo'[v]) \subseteq accepted'
  BY DEF TodoAccepted
<1>1. CASE todo'[v] = todo[v] /\ accepted \subseteq accepted'
  BY <1>1 DEF TodoAccepted
<1>2. CASE todo'[v] = <<>>
  BY <1>2 DEF Range
<1>3. ASSUME NEW w \in Workers, Take(w)
      PROVE  Range(todo'[v]) \subseteq accepted'
  <2>1. PICK S \in SUBSET accepted \ {{}} :
          \E list \in SetToSeqs(S) : todo' = [todo EXCEPT ![w] = list]
    BY <1>3 DEF Take
  <2>2. PICK list \in SetToSeqs(S) : todo' = [todo EXCEPT ![w] = list]
    BY <2>1
  <2>3. S \in SUBSET Jobs /\ IsFiniteSet(S)
    BY <2>1, FS_Subset DEF TypeOK, Finite
  <2>4. Range(list) = S
    BY <2>3, ListType
  <2>5. accepted' = accepted
    BY <1>3 DEF Take, Queue!Begin
  <2>6. todo'[v] = IF v = w THEN list ELSE todo[v]
    BY <2>2 DEF TypeOK
  <2> QED BY <1>1, <2>1, <2>4, <2>5, <2>6
<1>4. ASSUME NEW w \in Workers, CommitJob(w) \/ CommitJobFails(w)
      PROVE  Range(todo'[v]) \subseteq accepted'
  <2>1. /\ todo[w] # <<>>
        /\ todo' = [todo EXCEPT ![w] = Tail(@)]
        /\ accepted' = accepted
    BY <1>4 DEF CommitJob, CommitJobFails, queue
  <2>2. CASE v = w
    <3>1. Range(todo[w]) = {Head(todo[w])} \cup Range(Tail(todo[w]))
      BY <2>1, RangeOfTail DEF TypeOK
    <3>2. todo'[v] = Tail(todo[w])
      BY <2>1, <2>2 DEF TypeOK
    <3> QED BY <2>1, <3>1, <3>2 DEF TodoAccepted
  <2>3. CASE v # w
    BY <1>1, <2>1, <2>3 DEF TypeOK
  <2> QED BY <2>2, <2>3
<1>5. ASSUME NEW w \in Workers, CleanFails(w)
      PROVE  Range(todo'[v]) \subseteq accepted'
  BY <1>1, <1>2, <1>5 DEF CleanFails, Queue!Write, TypeOK
<1>6. ASSUME NEW j \in Jobs, Post(j)
      PROVE  Range(todo'[v]) \subseteq accepted'
  BY <1>1, <1>6 DEF Post, Queue!Accept
<1>7. ASSUME NEW w \in Workers,
             Clean(w) \/ Push(w) \/ PushFails(w) \/ MarkJobsCompleted(w) \/ Initialize(w)
      PROVE  Range(todo'[v]) \subseteq accepted'
  BY <1>1, <1>7 DEF Clean, Push, PushFails, MarkJobsCompleted, Initialize, queue, Queue!Write,
     Queue!Release
<1>8. CASE Restart
  BY <1>2, <1>8 DEF Restart
<1>9. CASE UNCHANGED vars
  BY <1>1, <1>9 DEF vars, queue
<1> QED BY <1>3, <1>4, <1>5, <1>6, <1>7, <1>8, <1>9 DEF Next

LEMMA KnownGrows ==
  ASSUME [Next]_vars
  PROVE  Known \subseteq Known' /\ Told \subseteq Told'
BY DEF Next, Post, Take, Clean, CleanFails, CommitJob, CommitJobFails, Push, PushFails,
       MarkJobsCompleted, Initialize, Restart, vars, queue, Queue!Accept, Queue!Begin,
       Queue!Write, Queue!Release, Known, Told

(* Any step turns a clone that fits into one that fits. *)
LEMMA PoolFitsNext ==
  ASSUME TypeOK, Finite, TodoAccepted, PoolFits, [Next]_vars
  PROVE  PoolFits'
<1> DEFINE K == Known'
           T == Told'
<1> HIDE DEF K, T
<1>1. /\ TreeFits(remote.tree, K, T)
      /\ \A w \in Workers : CloneFits(clone[w], K, T)
  BY KnownGrows, FitsMore DEF PoolFits, CloneFits, K, T
<1>2. SUFFICES /\ TreeFits(remote'.tree, K, T)
               /\ \A w \in Workers : CloneFits(clone'[w], K, T)
  BY DEF PoolFits, CloneFits, TreeFits, Fits, K, T
<1>3. \A w \in Workers : CloneFits(Reset(clone[w]), K, T) /\ Reset(clone[w]) \in Clones
  BY <1>1, ResetFits, ResetType DEF TypeOK
<1>4. \A w \in Workers : CloneFits(Pulled(Reset(clone[w])), K, T)
  BY <1>1, <1>3, PulledFits
<1>5. ASSUME NEW w \in Workers, stage[w] = "commit", todo[w] # <<>>
      PROVE  Head(todo[w]) \in Jobs /\ Head(todo[w]) \in accepted
  BY <1>5, RangeOfTail DEF TodoAccepted, TypeOK
<1>6. CASE clone' = clone /\ remote' = remote
  BY <1>1, <1>6
<1>7. ASSUME NEW w \in Workers, Clean(w) \/ CleanFails(w) \/ Initialize(w)
      PROVE  /\ remote' = remote
             /\ \A v \in Workers : CloneFits(clone'[v], K, T)
  BY <1>1, <1>3, <1>4, <1>7 DEF Clean, CleanFails, Initialize, TypeOK
<1>8. ASSUME NEW w \in Workers, CommitJob(w)
      PROVE  /\ remote' = remote
             /\ \A v \in Workers : CloneFits(clone'[v], K, T)
  <2> DEFINE j == Head(todo[w])
  <2>1. j \in Jobs /\ j \in K
    BY <1>5, <1>8, KnownGrows DEF CommitJob, Known, K
  <2>2. CloneFits(Written(clone[w], j), K, T) /\ Written(clone[w], j) \in Clones
    BY <1>1, <2>1, WrittenFits, WrittenType DEF TypeOK
  <2>3. CloneFits(Added(Written(clone[w], j)), K, T) /\ Added(Written(clone[w], j)) \in Clones
    BY <2>2, AddedFits, AddedType
  <2>4. CloneFits(Committed(Added(Written(clone[w], j))), K, T)
    BY <2>3, CommittedFits
  <2> QED BY <1>1, <1>8, <2>4 DEF CommitJob, TypeOK
<1>9. ASSUME NEW w \in Workers, CommitJobFails(w)
      PROVE  /\ remote' = remote
             /\ \A v \in Workers : CloneFits(clone'[v], K, T)
  <2> DEFINE j == Head(todo[w])
  <2>1. j \in Jobs /\ j \in K
    BY <1>5, <1>9, KnownGrows DEF CommitJobFails, Known, K
  <2>2. j \in T
    BY <1>9 DEF CommitJobFails, Told, T
  <2>3. PICK left \in Unfinished(clone[w], j) : clone' = [clone EXCEPT ![w] = left]
    BY <1>9 DEF CommitJobFails
  <2>4. CloneFits(left, K, T)
    BY <1>1, <2>1, <2>2, <2>3, UnfinishedFits DEF TypeOK
  <2> QED BY <1>1, <1>9, <2>3, <2>4 DEF CommitJobFails, TypeOK
<1>10. ASSUME NEW w \in Workers, Push(w) \/ PushFails(w)
       PROVE  /\ TreeFits(remote'.tree, K, T)
              /\ \A v \in Workers : CloneFits(clone'[v], K, T)
  <2>1. CASE PushDone(w)
    <3>1. remote'.tree = clone[w].tree
      BY <2>1 DEF PushDone
    <3>2. clone' = [clone EXCEPT ![w] = [clone[w] EXCEPT !.base = clone[w].tree]]
      BY <2>1 DEF PushDone
    <3>3. CloneFits([clone[w] EXCEPT !.base = clone[w].tree], K, T)
      BY <1>1 DEF CloneFits, TypeOK, Clones
    <3> QED BY <1>1, <3>1, <3>2, <3>3 DEF CloneFits, TypeOK
  <2> QED BY <1>6, <1>10, <2>1 DEF Push, PushFails
<1>11. CASE Restart
  <2>1. accepted \subseteq K /\ accepted \subseteq T
    BY <1>11 DEF Restart, Known, Told, K, T
  <2>2. ASSUME NEW w \in Workers
        PROVE  CloneFits(clone'[w], K, T)
    <3>1. clone'[w] \in LeftBy(w)
      BY <1>11 DEF Restart
    <3>2. CASE stage[w] = "commit" /\ todo[w] # <<>>
      <4>1. clone'[w] \in Unfinished(clone[w], Head(todo[w]))
        BY <3>1, <3>2 DEF LeftBy
      <4>2. Head(todo[w]) \in Jobs /\ Head(todo[w]) \in K /\ Head(todo[w]) \in T
        BY <1>5, <2>1, <3>2
      <4> QED BY <1>1, <4>1, <4>2, UnfinishedFits DEF TypeOK
    <3>3. CASE ~ (stage[w] = "commit" /\ todo[w] # <<>>)
      BY <1>1, <3>1, <3>3 DEF LeftBy
    <3> QED BY <3>2, <3>3
  <2> QED BY <1>1, <1>11, <2>2 DEF Restart
<1>12. ASSUME NEW j \in Jobs, Post(j)
       PROVE  clone' = clone /\ remote' = remote
  BY <1>12 DEF Post
<1>13. ASSUME NEW w \in Workers, Take(w) \/ MarkJobsCompleted(w)
       PROVE  clone' = clone /\ remote' = remote
  BY <1>13 DEF Take, MarkJobsCompleted
<1>14. CASE UNCHANGED vars
  BY <1>6, <1>14 DEF vars
<1> QED BY <1>1, <1>6, <1>7, <1>8, <1>9, <1>10, <1>11, <1>12, <1>13, <1>14 DEF Next

(* The errors of clean, of every commitJob and of push all come through: a    *)
(* result that pushJobs is done with is in the remote or was logged, and what *)
(* the remote's files contain are whole results of theirs, or parts of those  *)
(* of which a failure was logged or which a stop of the controller cut short. *)
THEOREM NothingSilentlyLost == Spec => []NoSilentLoss
<1>1. Init => BatchAccounted /\ NothingDropped
  BY DEF Init, Queue!Init, BatchAccounted, NothingDropped
<1>2. Init => TodoAccepted /\ PoolFits
  BY DEF Init, TodoAccepted, Range, PoolFits, CloneFits, TreeFits, Fits, EmptyTree
<1>3. CloneInv /\ Finite /\ BatchAccounted /\ NothingDropped /\ [Next]_vars
        => (BatchAccounted /\ NothingDropped)'
  BY BatchAccountedNext, NothingDroppedNext DEF CloneInv
<1>4. CloneInv /\ Finite /\ TodoAccepted /\ PoolFits /\ [Next]_vars
        => (TodoAccepted /\ PoolFits)'
  BY TodoAcceptedNext, PoolFitsNext DEF CloneInv
<1>5. NothingDropped /\ PoolFits => NoSilentLoss
  BY DEF PoolFits, TreeFits, Fits, Known, Told, NoSilentLoss, NothingDamaged, Explained
<1> QED BY <1>1, <1>2, <1>3, <1>4, <1>5, CloneInvariance, Typed, PTL DEF Spec

=============================================================================
