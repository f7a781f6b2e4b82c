----------------------------- MODULE RepostFold -----------------------------
(***************************************************************************)
(* Which posts of a listing are the same content (reddit/repost.go).  A     *)
(* post is [id, toks, media, author, score]: the tokens of its title, the   *)
(* key of its first medium, its author ("" when deleted), its score (None   *)
(* when it is hidden).  Shares are in percent.                              *)
(***************************************************************************)
EXTENDS Integers, Sequences, FiniteSets, NoneValue

minClusterTokens == 3
jaccardThreshold == 72
jaccardThresholdSameAuthor == 72
containmentThresholdSameAuthor == 55
minContainmentTokens == 15

(* A title of too few distinctive words has no tokens at all. *)
TitleTokens(words) == IF Cardinality(words) < minClusterTokens THEN {} ELSE words

JaccardAtLeast(a, b, share) ==
  100 * Cardinality(a \cap b) >= share * Cardinality(a \cup b)
ContainmentAtLeast(a, b, share) ==
  LET smaller == IF Cardinality(a) < Cardinality(b) THEN a ELSE b
  IN  100 * Cardinality(a \cap b) >= share * Cardinality(smaller)

(* The two ways to be the same: the same medium under a similar title, or   *)
(* the same author under a similar, or a long and overlapping, one.         *)
Matches(p, q) ==
  LET a == TitleTokens(p.toks)
      b == TitleTokens(q.toks)
      sameAuthor == p.author # "" /\ p.author = q.author
  IN  /\ a # {} /\ b # {}
      /\ \/ JaccardAtLeast(a, b, jaccardThreshold) /\ p.media = q.media
         \/ JaccardAtLeast(a, b, jaccardThreshold) /\ sameAuthor
              /\ JaccardAtLeast(a, b, jaccardThresholdSameAuthor)
         \/ sameAuthor /\ Cardinality(a) >= minContainmentTokens
              /\ Cardinality(b) >= minContainmentTokens
              /\ ContainmentAtLeast(a, b, containmentThresholdSameAuthor)

ScoreGT(p, q) == p # None /\ (q = None \/ p > q)

-----------------------------------------------------------------------------
(* A listing is a sequence, and a cluster is where in it its head and its   *)
(* members are.  The post at i joins the first cluster whose head it        *)
(* matches, and becomes its head when its score is higher; else it opens    *)
(* one.                                                                     *)
Alike(posts, clusters, i) == {c \in DOMAIN clusters : Matches(posts[i], posts[clusters[c].head])}
First(S) == CHOOSE c \in S : \A d \in S : c <= d
Enlarged(posts, cluster, i) ==
  [head |-> IF ScoreGT(posts[i].score, posts[cluster.head].score) THEN i ELSE cluster.head,
   members |-> cluster.members \cup {i}]
Joined(posts, clusters, i) ==
  LET alike == Alike(posts, clusters, i)
      at == First(alike)
  IN  IF alike = {} THEN Append(clusters, [head |-> i, members |-> {i}])
      ELSE [clusters EXCEPT ![at] = Enlarged(posts, clusters[at], i)]

Clusters(posts) ==
  LET after[i \in 0 .. Len(posts)] == IF i = 0 THEN << >> ELSE Joined(posts, after[i - 1], i)
  IN  after[Len(posts)]

(* What is left of the page: the heads, where they were. *)
FoldReposts(posts) ==
  LET cs == Clusters(posts)
  IN  [i \in {cs[c].head : c \in DOMAIN cs} |-> posts[i]]

(* Folding loses nothing and keeps the best: of the first n posts each is in *)
(* one cluster, the head of a cluster is one of it, and no member outscores *)
(* it.                                                                      *)
Accounted(posts, clusters, n) ==
  /\ clusters \in Seq([head : 1 .. n, members : SUBSET (1 .. n)])
  /\ \A i \in 1 .. n : \E c \in DOMAIN clusters :
       i \in clusters[c].members /\ \A d \in DOMAIN clusters : i \in clusters[d].members => d = c
  /\ \A c \in DOMAIN clusters :
       /\ clusters[c].head \in clusters[c].members
       /\ \A m \in clusters[c].members :
            ~ScoreGT(posts[m].score, posts[clusters[c].head].score)
=============================================================================
