------------------------- MODULE CorrelationClusters -------------------------
(***************************************************************************)
(* Clusters of stocks whose returns move together: union-find over the     *)
(* pairs whose correlation is above the threshold.  Codes are numbers, in  *)
(* their order as strings; a pair is {a, b}.                               *)
(***************************************************************************)
EXTENDS Integers, Sequences, FiniteSets, FiniteSetsExt

(* find: the root of a code. *)
Root(parent, code) ==
    LET root[c \in DOMAIN parent] == IF parent[c] = c THEN c ELSE root[parent[c]]
    IN  root[code]

(* Mutant: codes are joined instead of their roots. *)
UnionOfCodes(parent, a, b) ==
    LET low == Min({a, b})
    IN  [parent EXCEPT ![Max({a, b})] = low]

(* union: the smaller root stays. *)
Union(parent, a, b) ==
    LET ra == Root(parent, a)
        rb == Root(parent, b)
    IN  IF ra = rb THEN parent ELSE [parent EXCEPT ![Max({ra, rb})] = Min({ra, rb})]

(* Array.prototype.sort: the element with n - 1 elements before it is the n-th. *)
Ordered(S, Before(_, _)) ==
    [n \in 1 .. Cardinality(S) |-> CHOOSE x \in S : Cardinality({y \in S : Before(y, x)}) = n - 1]

(* The pairs in the order of the two loops. *)
Pairs(codes) ==
    Ordered({p \in codes \X codes : p[1] < p[2]},
            LAMBDA p, q : p[1] < q[1] \/ (p[1] = q[1] /\ p[2] < q[2]))

(* The loops: each correlated pair is joined. *)
Joined(codes, correlated) ==
    LET pairs == Pairs(codes)
        parent[n \in 0 .. Len(pairs)] ==
          IF n = 0 THEN [c \in codes |-> c]
          ELSE IF {pairs[n][1], pairs[n][2]} \in correlated THEN Union(parent[n - 1], pairs[n][1], pairs[n][2])
          ELSE parent[n - 1]
    IN  parent[Len(pairs)]

(* clusterByCorrelation: clusters of at least two codes, in the order of their smallest code. *)
Groups(codes, parent) == {{c \in codes : Root(parent, c) = r} : r \in {Root(parent, d) : d \in codes}}
Clusters(codes, correlated) ==
    Ordered({g \in Groups(codes, Joined(codes, correlated)) : Cardinality(g) > 1},
            LAMBDA g, h : Min(g) < Min(h))

(* What the clusters are meant to be: two codes are together if correlated pairs lead from one to the *)
(* other.                                                                                              *)
Near(codes, correlated, code) == {d \in codes : {code, d} \in correlated}
Reach(codes, correlated, code) ==
    LET reach[k \in 0 .. Cardinality(codes)] ==
          IF k = 0 THEN {code}
          ELSE reach[k - 1] \cup UNION {Near(codes, correlated, c) : c \in reach[k - 1]}
    IN  reach[Cardinality(codes)]
=============================================================================
