------------------------------ MODULE Categories ------------------------------
(***************************************************************************)
(* The category pages of b2c (b2c/apps/categories): a tree built from the   *)
(* roots down, and breadcrumbs walked from a category up, both over one     *)
(* read of the adjacency list.  parent maps a category to its parent_id.    *)
(*                                                                         *)
(* Categories are numbered in the order of (ordering, name); a path lists   *)
(* categories instead of their names.                                       *)
(***************************************************************************)
EXTENDS Integers, Sequences, FiniteSets, SequencesExt

CONSTANTS CategoryIds, None

\* The foreign key keeps parent_id at NULL or a row; nothing forbids a cycle.
Hierarchies == [CategoryIds -> CategoryIds \cup {None}]

Orphaned(parent) == \E c \in DOMAIN parent : parent[c] # None /\ parent[c] \notin DOMAIN parent

\* A walk visits a category at most once.
Walks(parent) == UNION {[1..n -> DOMAIN parent] : n \in 1..Cardinality(DOMAIN parent)}

ChildrenOf(parent, node) ==
    SetToSortSeq({c \in DOMAIN parent : parent[c] = node}, LAMBDA a, b : a < b)

Node(parent, path) ==
    [id |-> Last(path), parent |-> parent[Last(path)], level |-> Len(path) - 1, path |-> path]

\* get_tree and get_flat: the tree in pre-order, or the 422 of an orphan.
FlatTree(parent) ==
    LET build[path \in Walks(parent)] ==
            LET children == ChildrenOf(parent, Last(path))
            IN  <<Node(parent, path)>>
                \o FlattenSeq([i \in DOMAIN children |-> build[Append(path, children[i])]])
        roots == ChildrenOf(parent, None)
    IN  FlattenSeq([i \in DOMAIN roots |-> build[<<roots[i]>>]])

\* Mutant: a cycle ends the walk as a root does.
WalkToTop(parent, category) ==
    LET up[chain \in Walks(parent)] ==
            LET next == parent[Head(chain)]
            IN  IF next \in DOMAIN parent \ ToSet(chain) THEN up[<<next>> \o chain] ELSE chain
    IN  up[<<category>>]

\* From the category to the root; << >> for the 422 of an orphan or a cycle.
WalkToRoot(parent, category) ==
    LET up[chain \in Walks(parent)] ==
            LET next == parent[Head(chain)]
            IN  IF next = None THEN chain
                ELSE IF next \in DOMAIN parent \ ToSet(chain) THEN up[<<next>> \o chain]
                ELSE << >>
    IN  up[<<category>>]

\* A product_id is looked up as if it were the id of a category.
Breadcrumbs(parent, category_id, product_id) ==
    LET target == IF category_id # None THEN category_id ELSE product_id
        path == WalkToRoot(parent, target)
    IN  IF category_id # None /\ product_id # None THEN [error |-> "AmbiguousParams"]
        ELSE IF target = None THEN [error |-> "MissingParams"]
        ELSE IF target \notin DOMAIN parent THEN [error |-> "NotFound"]
        ELSE IF path = << >> THEN [error |-> "OrphanNode"]
        ELSE [path |-> path]

FlatResponse(parent) ==
    IF Orphaned(parent) THEN [error |-> "OrphanNode"] ELSE [items |-> FlatTree(parent)]

CategoryResponse(parent, category) ==
    IF category \in DOMAIN parent THEN [parent |-> parent[category]] ELSE [error |-> "NotFound"]
=============================================================================
