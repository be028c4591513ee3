------------------------------- MODULE CaseScan -------------------------------
(***************************************************************************)
(* The cases a batch call is about (table ut_case, filtered by version and *)
(* perhaps channel), and how they are read: page by page in the order of   *)
(* the primary key, each page in a query of its own that starts after the  *)
(* last key of the page before.  No transaction spans the queries, so the  *)
(* application that owns the table may add and remove cases in between.    *)
(***************************************************************************)
EXTENDS Naturals, FiniteSets, Sequences

CONSTANTS
    Cases,      \* primary keys
    Catalogues, \* the sets of cases there may be when a call begins
    BatchSize,  \* Config.BatchSize
    Changing,   \* bound: the cases that may come or go during a scan
    MaxChanges  \* bound: how often they do

ASSUME CaseScanAssumption ==
    /\ Cases \subseteq Nat \ {0} /\ IsFiniteSet(Cases)
    /\ Catalogues \subseteq SUBSET Cases /\ Changing \subseteq Cases
    /\ BatchSize \in Nat \ {0}
    /\ MaxChanges \in Nat

VARIABLES
    cases,      \* the cases there are
    steady,     \* those that were there from the beginning of the call
    changes

catalogue == <<cases, steady, changes>>

CatalogueInit == cases \in Catalogues /\ steady = cases /\ changes = 0

(* External: a case is added, removed, or gets another version.            *)
Upstream ==
    /\ changes < MaxChanges
    /\ changes' = changes + 1
    /\ \/ \E c \in Changing \ cases : cases' = cases \cup {c} /\ UNCHANGED steady
       \/ \E c \in Changing \cap cases : cases' = cases \ {c} /\ steady' = steady \ {c}

Below(c, S) == Cardinality({d \in S : d < c})

PageByOffset(pages) ==   \* mutant: OFFSET instead of a lower bound for the key
    {c \in cases : Below(c, cases) \div BatchSize = Len(pages)}

(* The next page after those in the sequence pages, empty if there is none. *)
Page(pages) ==
    LET rest == {c \in cases : \A i \in DOMAIN pages : \A d \in pages[i] : d < c}
    IN  {c \in rest : Below(c, rest) < BatchSize}

(* A page that is not full is the last one.                                *)
LastPage(pages) == pages # <<>> /\ Cardinality(pages[Len(pages)]) < BatchSize
=============================================================================
