----------------------------- MODULE ChainCommit -----------------------------
(***************************************************************************)
(* The commit rule, stated without counters: what a server promises.       *)
(*                                                                         *)
(* chain is the suffix of the server's highest chain that is not final.  A *)
(* new element goes to its end, or starts it anew on the last final        *)
(* element (a chain switch).  Then every element that is followed by       *)
(* enough of the chain to have CommitLen distinct proposers in it, itself  *)
(* included, becomes final, and no other.                                  *)
(***************************************************************************)
EXTENDS Integers, Sequences, FiniteSets

CONSTANTS
    Elements,
    Genesis,
    AuthorOf(_),    \* the proposer of an element
    CommitLen       \* distinct proposers that make an element final

VARIABLES
    log,            \* the final elements, in order
    chain           \* the others of the highest chain, in order

Proposers(s) == {AuthorOf(s[i]) : i \in 1 .. Len(s)}

\* How many elements at the front of s are final.
FinalCount(s) ==
    CHOOSE k \in 0 .. Len(s) :
        /\ Cardinality(Proposers(SubSeq(s, k + 1, Len(s)))) < CommitLen
        /\ \A j \in 0 .. (k - 1) :
              Cardinality(Proposers(SubSeq(s, j + 1, Len(s)))) >= CommitLen

\* The highest chain beyond the final elements is now s.
Becomes(s) ==
    /\ log' = log \o SubSeq(s, 1, FinalCount(s))
    /\ chain' = SubSeq(s, FinalCount(s) + 1, Len(s))

Extend == \E e \in Elements : Becomes(Append(chain, e))

Switch == \E e \in Elements : Becomes(<<e>>)

Init == log = <<>> /\ chain = <<Genesis>>

Next == Extend \/ Switch

Spec == Init /\ [][Next]_<<log, chain>>
==============================================================================
