----------------------------- MODULE Revisioned -----------------------------
(***************************************************************************)
(* What a row under compare-and-set promises to everybody who quotes its   *)
(* revision: the revision names the content.  The row does not change      *)
(* without taking the next revision, no two contents share one, and a row  *)
(* that reached a final status stays as it is.                                  *)
(***************************************************************************)
EXTENDS Naturals

CONSTANTS
    Contents,       \* what a row may hold besides its revision
    Final(_)        \* contents whose status is final

VARIABLES content, rev

vars == <<content, rev>>

Init == content \in Contents /\ rev = 0

Change == /\ rev' = rev + 1
          /\ content' \in Contents
          /\ Final(content) => content' = content

Spec == Init /\ [][Change]_vars
=============================================================================
