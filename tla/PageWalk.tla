------------------------------ MODULE PageWalk ------------------------------
(***************************************************************************)
(* What walking through a list page by page promises to the client, while  *)
(* the list changes under the walk: no item twice, no item out of order,   *)
(* and none passed over that the walk owes.  Which items a walk owes is    *)
(* for the list to say when it starts (it may owe some it has listed), and *)
(* to take back while it lasts; an item that disappears is owed no longer. *)
(* A walk may become void, and then promises nothing.                      *)
(***************************************************************************)
CONSTANT Items

VARIABLES items,    \* what the list holds
          before,   \* its order, as a set of pairs; it stays
          owed,     \* items the walk must not miss
          page,     \* the page shown last
          seen,     \* items the pages so far have shown
          walk      \* "none", "on", "over", "void"

pageVars == <<items, before, owed, page, seen, walk>>

WalkInit == /\ items \subseteq Items /\ before \subseteq Items \X Items
            /\ owed = {} /\ page = {} /\ seen = {} /\ walk = "none"

\* Page p may come next in a walk that has shown old and owes due.
Fits(p, old, due) ==
  /\ p \cap old = {}
  /\ \A i \in p : \A j \in old : <<j, i>> \in before
  /\ \A o \in due : (\E i \in p : <<o, i>> \in before) => o \in old \cup p

\* A page is shown; the last one only if nothing owed is left.
Show(old) == /\ Fits(page', old, owed')
             /\ seen' = old \cup page' /\ seen' \subseteq Items
             /\ \/ walk' = "on"
                \/ walk' = "over" /\ owed' \subseteq seen'
             /\ UNCHANGED <<items, before>>

Begin == walk # "on" /\ owed' \subseteq items /\ Show({})

Continue == walk = "on" /\ owed' \subseteq owed /\ Show(seen)

\* The list changes; what disappears, even for a moment, is no longer owed.
Change == items' \subseteq Items /\ owed' = owed \cap items' /\ UNCHANGED <<before, page, seen, walk>>

Void == walk' = "void" /\ owed' = {} /\ page' = {} /\ seen' = {} /\ UNCHANGED <<items, before>>

WalkNext == Begin \/ Continue \/ Change \/ Void

WalkSpec == WalkInit /\ [][WalkNext]_pageVars
=============================================================================
