----------------------------- MODULE SearchFeed -----------------------------
(***************************************************************************)
(* What copying a table into the search index promises, without goroutines,*)
(* chunks, batches or crashes.  The feed has read the table up to a mark,  *)
(* and keeps the mark honest: a row of the source at or below it is in the *)
(* index or on the list of rows the feed has given up.  The index and the  *)
(* list only grow.  A feed that forgets its mark starts again from 0, and  *)
(* may resume anywhere the promise allows.                                 *)
(***************************************************************************)
EXTENDS Integers

CONSTANT MaxId    \* largest key

VARIABLES source,   \* keys of the rows that exist
          index,    \* keys that can be found
          givenUp,  \* keys the feed does not answer for
          mark      \* how far the feed claims to have read

feedVars == <<source, index, givenUp, mark>>

Keys == 1..MaxId

\* The mark may stand at m, over this source, index and list.
Honest(m, src, ind, out) == \A i \in src : i <= m => i \in ind \cup out

FeedInit == /\ source \subseteq Keys /\ index = {} /\ givenUp = {} /\ mark = 0

\* A row appears; below the mark it counts as given up, unless an earlier row of
\* that key is in the index.
Insert == \E i \in Keys \ source :
  /\ source' = source \cup {i}
  /\ givenUp' \in {givenUp, givenUp \cup {i}}
  /\ Honest(mark, source', index, givenUp')
  /\ UNCHANGED <<index, mark>>

Remove == \E i \in source : source' = source \ {i} /\ UNCHANGED <<index, givenUp, mark>>

Index == index \subseteq index' /\ index' \subseteq Keys /\ UNCHANGED <<source, givenUp, mark>>

GiveUp == givenUp \subseteq givenUp' /\ givenUp' \subseteq Keys /\ UNCHANGED <<source, index, mark>>

MoveMark == /\ mark' \in 0..MaxId
            /\ Honest(mark', source, index, givenUp)
            /\ UNCHANGED <<source, index, givenUp>>

\* The feed forgets its mark, and with it the rows it was in the middle of.
Forget == /\ mark' = 0
          /\ givenUp \subseteq givenUp' /\ givenUp' \subseteq Keys
          /\ UNCHANGED <<source, index>>

FeedNext == Insert \/ Remove \/ Index \/ GiveUp \/ MoveMark \/ Forget

FeedSpec == FeedInit /\ [][FeedNext]_feedVars
=============================================================================
